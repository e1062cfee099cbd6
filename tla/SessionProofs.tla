--------------------------- MODULE SessionProofs ----------------------------
(***************************************************************************)
(* What the three relay loops of a session hand over is what they were     *)
(* given, for every number and size of chunks, frames, datagrams and       *)
(* peers.  The TCP relay is proved in RelayProofs; the datagram relays are *)
(* proved here, and all three are carried over to Session, where one of    *)
(* them runs.                                                              *)
(***************************************************************************)
EXTENDS Session, SequenceTheorems, TLAPS

-----------------------------------------------------------------------------
(***************************************************************************)
(* The relay of VLESS UDP frames.  As long as no read was dropped half-way *)
(* the place in the stream tells where the read stands: all frames sent    *)
(* upstream lie before it, and what the read holds is what follows them.   *)
(***************************************************************************)
Sent == Len(out)

AtFrame == want = Udp!Unknown /\ reading = <<>> /\ pos = 3 * Sent

InHeader ==
  want = Udp!Unknown /\ reading = <<Udp!Byte(3 * Sent + 1)>> /\ pos = 3 * Sent + 1

AtPayload == want = 1 /\ reading = <<>> /\ pos = 3 * Sent + 2

HasFrame == want = 1 /\ reading = <<Udp!Byte(3 * Sent + 3)>> /\ pos = 3 * Sent + 3

StreamByte == [frame : Nat, part : Nat]

UdpTyped ==
  /\ arrived \in Nat /\ pos \in Nat /\ pos <= arrived
  /\ out \in Seq(Seq(StreamByte))
  /\ reading \in Seq(StreamByte)
  /\ cut \in BOOLEAN

UdpInv ==
  /\ UdpTyped
  /\ ~cut => /\ Udp!DatagramsAreFrames
             /\ AtFrame \/ InHeader \/ AtPayload \/ HasFrame
  /\ udpResult = "ok" => eof /\ (~cut => Sent = arrived \div 3)

-----------------------------------------------------------------------------
(* The bytes of the stream: two of header, one of payload, and again.       *)
LEMMA BytesOfFrame ==
  ASSUME NEW k \in Nat
  PROVE  /\ Udp!Byte(3 * k + 1) = [frame |-> k + 1, part |-> 0]
         /\ Udp!Byte(3 * k + 2) = [frame |-> k + 1, part |-> 1]
         /\ Udp!Byte(3 * k + 3) = [frame |-> k + 1, part |-> 2]
BY DEF Udp!Byte, Udp!FrameLen

USE SessionAssumption

(* A length no header shows stands for no length.                           *)
LEMMA UnknownIsNoLength == Udp!Unknown \in Nat /\ Udp!Unknown # 0 /\ Udp!Unknown # 1
BY DEF Udp!Unknown

(* A read that holds one byte, and one that holds none.                     *)
LEMMA Lens ==
  ASSUME NEW b
  PROVE  Len(<<b>>) = 1 /\ <<b>> # <<>> /\ Head(<<b>>) = b /\ Len(<<>>) = 0
OBVIOUS

(* What Append makes of a single byte.                                      *)
LEMMA TwoBytes ==
  ASSUME NEW a, NEW b
  PROVE  Len(Append(<<a>>, b)) = 2 /\ Append(<<a>>, b)[1] = a /\ Append(<<a>>, b)[2] = b
<1>. DEFINE S == {a, b}
<1>1. <<a>> \in Seq(S) /\ b \in S /\ Len(<<a>>) = 1 /\ <<a>>[1] = a
  OBVIOUS
<1>. QED BY <1>1, AppendProperties

(* A header byte moves the read through the header of the next frame.       *)
LEMMA ReadHeaderStep ==
  ASSUME UdpInv, Udp!ReadHeader
  PROVE  UdpInv'
<1>1. /\ udpResult = "none" /\ want = Udp!Unknown /\ pos < arrived /\ pos' = pos + 1
      /\ UNCHANGED <<arrived, eof, out, down, back, cut, udpResult>>
  BY Zenon DEF Udp!ReadHeader, Udp!Running
<1>. DEFINE h == Append(reading, Udp!Byte(pos + 1))
<1>2. IF Len(h) < 2 THEN reading' = h /\ want' = Udp!Unknown
                    ELSE reading' = <<>> /\ want' \in Udp!Lengths(h)
  BY Zenon DEF Udp!ReadHeader
<1>3. UdpTyped /\ pos \in Nat
  BY Zenon DEF UdpInv, UdpTyped
<1>4. Udp!Byte(pos + 1) \in StreamByte
  BY <1>3 DEF Udp!Byte, Udp!FrameLen, StreamByte
<1>5. h \in Seq(StreamByte) /\ <<>> \in Seq(StreamByte)
  BY <1>3, <1>4 DEF UdpTyped
<1>6. UdpTyped'
  <2>1. reading' \in Seq(StreamByte)
    BY <1>2, <1>5, Zenon
  <2>. QED BY <1>1, <1>3, <2>1 DEF UdpTyped
<1>7. ASSUME ~cut PROVE (AtFrame \/ InHeader \/ AtPayload \/ HasFrame)'
  <2>1. Sent' = Sent /\ Sent \in Nat
    BY <1>1, <1>3 DEF Sent, UdpTyped
  <2>2. CASE AtFrame
    <3>1. reading = <<>> /\ pos = 3 * Sent
      BY <2>2, Zenon DEF AtFrame
    <3>2. h = <<Udp!Byte(3 * Sent + 1)>> /\ Len(h) < 2
      BY <3>1
    <3>3. InHeader'
      BY <1>1, <1>2, <2>1, <3>1, <3>2, Zenon DEF InHeader
    <3>. QED BY <3>3, Zenon
  <2>3. CASE InHeader
    <3>1. reading = <<Udp!Byte(3 * Sent + 1)>> /\ pos = 3 * Sent + 1
      BY <2>3, Zenon DEF InHeader
    <3>2. /\ Udp!Byte(pos + 1) = Udp!Byte(3 * Sent + 2)
          /\ Udp!Byte(3 * Sent + 1) = [frame |-> Sent + 1, part |-> 0]
          /\ Udp!Byte(3 * Sent + 2) = [frame |-> Sent + 1, part |-> 1]
      <4>1. pos + 1 = 3 * Sent + 2
        BY <2>1, <3>1
      <4>. QED BY <2>1, <4>1, BytesOfFrame, Zenon
    <3>3. /\ h[1] = [frame |-> Sent + 1, part |-> 0]
          /\ h[2] = [frame |-> Sent + 1, part |-> 1] /\ ~(Len(h) < 2)
      <4>1. Len(h) = 2 /\ h[1] = Udp!Byte(3 * Sent + 1) /\ h[2] = Udp!Byte(pos + 1)
        BY <3>1, TwoBytes
      <4>2. ~(2 < 2)
        OBVIOUS
      <4>. QED BY <3>2, <4>1, <4>2, Zenon
    <3>4. Udp!Lengths(h) = {1}
      <4>1. h[1].part = 0 /\ h[2] = [h[1] EXCEPT !.part = 1]
        BY <3>3, SMTT(30)
      <4>. QED BY <4>1, Zenon DEF Udp!Lengths
    <3>5. reading' = <<>> /\ want' = 1
      <4>. HIDE DEF h
      <4>. QED BY <1>2, <3>3, <3>4, Zenon
    <3>6. AtPayload'
      BY <1>1, <2>1, <3>1, <3>5 DEF AtPayload
    <3>. QED BY <3>6, Zenon
  <2>4. ~AtPayload /\ ~HasFrame
    BY <1>1, UnknownIsNoLength, Zenon DEF AtPayload, HasFrame
  <2>. QED BY <1>7, <2>2, <2>3, <2>4, Zenon DEF UdpInv
<1>8. ~cut => Udp!DatagramsAreFrames'
  BY <1>1, Zenon DEF UdpInv, Udp!DatagramsAreFrames
<1>9. udpResult' # "ok" /\ cut' = cut
  BY <1>1, Zenon
<1>. QED BY <1>6, <1>7, <1>8, <1>9, Zenon DEF UdpInv

(* The payload byte completes the frame.                                    *)
LEMMA ReadPayloadStep ==
  ASSUME UdpInv, Udp!ReadPayload
  PROVE  UdpInv'
<1>1. /\ udpResult = "none" /\ want # Udp!Unknown /\ Len(reading) < want
      /\ pos < arrived /\ pos' = pos + 1
      /\ reading' = Append(reading, Udp!Byte(pos + 1))
      /\ UNCHANGED <<arrived, eof, want, out, down, back, cut, udpResult>>
  BY Zenon DEF Udp!ReadPayload, Udp!Running
<1>2. UdpTyped /\ pos \in Nat
  BY Zenon DEF UdpInv, UdpTyped
<1>3. Udp!Byte(pos + 1) \in StreamByte
  BY <1>2 DEF Udp!Byte, Udp!FrameLen, StreamByte
<1>4. UdpTyped'
  <2>1. reading' \in Seq(StreamByte)
    BY <1>1, <1>2, <1>3 DEF UdpTyped
  <2>. QED BY <1>1, <1>2, <2>1 DEF UdpTyped
<1>5. ASSUME ~cut PROVE HasFrame'
  <2>1. Sent' = Sent /\ Sent \in Nat
    BY <1>1, <1>2 DEF Sent, UdpTyped
  <2>2. AtPayload
    <3>1. ~AtFrame /\ ~InHeader
      BY <1>1, Zenon DEF AtFrame, InHeader
    <3>2. ~HasFrame
      <4>1. HasFrame => want = 1 /\ Len(reading) = 1
        BY Lens, Zenon DEF HasFrame
      <4>. QED BY <1>1, <4>1
    <3>. QED BY <1>5, <3>1, <3>2, Zenon DEF UdpInv
  <2>3. want = 1 /\ reading = <<>> /\ pos = 3 * Sent + 2
    BY <2>2, Zenon DEF AtPayload
  <2>4. pos + 1 = 3 * Sent + 3
    BY <2>1, <2>3
  <2>5. reading' = <<Udp!Byte(3 * Sent + 3)>>
    BY <1>1, <2>3, <2>4
  <2>. QED BY <1>1, <2>1, <2>3, <2>4, <2>5, Zenon DEF HasFrame
<1>6. ~cut => Udp!DatagramsAreFrames'
  BY <1>1, Zenon DEF UdpInv, Udp!DatagramsAreFrames
<1>7. udpResult' # "ok" /\ cut' = cut
  BY <1>1, Zenon
<1>. QED BY <1>4, <1>5, <1>6, <1>7, Zenon DEF UdpInv

(* A complete frame becomes the next datagram.                              *)
LEMMA FrameReadStep ==
  ASSUME UdpInv, Udp!FrameRead
  PROVE  UdpInv'
<1>1. /\ udpResult = "none" /\ want = Len(reading) /\ out' = Append(out, reading)
      /\ reading' = <<>> /\ want' = Udp!Unknown
      /\ UNCHANGED <<arrived, eof, pos, down, back, cut, udpResult>>
  BY Zenon DEF Udp!FrameRead, Udp!Running
<1>2. UdpTyped
  BY Zenon DEF UdpInv
<1>3. /\ out' \in Seq(Seq(StreamByte)) /\ Sent' = Sent + 1 /\ Sent \in Nat
      /\ \A i \in 1 .. Sent : out'[i] = out[i]
      /\ out'[Sent + 1] = reading
  BY <1>1, <1>2, AppendProperties DEF Sent, UdpTyped
<1>4. UdpTyped'
  BY <1>1, <1>2, <1>3 DEF UdpTyped
<1>5. ASSUME ~cut PROVE Udp!DatagramsAreFrames' /\ AtFrame'
  <2>1. HasFrame
    <3>1. ~AtFrame /\ ~InHeader
      BY <1>1, UnknownIsNoLength, Lens, Zenon DEF AtFrame, InHeader
    <3>2. ~AtPayload
      BY <1>1, Lens DEF AtPayload
    <3>. QED BY <1>5, <3>1, <3>2, Zenon DEF UdpInv
  <2>2. out'[Sent + 1] = Udp!Payload(Sent + 1)
    BY <1>3, <2>1, BytesOfFrame, Zenon DEF HasFrame, Udp!Payload
  <2>3. \A i \in 1 .. Sent : out'[i] = Udp!Payload(i)
    BY <1>3, <1>5, Zenon DEF UdpInv, Udp!DatagramsAreFrames, Sent
  <2>4. \A i \in 1 .. Sent' : i \in 1 .. Sent \/ i = Sent + 1
    BY <1>3
  <2>5. \A i \in 1 .. Sent' : out'[i] = Udp!Payload(i)
    BY <2>2, <2>3, <2>4, Zenon
  <2>6. Udp!DatagramsAreFrames'
    BY <2>5, Zenon DEF Udp!DatagramsAreFrames, Sent, Udp!Payload
  <2>7. AtFrame'
    BY <1>1, <1>3, <2>1 DEF HasFrame, AtFrame
  <2>. QED BY <2>6, <2>7, Zenon
<1>6. udpResult' # "ok" /\ cut' = cut
  BY <1>1, Zenon
<1>. QED BY <1>4, <1>5, <1>6, Zenon DEF UdpInv

(* A datagram between two frames leaves the read where it is; inside one it *)
(* cuts the frame.                                                          *)
LEMMA DatagramStep ==
  ASSUME UdpInv, Udp!Datagram
  PROVE  UdpInv'
<1>1. /\ udpResult = "none" /\ cut' = (cut \/ reading # <<>> \/ want # Udp!Unknown)
      /\ reading' = <<>> /\ want' = Udp!Unknown
      /\ UNCHANGED <<arrived, eof, pos, out, down, udpResult>>
  BY Zenon DEF Udp!Datagram, Udp!Running
<1>2. UdpTyped'
  <2>1. cut' \in BOOLEAN
    BY <1>1, Zenon
  <2>2. reading' \in Seq(StreamByte)
    BY <1>1
  <2>. QED BY <1>1, <2>1, <2>2, Zenon DEF UdpInv, UdpTyped
<1>3. ASSUME ~cut' PROVE Udp!DatagramsAreFrames' /\ AtFrame'
  <2>1. ~cut /\ reading = <<>> /\ want = Udp!Unknown
    BY <1>1, <1>3, Zenon
  <2>2. Sent' = Sent /\ pos' = pos
    BY <1>1, Zenon DEF Sent
  <2>3. AtFrame
    BY <2>1, UnknownIsNoLength, Lens, Zenon DEF UdpInv, InHeader, AtPayload, HasFrame
  <2>. QED BY <1>1, <2>1, <2>2, <2>3, Zenon DEF AtFrame, UdpInv, Udp!DatagramsAreFrames
<1>. QED BY <1>1, <1>2, <1>3, Zenon DEF UdpInv

(* The steps that move no byte of the stream towards the target.            *)
LEMMA UdpOtherStep ==
  ASSUME UdpInv,
         \/ Udp!ClientSends \/ Udp!ClientCloses \/ Udp!UpstreamSends
         \/ Udp!ReadEof \/ Udp!Stopped \/ UNCHANGED Udp!vars
  PROVE  UdpInv'
<1>1. UNCHANGED <<pos, reading, want, out, cut>>
  BY Zenon DEF Udp!ClientSends, Udp!ClientCloses, Udp!UpstreamSends, Udp!ReadEof,
    Udp!Stopped,
         Udp!Ends, Udp!vars
<1>2. arrived' \in Nat /\ arrived' >= arrived /\ (eof => arrived' = arrived /\ eof')
  <2>1. CASE Udp!ClientSends
    <3>1. PICK n \in arrived + 1 .. Udp!Total : arrived' = n
      BY <2>1, Zenon DEF Udp!ClientSends
    <3>2. arrived \in Nat /\ Udp!Total \in Nat
      BY DEF UdpInv, UdpTyped, Udp!Total, Udp!FrameLen
    <3>. QED BY <2>1, <3>1, <3>2 DEF Udp!ClientSends
  <2>2. CASE ~Udp!ClientSends
    BY <2>2 DEF UdpInv, UdpTyped, Udp!ClientCloses, Udp!UpstreamSends, Udp!ReadEof,
                Udp!Stopped, Udp!Ends, Udp!vars
  <2>. QED BY <2>1, <2>2, Zenon
<1>3. UdpTyped'
  BY <1>1, <1>2 DEF UdpInv, UdpTyped
<1>4. ~cut' => Udp!DatagramsAreFrames' /\ (AtFrame \/ InHeader \/ AtPayload \/ HasFrame)'
  BY <1>1, Zenon DEF UdpInv, Udp!DatagramsAreFrames, AtFrame, InHeader, AtPayload,
    HasFrame, Sent
<1>5. ASSUME udpResult' = "ok" PROVE eof' /\ (~cut' => Sent' = arrived' \div 3)
  <2>1. CASE udpResult = "ok"
    BY <1>1, <1>2, <2>1, Zenon DEF UdpInv, Sent
  <2>2. CASE udpResult # "ok"
    <3>1. Udp!ReadEof
      BY <1>5, <2>2, Zenon DEF Udp!ClientSends, Udp!ClientCloses, Udp!UpstreamSends,
        Udp!Stopped,
                        Udp!Ends, Udp!vars
    <3>2. /\ eof' = eof /\ arrived' = arrived /\ eof /\ pos = arrived
          /\ want = Udp!Unknown
      BY <1>5, <3>1, Zenon DEF Udp!ReadEof, Udp!Ends
    <3>3. ~cut => arrived = 3 * Sent \/ arrived = 3 * Sent + 1
      BY <3>2, UnknownIsNoLength, Zenon DEF UdpInv, AtFrame, InHeader, AtPayload, HasFrame
    <3>4. \A k \in Nat : (3 * k) \div 3 = k /\ (3 * k + 1) \div 3 = k
      OBVIOUS
    <3>5. Sent' = Sent /\ Sent \in Nat
      BY <1>1 DEF Sent, UdpInv, UdpTyped
    <3>. QED BY <1>1, <3>2, <3>3, <3>4, <3>5, Zenon
  <2>. QED BY <2>1, <2>2, Zenon
<1>. QED BY <1>3, <1>4, <1>5, Zenon DEF UdpInv

(* The invariant of the relay of frames.                                    *)
LEMMA UdpInductive ==
  /\ Udp!Init => UdpInv
  /\ UdpInv /\ [Udp!Next]_(Udp!vars) => UdpInv'
  /\ UdpInv => Udp!FramesUnlessCut /\ Udp!EndIsComplete
<1>1. ASSUME Udp!Init PROVE UdpInv
  <2>1. UdpTyped
    <3>1. <<>> \in Seq(Seq(StreamByte)) /\ <<>> \in Seq(StreamByte)
      BY EmptySeq, Zenon
    <3>2. arrived = 0 /\ pos = 0 /\ out = <<>> /\ reading = <<>> /\ cut = FALSE
      BY <1>1, Zenon DEF Udp!Init
    <3>3. arrived \in Nat /\ pos \in Nat /\ pos <= arrived
      BY <3>2
    <3>4. cut \in BOOLEAN
      BY <3>2, Zenon
    <3>. QED BY <3>1, <3>2, <3>3, <3>4, Zenon DEF UdpTyped
  <2>2. AtFrame /\ Udp!DatagramsAreFrames
    <3>1. Len(out) = 0 /\ pos = 0 /\ want = Udp!Unknown /\ reading = <<>>
      BY <1>1, Zenon DEF Udp!Init
    <3>2. 1 .. Len(out) = {}
      BY <3>1
    <3>. QED BY <3>1, <3>2 DEF AtFrame, Sent, Udp!DatagramsAreFrames
  <2>. QED BY <1>1, <2>1, <2>2, Zenon DEF Udp!Init, UdpInv
<1>2. UdpInv /\ [Udp!Next]_(Udp!vars) => UdpInv'
  BY ReadHeaderStep, ReadPayloadStep, FrameReadStep, DatagramStep, UdpOtherStep,
    Zenon DEF Udp!Next
<1>3. UdpInv => Udp!FramesUnlessCut /\ Udp!EndIsComplete
  BY Zenon DEF UdpInv, Udp!FramesUnlessCut, Udp!EndIsComplete, Sent, Udp!FrameLen
<1>. QED BY <1>1, <1>2, <1>3, Zenon

-----------------------------------------------------------------------------
(***************************************************************************)
(* The SOCKS5 UDP association.  Besides the property the invariant says    *)
(* that the datagrams still to be served are datagrams that came, and that *)
(* no reply waits unless the task waits for one.                           *)
(***************************************************************************)
AssocTyped ==
  /\ from \in Seq(Peers) /\ Len(from) <= MaxDatagrams
  /\ inbox \in Seq(Nat) /\ \A i \in 1 .. Len(inbox) : inbox[i] \in 1 .. Len(from)
  /\ cur \in 0 .. Len(from)
  /\ asked \subseteq 1 .. Len(from)
  /\ replied \in [1 .. MaxDatagrams -> Nat]
  /\ waiting \in Nat

Answered ==
  \A a \in answers : a.datagram \in asked /\ replied[a.datagram] > 0
                     /\ a.to = from[a.datagram]

AssocInv ==
  /\ AssocTyped
  /\ pc \in {"connect", "wait"} => cur # 0
  /\ pc # "wait" => waiting = 0
  /\ pc = "wait" => cur \in asked /\ waiting <= replied[cur]
  /\ Answered

(* The answers stay right while datagrams and replies come.                 *)
LEMMA AnsweredStays ==
  ASSUME AssocTyped, Answered, answers' = answers, asked \subseteq asked',
         \A d \in asked : replied[d] > 0 => replied'[d] > 0,
         \A d \in 1 .. Len(from) : from'[d] = from[d]
  PROVE  Answered'
BY Zenon DEF AssocTyped, Answered

(* A datagram of a peer.                                                    *)
LEMMA PeerSendsStep ==
  ASSUME AssocInv, NEW p \in Peers, Associate!PeerSends(p)
  PROVE  AssocInv'
<1>1. /\ Len(from) < MaxDatagrams /\ from' = Append(from, p)
      /\ inbox' = Append(inbox, Len(from'))
      /\ UNCHANGED <<pc, control, cur, asked, replied, waiting, answers, dropped>>
  BY Zenon DEF Associate!PeerSends
<1>2. AssocTyped /\ Len(from) \in Nat /\ Len(inbox) \in Nat
  BY DEF AssocInv, AssocTyped
<1>3. /\ from' \in Seq(Peers) /\ Len(from') = Len(from) + 1
      /\ \A i \in 1 .. Len(from) : from'[i] = from[i]
  BY <1>1, <1>2, AppendProperties DEF AssocTyped
<1>4. /\ inbox' \in Seq(Nat) /\ Len(inbox') = Len(inbox) + 1
      /\ \A i \in 1 .. Len(inbox) : inbox'[i] = inbox[i]
      /\ inbox'[Len(inbox) + 1] = Len(from) + 1
  <2>1. Len(from') \in Nat
    BY <1>2, <1>3
  <2>. QED BY <1>1, <1>2, <1>3, <2>1, AppendProperties DEF AssocTyped
<1>5. \A i \in 1 .. Len(inbox') : inbox'[i] \in 1 .. Len(from')
  <2>1. \A i \in 1 .. Len(inbox') : i \in 1 .. Len(inbox) \/ i = Len(inbox) + 1
    BY <1>2, <1>4
  <2>2. \A i \in 1 .. Len(inbox) : inbox'[i] \in 1 .. Len(from')
    <3>1. \A i \in 1 .. Len(inbox) : inbox'[i] \in 1 .. Len(from)
      BY <1>2, <1>4, Zenon DEF AssocTyped
    <3>2. 1 .. Len(from) \subseteq 1 .. Len(from')
      BY <1>2, <1>3
    <3>. QED BY <3>1, <3>2, Zenon
  <2>3. Len(from) + 1 \in 1 .. Len(from')
    BY <1>2, <1>3, SMTT(30)
  <2>. QED BY <1>4, <2>1, <2>2, <2>3, Zenon
<1>6. AssocTyped'
  <2>1. Len(from') <= MaxDatagrams /\ cur' \in 0 .. Len(from') /\ asked' \subseteq 1 .. Len(from')
    BY <1>1, <1>2, <1>3 DEF AssocTyped
  <2>. QED BY <1>1, <1>2, <1>3, <1>4, <1>5, <2>1, Zenon DEF AssocTyped
<1>7. Answered'
  <2>1. asked' = asked /\ replied' = replied /\ answers' = answers
    BY <1>1, Zenon
  <2>. QED BY <1>2, <1>3, <2>1, AnsweredStays, Zenon DEF AssocInv
<1>. QED BY <1>1, <1>6, <1>7, Zenon DEF AssocInv

(* A reply of a target, in time or late.                                    *)
LEMMA TargetRepliesStep ==
  ASSUME AssocInv, NEW d \in Associate!Datagrams, Associate!TargetReplies(d)
  PROVE  AssocInv'
<1>1. /\ d \in asked /\ replied' = [replied EXCEPT ![d] = @ + 1]
      /\ UNCHANGED <<pc, control, inbox, from, cur, asked, answers>>
      /\ \/ pc = "wait" /\ d = cur /\ waiting' = waiting + 1
         \/ ~(pc = "wait" /\ d = cur) /\ waiting' = waiting
  BY Zenon DEF Associate!TargetReplies
<1>2. AssocTyped /\ replied \in [1 .. MaxDatagrams -> Nat] /\ d \in 1 .. MaxDatagrams
  BY Zenon DEF AssocInv, AssocTyped, Associate!Datagrams
<1>3. /\ replied' \in [1 .. MaxDatagrams -> Nat] /\ replied'[d] = replied[d] + 1
      /\ \A e \in 1 .. MaxDatagrams : replied'[e] >= replied[e]
  BY <1>1, <1>2, SMTT(30)
<1>4. asked \subseteq 1 .. MaxDatagrams
  BY <1>2 DEF AssocTyped
<1>5. waiting \in Nat /\ waiting' \in Nat
  BY <1>1, <1>2 DEF AssocTyped
<1>6. AssocTyped'
  BY <1>1, <1>2, <1>3, <1>5, Zenon DEF AssocTyped
<1>7. Answered'
  <2>1. \A e \in asked : replied[e] > 0 => replied'[e] > 0
    BY <1>2, <1>3, <1>4
  <2>2. answers' = answers /\ asked' = asked /\ from' = from
    BY <1>1, Zenon
  <2>. QED BY <1>2, <2>1, <2>2, AnsweredStays, Zenon DEF AssocInv
<1>8. pc' = "wait" => cur' \in asked' /\ waiting' <= replied'[cur']
  <2>. SUFFICES ASSUME pc = "wait" PROVE cur \in asked /\ waiting' <= replied'[cur]
    BY <1>1, Zenon
  <2>1. cur \in asked /\ waiting <= replied[cur] /\ cur \in 1 .. MaxDatagrams
    BY <1>4, Zenon DEF AssocInv
  <2>2. CASE d = cur
    BY <1>1, <1>2, <1>3, <1>5, <2>1, <2>2
  <2>3. CASE d # cur
    BY <1>1, <1>2, <1>3, <1>5, <2>1, <2>3, Zenon
  <2>. QED BY <2>2, <2>3, Zenon
<1>9. pc' # "wait" => waiting' = 0
  BY <1>1, Zenon DEF AssocInv
<1>10. pc' \in {"connect", "wait"} => cur' # 0
  BY <1>1, Zenon DEF AssocInv
<1>. QED BY <1>6, <1>7, <1>8, <1>9, <1>10, Zenon DEF AssocInv

(* A datagram comes to hand, or is skipped.                                 *)
LEMMA ReceiveStep ==
  ASSUME AssocInv, Associate!Receive
  PROVE  AssocInv'
<1>1. /\ pc = "select" /\ inbox # <<>> /\ inbox' = Tail(inbox)
      /\ pc' # "wait" /\ (pc' = "connect" => cur' = Head(inbox))
      /\ cur' = cur \/ cur' = Head(inbox)
      /\ UNCHANGED <<control, from, asked, replied, waiting, answers, dropped>>
  BY Zenon DEF Associate!Receive, Associate!AfterReset
<1>2. AssocTyped /\ Len(from) \in Nat /\ Len(inbox) \in Nat \ {0}
  BY <1>1, SMTT(30) DEF AssocInv, AssocTyped
<1>3. /\ inbox' \in Seq(Nat) /\ Len(inbox') = Len(inbox) - 1 /\ Head(inbox) = inbox[1]
      /\ \A i \in 1 .. Len(inbox') : inbox'[i] = inbox[i + 1]
  BY <1>1, <1>2, HeadTailProperties DEF AssocTyped
<1>4. Head(inbox) \in 1 .. Len(from)
  BY <1>2, <1>3 DEF AssocTyped
<1>5. \A i \in 1 .. Len(inbox') : inbox'[i] \in 1 .. Len(from)
  <2>1. \A i \in 1 .. Len(inbox') : i + 1 \in 1 .. Len(inbox)
    BY <1>2, <1>3
  <2>. QED BY <1>2, <1>3, <2>1, Zenon DEF AssocTyped
<1>6. cur' \in 0 .. Len(from)
  BY <1>1, <1>2, <1>4 DEF AssocTyped
<1>7. AssocTyped'
  BY <1>1, <1>2, <1>3, <1>5, <1>6, Zenon DEF AssocTyped
<1>8. Answered'
  BY <1>1, <1>2, Zenon DEF AssocInv, Answered
<1>9. pc' \in {"connect", "wait"} => cur' # 0
  BY <1>1, <1>2, <1>4
<1>. QED BY <1>1, <1>7, <1>8, <1>9, Zenon DEF AssocInv

(* The datagram is sent to its target, or given up.                         *)
LEMMA ConnectStep ==
  ASSUME AssocInv, Associate!Connect
  PROVE  AssocInv'
<1>1. /\ pc = "connect"
      /\ \/ pc' = "wait" /\ asked' = asked \cup {cur}
         \/ pc' = "select" /\ asked' = asked
      /\ UNCHANGED <<control, inbox, from, cur, replied, waiting, answers, dropped>>
  BY Zenon DEF Associate!Connect
<1>2. AssocTyped /\ cur # 0 /\ waiting = 0 /\ cur \in 0 .. Len(from) /\ Len(from) \in Nat
  BY <1>1 DEF AssocInv, AssocTyped
<1>3. cur \in 1 .. Len(from) /\ cur \in 1 .. MaxDatagrams
  BY <1>2 DEF AssocTyped
<1>4. AssocTyped'
  BY <1>1, <1>2, <1>3, Zenon DEF AssocTyped
<1>5. Answered'
  <2>1. answers' = answers /\ asked \subseteq asked' /\ replied' = replied /\ from' = from
    BY <1>1, Zenon
  <2>. QED BY <1>2, <2>1, AnsweredStays, Zenon DEF AssocInv
<1>6. replied[cur] \in Nat
  BY <1>2, <1>3, Zenon DEF AssocTyped
<1>7. pc' = "wait" => cur' \in asked' /\ waiting' <= replied'[cur']
  BY <1>1, <1>2, <1>6
<1>. QED BY <1>1, <1>2, <1>4, <1>5, <1>7, Zenon DEF AssocInv

(* The first reply goes to the peer that sent the datagram.                 *)
LEMMA ReplyStep ==
  ASSUME AssocInv, Associate!Reply
  PROVE  AssocInv'
<1>1. /\ pc = "wait" /\ pc' = "select" /\ waiting > 0 /\ waiting' = 0
      /\ answers' = answers \cup {[datagram |-> cur, to |-> from[cur]]}
      /\ UNCHANGED <<control, inbox, from, cur, asked, replied>>
  BY Zenon DEF Associate!Reply
<1>2. AssocTyped /\ cur \in asked /\ waiting <= replied[cur] /\ Answered
  BY <1>1, Zenon DEF AssocInv
<1>3. replied[cur] > 0
  <2>1. waiting \in Nat /\ replied[cur] \in Nat
    BY <1>2 DEF AssocTyped
  <2>. QED BY <1>1, <1>2, <2>1
<1>4. AssocTyped'
  BY <1>1, <1>2, Zenon DEF AssocTyped
<1>5. Answered'
  <2>1. ASSUME NEW a \in answers'
        PROVE  a.datagram \in asked /\ replied[a.datagram] > 0 /\ a.to = from[a.datagram]
    <3>1. CASE a \in answers
      BY <1>2, <3>1, Zenon DEF Answered
    <3>2. CASE a = [datagram |-> cur, to |-> from[cur]]
      BY <1>2, <1>3, <3>2, Zenon
    <3>. QED BY <1>1, <3>1, <3>2, Zenon
  <2>. QED BY <1>1, <2>1, Zenon DEF Answered
<1>. QED BY <1>1, <1>4, <1>5, Zenon DEF AssocInv

(* The steps that touch neither datagrams nor replies.                      *)
LEMMA AssocOtherStep ==
  ASSUME AssocInv,
         \/ Associate!ClientCloses \/ Associate!ControlByte \/ Associate!ControlEof
         \/ Associate!Deadline \/ Associate!ReplyTimeout \/ UNCHANGED Associate!vars
  PROVE  AssocInv'
<1>1. UNCHANGED <<inbox, from, cur, asked, replied, waiting, answers>>
  BY Zenon DEF Associate!ClientCloses, Associate!ControlByte, Associate!ControlEof,
         Associate!Deadline, Associate!ReplyTimeout, Associate!vars
<1>2. \/ pc' = pc
      \/ pc = "select" /\ pc' \notin {"connect", "wait"}
      \/ pc' = "select" /\ waiting = 0
  BY Zenon DEF Associate!ClientCloses, Associate!ControlByte, Associate!ControlEof,
         Associate!Deadline, Associate!ReplyTimeout, Associate!vars, Associate!AfterReset
<1>3. AssocTyped' /\ Answered'
  BY <1>1, Zenon DEF AssocInv, AssocTyped, Answered
<1>. QED BY <1>1, <1>2, <1>3, Zenon DEF AssocInv

(* The invariant of the association.                                        *)
LEMMA AssocInductive ==
  /\ Associate!Init => AssocInv
  /\ AssocInv /\ [Associate!Next]_(Associate!vars) => AssocInv'
  /\ AssocInv => Associate!RepliesMatch
<1>1. ASSUME Associate!Init PROVE AssocInv
  <2>1. AssocTyped
    <3>1. \A S : <<>> \in Seq(S)
      BY EmptySeq, Zenon
    <3>2. from = <<>> /\ inbox = <<>> /\ Len(from) = 0 /\ Len(inbox) = 0
      BY <1>1, Zenon DEF Associate!Init
    <3>3. 1 .. Len(inbox) = {}
      BY <3>2
    <3>. QED BY <1>1, <3>1, <3>2, <3>3 DEF Associate!Init, Associate!Datagrams, AssocTyped
  <2>. QED BY <1>1, <2>1, Zenon DEF Associate!Init, AssocInv, Answered
<1>2. AssocInv /\ [Associate!Next]_(Associate!vars) => AssocInv'
  BY PeerSendsStep, TargetRepliesStep, ReceiveStep, ConnectStep, ReplyStep,
    AssocOtherStep, Zenon
     DEF Associate!Next
<1>3. AssocInv => Associate!RepliesMatch
  BY Zenon DEF AssocInv, Answered, Associate!RepliesMatch
<1>. QED BY <1>1, <1>2, <1>3, Zenon

-----------------------------------------------------------------------------
(***************************************************************************)
(* Session: a step is one of the loop that serves it and leaves the other  *)
(* two where they are.                                                     *)
(***************************************************************************)
TcpP == INSTANCE RelayProofs

LEMMA TcpConstants == TcpP!RelayConstants
BY Zenon DEF TcpP!RelayConstants

(* Relay means the same in Session and in RelayProofs.                      *)
LEMMA SameRelay ==
  /\ Tcp!Init => TcpP!Init
  /\ [Tcp!Next]_(Tcp!vars) => [TcpP!Next]_(TcpP!vars)
BY Zenon DEF Tcp!Dirs, TcpP!Dirs, Tcp!Selecting, TcpP!Selecting, Tcp!peerVars,
             TcpP!peerVars, Tcp!Init, TcpP!Init, Tcp!vars, TcpP!vars, Tcp!Next,
             TcpP!Next, Tcp!PeerSends, TcpP!PeerSends, Tcp!PeerEnds, TcpP!PeerEnds,
             Tcp!PeerDrains, TcpP!PeerDrains, Tcp!Read, TcpP!Read, Tcp!ReadEof,
             TcpP!ReadEof, Tcp!Write, TcpP!Write, Tcp!Shutdown, TcpP!Shutdown,
             Tcp!InSelect, TcpP!InSelect, Tcp!Writing, TcpP!Writing,
             Tcp!ShuttingDown, TcpP!ShuttingDown, Tcp!ReturnOk, TcpP!ReturnOk,
             Tcp!IdleFires, TcpP!IdleFires, Tcp!LifetimeFires, TcpP!LifetimeFires,
             Tcp!IoError, TcpP!IoError, Tcp!Tick, TcpP!Tick, Tcp!Returns,
             TcpP!Returns

(* Each loop of a session is the relay it is an instance of.                *)
LEMMA StepsOfLoops ==
  ASSUME [Next]_vars
  PROVE  /\ [TcpP!Next]_(TcpP!vars)
         /\ [Udp!Next]_(Udp!vars)
         /\ [Associate!Next]_(Associate!vars)
<1>1. /\ [Tcp!Next]_(Tcp!vars) /\ [Udp!Next]_(Udp!vars)
      /\ [Associate!Next]_(Associate!vars)
  BY Zenon DEF Next, TcpStep, UdpStep, AssociateStep, vars, tcpVars, udpVars,
    associateVars,
         Tcp!vars, Udp!vars, Associate!vars
<1>. QED BY <1>1, SameRelay, Zenon

(* RelayedIsExact: what each of the three relays has handed over is what it *)
(* was given.                                                               *)
THEOREM RelaysAreExact == Spec => []RelayedIsExact
<1>1. Init => TcpP!Init /\ UdpInv
  BY SameRelay, UdpInductive, SMTT(30) DEF Init
<1>2. [Next]_vars => [TcpP!Next]_(TcpP!vars)
  BY StepsOfLoops, Zenon
<1>3. UdpInv /\ [Next]_vars => UdpInv'
  BY StepsOfLoops, UdpInductive, SMTT(30)
<1>4. TcpP!CountsAreExact /\ UdpInv => RelayedIsExact
  BY UdpInductive, Zenon DEF RelayedIsExact, Tcp!CountsAreExact, TcpP!CountsAreExact,
     Tcp!Dirs, TcpP!Dirs, Tcp!Selecting, TcpP!Selecting
<1>5. TcpP!Spec => []TcpP!CountsAreExact
  BY TcpConstants, TcpP!TotalsAreExact, SMTT(30)
<1>. QED BY <1>1, <1>2, <1>3, <1>4, <1>5, PTL DEF Spec, TcpP!Spec

(* RepliesMatch: no reply of a UDP association goes to a peer that did not  *)
(* send the datagram it answers.                                            *)
THEOREM RepliesFindTheirPeer == Spec => []RepliesMatch
<1>1. Init => AssocInv
  BY AssocInductive, Zenon DEF Init
<1>2. AssocInv /\ [Next]_vars => AssocInv'
  BY StepsOfLoops, AssocInductive, Zenon
<1>3. AssocInv => RepliesMatch
  BY AssocInductive, Zenon DEF RepliesMatch
<1>. QED BY <1>1, <1>2, <1>3, PTL DEF Spec

(* IdleOnlyWhenIdle: the idle timeout ends no TCP session with traffic.     *)
THEOREM SessionsIdleOut == Spec => IdleOnlyWhenIdle
<1>1. Init => TcpP!Init
  BY SameRelay, Zenon DEF Init
<1>2. [Next]_vars => [TcpP!Next]_(TcpP!vars)
  BY StepsOfLoops, Zenon
<1>3. TcpP!Spec => TcpP!IdleOnlyWhenIdle
  BY TcpConstants, TcpP!IdleMeansIdle, SMTT(30)
<1>4. [result' = "idle" => now - lastByte >= Idle]_(TcpP!vars)
      => [result' = "idle" => now - lastByte >= Idle]_(Tcp!vars)
  BY Zenon DEF TcpP!vars, Tcp!vars
<1>. QED BY <1>1, <1>2, <1>3, <1>4, PTL
        DEF Spec, TcpP!Spec, IdleOnlyWhenIdle, Tcp!IdleOnlyWhenIdle, TcpP!IdleOnlyWhenIdle

(* ImplementsPipes: each direction of a TCP session is a Pipe.              *)
THEOREM SessionsArePipes == Spec => ImplementsPipes
<1>1. Init => TcpP!Init
  BY SameRelay, Zenon DEF Init
<1>2. [Next]_vars => [TcpP!Next]_(TcpP!vars)
  BY StepsOfLoops, Zenon
<1>3. TcpP!Spec => TcpP!ImplementsPipes
  BY TcpConstants, TcpP!RelayImplementsPipes, SMTT(30)
<1>4. /\ TcpP!AToB!PipeInit => Tcp!AToB!PipeInit
      /\ [TcpP!AToB!PipeNext]_(TcpP!AToB!pipeVars) => [Tcp!AToB!PipeNext]_(Tcp!AToB!pipeVars)
  BY Zenon DEF Tcp!AToB!PipeInit, Tcp!AToB!PipeNext, Tcp!AToB!pipeVars, Tcp!AToB!Send,
               Tcp!AToB!End, Tcp!AToB!Deliver, Tcp!AToB!Close, Tcp!AToB!First,
               TcpP!AToB!PipeInit, TcpP!AToB!PipeNext, TcpP!AToB!pipeVars, TcpP!AToB!Send,
               TcpP!AToB!End, TcpP!AToB!Deliver, TcpP!AToB!Close, TcpP!AToB!First
<1>5. /\ TcpP!BToA!PipeInit => Tcp!BToA!PipeInit
      /\ [TcpP!BToA!PipeNext]_(TcpP!BToA!pipeVars) => [Tcp!BToA!PipeNext]_(Tcp!BToA!pipeVars)
  BY Zenon DEF Tcp!BToA!PipeInit, Tcp!BToA!PipeNext, Tcp!BToA!pipeVars, Tcp!BToA!Send,
               Tcp!BToA!End, Tcp!BToA!Deliver, Tcp!BToA!Close, Tcp!BToA!First,
               TcpP!BToA!PipeInit, TcpP!BToA!PipeNext, TcpP!BToA!pipeVars, TcpP!BToA!Send,
               TcpP!BToA!End, TcpP!BToA!Deliver, TcpP!BToA!Close, TcpP!BToA!First
<1>. QED BY <1>1, <1>2, <1>3, <1>4, <1>5, PTL
        DEF Spec, TcpP!Spec, ImplementsPipes, Tcp!ImplementsPipes, TcpP!ImplementsPipes,
            Tcp!AToB!PipeSpec, TcpP!AToB!PipeSpec, Tcp!BToA!PipeSpec, TcpP!BToA!PipeSpec
=============================================================================
