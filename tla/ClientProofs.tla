---------------------------- MODULE ClientProofs ----------------------------
(***************************************************************************)
(* What the client's side of the data path promises, each part for every   *)
(* value of its constants: the POSTs of XHTTP, the streams that are looked *)
(* into before they are relayed (the server looks into its streams in the  *)
(* same way), the DNS queries, and the datagrams of the TUN device.        *)
(***************************************************************************)
EXTENDS XhttpClient, Peek, DnsUpstream, TunFlows, TLAPS

-----------------------------------------------------------------------------
(* Sequences.                                                               *)
LEMMA Emptiness ==
  ASSUME NEW S
  PROVE  <<>> \in Seq(S) /\ Len(<<>>) = 0 /\ \A q \in Seq(S) : q # <<>> => Len(q) \in Nat \ {0}
OBVIOUS

LEMMA Appended ==
  ASSUME NEW S, NEW q \in Seq(S), NEW x \in S
  PROVE  /\ Append(q, x) \in Seq(S) /\ Append(q, x) # <<>>
         /\ Len(Append(q, x)) = Len(q) + 1 /\ Append(q, x)[Len(q) + 1] = x
         /\ \A i \in 1 .. Len(q) : Append(q, x)[i] = q[i]
OBVIOUS

LEMMA HeadAndTail ==
  ASSUME NEW S, NEW q \in Seq(S), q # <<>>
  PROVE  /\ Head(q) \in S /\ Tail(q) \in Seq(S) /\ Len(Tail(q)) = Len(q) - 1
         /\ \A i \in 1 .. Len(Tail(q)) : Tail(q)[i] = q[i + 1]
OBVIOUS

LEMMA Joined ==
  ASSUME NEW S, NEW q \in Seq(S), NEW r \in Seq(S)
  PROVE  /\ q \o r \in Seq(S) /\ Len(q \o r) = Len(q) + Len(r)
         /\ \A i \in 1 .. Len(q) + Len(r) :
              (q \o r)[i] = IF i <= Len(q) THEN q[i] ELSE r[i - Len(q)]
OBVIOUS

-----------------------------------------------------------------------------
(***************************************************************************)
(* The client's POSTs.  The payloads posted, under way and in the channel  *)
(* are kept apart, each known to begin where the one before it ends, so    *)
(* that the worker's steps move a payload and change nothing else.         *)
(***************************************************************************)
(* The last byte of payloads that follow byte e, and what it means that     *)
(* they do.                                                                 *)
EndOf(ps, e) == IF ps = <<>> THEN e ELSE ps[Len(ps)].to
Follow(ps, e) ==
  \A i \in 1 .. Len(ps) : ps[i].from = IF i = 1 THEN e + 1 ELSE ps[i - 1].to + 1

LEMMA NothingFollows == \A e : Follow(<<>>, e) /\ EndOf(<<>>, e) = e
BY DEF Follow, EndOf

LEMMA FollowAppend ==
  ASSUME NEW S, NEW ps \in Seq(S), NEW p \in S, NEW e, Follow(ps, e), p.from = EndOf(ps, e) + 1
  PROVE  Follow(Append(ps, p), e) /\ EndOf(Append(ps, p), e) = p.to
<1>. DEFINE t == Append(ps, p)
<1>1. /\ t \in Seq(S) /\ Len(t) = Len(ps) + 1 /\ t[Len(ps) + 1] = p /\ t # <<>>
      /\ \A i \in 1 .. Len(ps) : t[i] = ps[i]
  BY Appended
<1>. HIDE DEF t
<1>2. ps = <<>> => Len(ps) = 0
  OBVIOUS
<1>3. ps # <<>> => Len(ps) \in 1 .. Len(ps)
  BY Emptiness
<1>4. ASSUME NEW i \in 1 .. Len(t)
      PROVE  t[i].from = IF i = 1 THEN e + 1 ELSE t[i - 1].to + 1
  <2>1. CASE i <= Len(ps)
    BY <1>1, <2>1 DEF Follow
  <2>2. CASE i = Len(ps) + 1
    BY <1>1, <1>2, <1>3, <2>2 DEF EndOf
  <2>. QED BY <1>1, <2>1, <2>2
<1>5. Follow(t, e) /\ EndOf(t, e) = p.to
  BY <1>1, <1>4, Zenon DEF Follow, EndOf
<1>. QED BY <1>5, Zenon DEF t

LEMMA FollowTail ==
  ASSUME NEW S, NEW ps \in Seq(S), NEW e, Follow(ps, e), ps # <<>>
  PROVE  /\ Head(ps).from = e + 1 /\ Follow(Tail(ps), Head(ps).to)
         /\ EndOf(Tail(ps), Head(ps).to) = EndOf(ps, e)
<1>. DEFINE t == Tail(ps)
            h == Head(ps)
<1>1. /\ t \in Seq(S) /\ Len(t) = Len(ps) - 1 /\ Len(ps) \in Nat /\ Len(ps) > 0 /\ h = ps[1]
      /\ \A i \in 1 .. Len(t) : t[i] = ps[i + 1]
  BY HeadAndTail, Emptiness
<1>2. t = <<>> <=> Len(t) = 0
  BY <1>1, Emptiness, Zenon
<1>. HIDE DEF t, h
<1>3. h.from = e + 1
  BY <1>1 DEF Follow
<1>4. ASSUME NEW i \in 1 .. Len(t)
      PROVE  t[i].from = IF i = 1 THEN h.to + 1 ELSE t[i - 1].to + 1
  <2>1. t[i] = ps[i + 1] /\ i + 1 \in 1 .. Len(ps) /\ i + 1 # 1 /\ (i + 1) - 1 = i
    BY <1>1
  <2>2. ps[i + 1].from = ps[i].to + 1
    BY <2>1, Zenon DEF Follow
  <2>3. i # 1 => t[i - 1] = ps[i]
    BY <1>1
  <2>. QED BY <1>1, <2>1, <2>2, <2>3, Zenon
<1>5. EndOf(t, h.to) = EndOf(ps, e)
  <2>1. CASE Len(t) = 0
    <3>1. Len(ps) = 1
      BY <1>1, <2>1
    <3>. QED BY <1>1, <1>2, <2>1, <3>1 DEF EndOf
  <2>2. CASE Len(t) # 0
    <3>1. Len(t) \in 1 .. Len(t) /\ Len(t) + 1 = Len(ps)
      BY <1>1, <2>2
    <3>2. t[Len(t)] = ps[Len(ps)]
      BY <1>1, <3>1, Zenon
    <3>. QED BY <1>2, <2>2, <3>2, Zenon DEF EndOf
  <2>. QED BY <2>1, <2>2, Zenon
<1>. QED BY <1>3, <1>4, <1>5, Zenon DEF Follow, t, h

LEMMA FollowJoin ==
  ASSUME NEW S, NEW ps \in Seq(S), NEW qs \in Seq(S), NEW e, Follow(ps, e), Follow(qs, EndOf(ps, e))
  PROVE  Follow(ps \o qs, e) /\ EndOf(ps \o qs, e) = EndOf(qs, EndOf(ps, e))
<1>. DEFINE t == ps \o qs
<1>1. /\ t \in Seq(S) /\ Len(t) = Len(ps) + Len(qs) /\ Len(ps) \in Nat /\ Len(qs) \in Nat
      /\ \A i \in 1 .. Len(ps) : t[i] = ps[i]
      /\ \A i \in 1 .. Len(qs) : t[Len(ps) + i] = qs[i]
  BY Joined
<1>2. (t = <<>> <=> Len(t) = 0) /\ (ps = <<>> <=> Len(ps) = 0) /\ (qs = <<>> <=> Len(qs) = 0)
  BY <1>1, Emptiness, Zenon
<1>. HIDE DEF t
<1>3. ASSUME NEW i \in 1 .. Len(t)
      PROVE  t[i].from = IF i = 1 THEN e + 1 ELSE t[i - 1].to + 1
  <2>1. CASE i <= Len(ps)
    <3>1. i \in 1 .. Len(ps) /\ (i # 1 => i - 1 \in 1 .. Len(ps))
      BY <1>1, <2>1
    <3>2. t[i] = ps[i] /\ (i # 1 => t[i - 1] = ps[i - 1])
      BY <1>1, <3>1, Zenon
    <3>. QED BY <3>1, <3>2, Zenon DEF Follow
  <2>2. CASE i > Len(ps)
    <3>. DEFINE j == i - Len(ps)
    <3>1. j \in 1 .. Len(qs) /\ i = Len(ps) + j
      BY <1>1, <2>2
    <3>2. t[i] = qs[j]
      BY <1>1, <3>1, Zenon
    <3>. HIDE DEF j
    <3>3. CASE j = 1
      BY <1>1, <1>2, <3>1, <3>2, <3>3 DEF Follow, EndOf
    <3>4. CASE j # 1
      <4>1. j - 1 \in 1 .. Len(qs) /\ i - 1 = Len(ps) + (j - 1)
        BY <1>1, <3>1, <3>4
      <4>2. t[i - 1] = qs[j - 1]
        BY <1>1, <4>1, Zenon
      <4>. QED BY <3>1, <3>2, <3>4, <4>2 DEF Follow
    <3>. QED BY <3>3, <3>4, Zenon
  <2>. QED BY <1>1, <2>1, <2>2
<1>4. EndOf(t, e) = EndOf(qs, EndOf(ps, e))
  <2>1. CASE Len(qs) = 0
    BY <1>1, <1>2, <2>1 DEF EndOf
  <2>2. CASE Len(qs) # 0
    BY <1>1, <1>2, <2>2 DEF EndOf
  <2>. QED BY <2>1, <2>2, Zenon
<1>. QED BY <1>3, <1>4, Zenon DEF Follow, t

LEMMA FollowOne ==
  ASSUME NEW p, NEW e, p.from = e + 1
  PROVE  Follow(<<p>>, e) /\ EndOf(<<p>>, e) = p.to
BY DEF Follow, EndOf

Payload == [from : Nat, to : Nat]
Post == [from : Nat, to : Nat, seq : Nat]

XcTyped ==
  /\ buffer \in Nat /\ kept \in Nat /\ reported \in Nat /\ number \in Nat /\ kept <= buffer
  /\ channel \in Seq(Payload) /\ posting \in Seq(Post) /\ posts \in Seq(Post)

(* Who has stopped, and why.                                                *)
XcControl ==
  /\ worker \in {"none", "waiting", "posting", "ended"}
  /\ caller \in {"writing", "closed", "broken"}
  /\ tunnel = "opening" => worker = "none"
  /\ IF worker = "posting" THEN Len(posting) = 1 ELSE posting = <<>>
  /\ failed => worker = "ended"
  /\ worker = "ended" /\ ~failed => caller = "closed" /\ channel = <<>>
  /\ caller = "broken" => failed

(* Until a POST fails the payloads posted, under way and in the channel     *)
(* follow each other, and the last one ends where the writer stands.        *)
Posted == EndOf(posts, 0)
Underway == EndOf(posting, Posted)

Chain ==
  /\ Follow(posting, Posted) /\ Follow(channel, Underway)
  /\ reported = EndOf(channel, Underway)
  /\ number = Len(posts) + Len(posting)
  /\ posting # <<>> => posting[1].seq = Len(posts)

Numbers == \A i \in 1 .. Len(posts) : posts[i].seq = i - 1

XcInv ==
  /\ XcTyped /\ XcControl
  /\ Follow(posts, 0) /\ Numbers
  /\ ~failed => Chain

LEMMA PollWriteStep == ASSUME XcInv, PacketPollWrite PROVE XcInv'
<1>1. /\ UNCHANGED <<xmode, steps, tunnel, worker, posting, number, posts, failed>>
      /\ caller = "writing" /\ buffer > 0
  BY Zenon DEF PacketPollWrite, Writing
<1>2. CASE worker = "ended"
  <2>1. failed
    BY <1>1, <1>2, Zenon DEF XcInv, XcControl
  <2>2. caller' = "broken" /\ UNCHANGED <<kept, channel, reported, buffer>>
    BY <1>2, Zenon DEF PacketPollWrite
  <2>. QED BY <1>1, <1>2, <2>1, <2>2, Zenon DEF XcInv, XcTyped, XcControl, Numbers
<1>3. CASE worker # "ended"
  <2>1. ~failed /\ caller' = caller
    BY <1>3, Zenon DEF XcInv, XcControl, PacketPollWrite
  <2>2. PICK n \in Nat : /\ n > 0 /\ n <= buffer
                         /\ \/ kept' = n /\ UNCHANGED <<channel, reported, buffer>>
                            \/ /\ channel' = Append(channel, [from |-> reported + 1, to |-> reported + n])
                               /\ reported' = reported + n /\ buffer' = buffer - n /\ kept' = 0
    <3>. DEFINE n == IF kept = 0 THEN buffer ELSE kept
    <3>1. n \in Nat /\ n > 0 /\ n <= buffer
      BY <1>1 DEF XcInv, XcTyped
    <3>. QED BY <1>3, <3>1, Zenon DEF PacketPollWrite
  <2>3. CASE kept' = n /\ UNCHANGED <<channel, reported, buffer>>
    BY <1>1, <1>3, <2>1, <2>2, <2>3, Zenon
       DEF XcInv, XcTyped, XcControl, Numbers, Chain, Posted, Underway
  <2>4. CASE /\ channel' = Append(channel, [from |-> reported + 1, to |-> reported + n])
             /\ reported' = reported + n /\ buffer' = buffer - n /\ kept' = 0
    <3>. DEFINE p == [from |-> reported + 1, to |-> reported + n]
    <3>1. p \in Payload /\ p.from = reported + 1 /\ p.to = reported + n
      BY <2>2 DEF XcInv, XcTyped, Payload
    <3>. HIDE DEF p
    <3>2. channel' = Append(channel, p)
      BY <2>4, Zenon DEF p
    <3>3. Chain /\ channel \in Seq(Payload)
      BY <2>1, Zenon DEF XcInv, XcTyped
    <3>4. Follow(channel', Underway) /\ EndOf(channel', Underway) = p.to
      BY <3>1, <3>2, <3>3, FollowAppend, Zenon DEF Chain
    <3>5. XcTyped'
      BY <1>1, <2>2, <2>4, <3>1, <3>2, Appended DEF XcInv, XcTyped
    <3>6. Posted' = Posted /\ Underway' = Underway
      BY <1>1, Zenon DEF Posted, Underway
    <3>7. Chain'
      BY <1>1, <2>4, <3>1, <3>3, <3>4, <3>6, Zenon DEF Chain
    <3>. QED BY <1>1, <1>3, <2>1, <3>5, <3>7, Zenon DEF XcInv, XcControl, Numbers
  <2>. QED BY <2>2, <2>3, <2>4, Zenon
<1>. QED BY <1>2, <1>3, Zenon

LEMMA WorkerTakesStep == ASSUME XcInv, WorkerTakes PROVE XcInv'
<1>. DEFINE h == Head(channel)
            p == [from |-> h.from, to |-> h.to, seq |-> number]
<1>1. /\ worker = "waiting" /\ channel # <<>> /\ posting = <<>> /\ ~failed /\ Chain
      /\ channel \in Seq(Payload)
  BY Zenon DEF WorkerTakes, XcInv, XcTyped, XcControl
<1>2. /\ posting' = <<p>> /\ channel' = Tail(channel) /\ number' = number + 1 /\ worker' = "posting"
      /\ UNCHANGED <<xmode, steps, tunnel, caller, buffer, kept, reported, posts, failed>>
  BY Zenon DEF WorkerTakes
<1>3. h \in Payload /\ Tail(channel) \in Seq(Payload)
  BY <1>1, HeadAndTail, Zenon
<1>4. Underway = Posted /\ Follow(channel, Posted) /\ number = Len(posts)
  BY <1>1 DEF Underway, Chain, EndOf
<1>5. /\ h.from = Posted + 1 /\ Follow(Tail(channel), h.to)
      /\ EndOf(Tail(channel), h.to) = EndOf(channel, Posted)
  BY <1>1, <1>4, FollowTail, Zenon
<1>. HIDE DEF h
<1>6. p \in Post /\ p.from = Posted + 1 /\ p.to = h.to /\ p.seq = Len(posts)
  BY <1>3, <1>4, <1>5, Zenon DEF Payload, Post, XcInv, XcTyped
<1>. HIDE DEF p
<1>7. Follow(<<p>>, Posted) /\ EndOf(<<p>>, Posted) = h.to
  BY <1>6, FollowOne, Zenon
<1>8. Posted' = Posted /\ Underway' = h.to
  BY <1>2, <1>7, Zenon DEF Posted, Underway
<1>9. Len(posting') = 1 /\ posting' \in Seq(Post) /\ posting'[1] = p
  BY <1>2, <1>6
<1>10. Chain'
  BY <1>1, <1>2, <1>4, <1>5, <1>6, <1>7, <1>8, <1>9, Zenon DEF Chain, XcInv, XcTyped
<1>11. XcTyped'
  BY <1>2, <1>3, <1>9 DEF XcInv, XcTyped
<1>. QED BY <1>1, <1>2, <1>9, <1>10, <1>11, Zenon DEF XcInv, XcControl, Numbers

(* The POST that is under way follows those before it, in place and number. *)
LEMMA PostFits ==
  ASSUME XcInv, worker = "posting"
  PROVE  /\ ~failed /\ posts \o posting \in Seq(Post)
         /\ Len(posts \o posting) = number
         /\ Follow(posts \o posting, 0) /\ EndOf(posts \o posting, 0) = Underway
         /\ \A i \in 1 .. Len(posts \o posting) : (posts \o posting)[i].seq = i - 1
<1>. DEFINE t == posts \o posting
<1>1. /\ ~failed /\ Chain /\ Len(posting) = 1 /\ posting # <<>>
      /\ posts \in Seq(Post) /\ posting \in Seq(Post)
  <2>1. /\ ~failed /\ Chain /\ Len(posting) = 1
        /\ posts \in Seq(Post) /\ posting \in Seq(Post)
    BY Zenon DEF XcInv, XcTyped, XcControl
  <2>2. ASSUME posting = <<>> PROVE Len(posting) # 1
    BY <2>2
  <2>. QED BY <2>1, <2>2, Zenon
<1>2. /\ t \in Seq(Post) /\ Len(t) = Len(posts) + 1 /\ Len(posts) \in Nat
      /\ \A i \in 1 .. Len(posts) : t[i] = posts[i]
      /\ t[Len(posts) + 1] = posting[1]
  <2>1. /\ t \in Seq(Post) /\ Len(t) = Len(posts) + Len(posting)
        /\ \A i \in 1 .. Len(posts) + Len(posting) :
             t[i] = IF i <= Len(posts) THEN posts[i] ELSE posting[i - Len(posts)]
    BY <1>1, Joined, Zenon
  <2>2. (Len(posts) + 1) - Len(posts) = 1 /\ Len(posts) \in Nat
    BY <1>1
  <2>. HIDE DEF t
  <2>. QED BY <1>1, <2>1, <2>2
<1>3. Follow(t, 0) /\ EndOf(t, 0) = Underway
  BY <1>1, FollowJoin DEF XcInv, Chain, Posted, Underway
<1>. HIDE DEF t
<1>4. ASSUME NEW i \in 1 .. Len(t) PROVE t[i].seq = i - 1
  <2>1. CASE i \in 1 .. Len(posts)
    BY <1>2, <2>1, Zenon DEF XcInv, Numbers
  <2>2. CASE i = Len(posts) + 1
    BY <1>1, <1>2, <2>2 DEF Chain
  <2>. QED BY <1>2, <2>1, <2>2
<1>5. Len(t) = number
  BY <1>1, <1>2, Zenon DEF Chain
<1>. QED BY <1>1, <1>2, <1>3, <1>4, <1>5, Zenon DEF t

LEMMA WorkerPostedStep == ASSUME XcInv, WorkerPosted PROVE XcInv'
<1>. DEFINE t == posts \o posting
<1>1. /\ ~failed /\ t \in Seq(Post) /\ Len(t) = number
      /\ Follow(t, 0) /\ EndOf(t, 0) = Underway
      /\ \A i \in 1 .. Len(t) : t[i].seq = i - 1
  BY PostFits, Zenon DEF WorkerPosted
<1>. HIDE DEF t
<1>2. /\ worker = "posting" /\ posting' = <<>>
      /\ \/ posts' = t /\ worker' = "waiting" /\ UNCHANGED <<failed, channel>>
         \/ posts' \in {posts, t} /\ worker' = "ended" /\ failed' = TRUE /\ channel' = <<>>
      /\ UNCHANGED <<xmode, steps, tunnel, caller, buffer, kept, reported, number>>
  BY Zenon DEF WorkerPosted, t
<1>3. XcTyped'
  <2>1. posts' \in Seq(Post) /\ posting' \in Seq(Post) /\ channel' \in Seq(Payload)
    <3>1. \A T : <<>> \in Seq(T)
      OBVIOUS
    <3>. QED BY <1>1, <1>2, <3>1, Zenon DEF XcInv, XcTyped
  <2>. QED BY <1>2, <2>1, Zenon DEF XcInv, XcTyped
<1>4. XcControl'
  BY <1>1, <1>2 DEF XcInv, XcControl
<1>5. Follow(posts', 0) /\ Numbers'
  BY <1>1, <1>2, Zenon DEF XcInv, Numbers
<1>6. ASSUME ~failed' PROVE Chain'
  <2>1. posts' = t /\ channel' = channel
    BY <1>2, <1>6, Zenon
  <2>2. Posted' = Underway /\ Underway' = Underway
    BY <1>1, <1>2, <2>1, NothingFollows, Zenon DEF Posted, Underway
  <2>3. Chain
    BY <1>1, Zenon DEF XcInv
  <2>4. Len(posting') = 0 /\ Follow(posting', Underway) /\ posting' = <<>>
    BY <1>2, NothingFollows, Zenon
  <2>5. number' = Len(posts') + Len(posting')
    BY <1>1, <1>2, <2>1, <2>4 DEF XcInv, XcTyped
  <2>. QED BY <1>2, <2>1, <2>2, <2>3, <2>4, <2>5, Zenon DEF Chain
<1>. QED BY <1>3, <1>4, <1>5, <1>6, Zenon DEF XcInv

LEMMA XcInductive ==
  /\ XcInit => XcInv
  /\ XcInv /\ [XcNext]_xcVars => XcInv'
<1>1. ASSUME XcInit PROVE XcInv
  <2>1. XcTyped /\ XcControl
    BY <1>1 DEF XcInit, XcTyped, XcControl
  <2>2. Posted = 0 /\ Underway = 0
    BY <1>1, NothingFollows, Zenon DEF XcInit, Posted, Underway
  <2>3. Follow(posts, 0) /\ Numbers /\ Chain
    BY <1>1, <2>2, NothingFollows DEF XcInit, Numbers, Chain
  <2>. QED BY <2>1, <2>3, Zenon DEF XcInv
<1>2. ASSUME XcInv, [XcNext]_xcVars PROVE XcInv'
  <2>1. ASSUME UNCHANGED <<reported, channel, posting, number, posts, failed>>, XcTyped', XcControl'
        PROVE  XcInv'
    BY <1>2, <2>1, Zenon DEF XcInv, Numbers, Chain, Posted, Underway
  <2>2. CASE ConnectStep
    BY <1>2, <2>1, <2>2, Zenon DEF ConnectStep, XcInv, XcTyped, XcControl
  <2>3. CASE TopUp
    BY <1>2, <2>1, <2>3 DEF TopUp, XcInv, XcTyped, XcControl
  <2>4. CASE DropWriter
    BY <1>2, <2>1, <2>4, Zenon DEF DropWriter, Writing, XcInv, XcTyped, XcControl
  <2>5. CASE WorkerEnds
    <3>1. caller # "broken"
      BY <1>2, <2>5, Zenon DEF WorkerEnds, XcInv, XcControl
    <3>2. caller = "closed" /\ channel = <<>>
      BY <2>5, <3>1, <1>2, Zenon DEF WorkerEnds, XcInv, XcControl
    <3>. QED BY <1>2, <2>1, <2>5, <3>2, Zenon DEF WorkerEnds, XcInv, XcTyped, XcControl
  <2>6. CASE UNCHANGED xcVars
    BY <1>2, <2>1, <2>6, Zenon DEF xcVars, XcInv, XcTyped, XcControl
  <2>. QED BY <1>2, <2>2, <2>3, <2>4, <2>5, <2>6, PollWriteStep, WorkerTakesStep,
             WorkerPostedStep, Zenon
           DEF XcNext
<1>. QED BY <1>1, <1>2, Zenon

(* PostsCarryTheWrites of PacketUpWriter and its worker (xhttp/client.rs),  *)
(* for every size of the channel and however much is written.               *)
THEOREM PostsCarryWrites == XcSpec => []PostsCarryTheWrites
<1>1. ASSUME XcInv PROVE PostsCarryTheWrites
  <2>. DEFINE S == Payload \cup Post
              all == posts \o posting \o channel
  <2>1. /\ Contiguous(posts)
        /\ \A i \in DOMAIN posts : posts[i].seq = i - 1
    <3>1. DOMAIN posts = 1 .. Len(posts)
      BY <1>1 DEF XcInv, XcTyped
    <3>. QED BY <1>1, <3>1 DEF XcInv, Follow, Numbers, Contiguous
  <2>2. ASSUME ~failed
        PROVE  Contiguous(all) /\ reported = (IF all = <<>> THEN 0 ELSE all[Len(all)].to)
    <3>1. Chain /\ Follow(posts, 0)
      BY <1>1, <2>2, Zenon DEF XcInv
    <3>. HIDE DEF S
    <3>2. posts \in Seq(S) /\ posting \in Seq(S) /\ channel \in Seq(S)
      <4>1. ASSUME NEW T, NEW U, T \subseteq U, NEW q \in Seq(T) PROVE q \in Seq(U)
        BY <4>1
      <4>2. Payload \subseteq S /\ Post \subseteq S
        BY Zenon DEF S
      <4>. QED BY <1>1, <4>1, <4>2, Zenon DEF XcInv, XcTyped
    <3>3. /\ posts \o posting \in Seq(S)
          /\ Follow(posts \o posting, 0) /\ EndOf(posts \o posting, 0) = Underway
      <4>1. posts \o posting \in Seq(S)
        BY <3>2, Joined, Zenon
      <4>2. Follow(posts, 0) /\ Follow(posting, EndOf(posts, 0))
        BY <3>1, Zenon DEF Chain, Posted
      <4>. QED BY <3>2, <4>1, <4>2, FollowJoin DEF Posted, Underway
    <3>4. all \in Seq(S) /\ Follow(all, 0) /\ EndOf(all, 0) = reported
      <4>. DEFINE up == posts \o posting
      <4>1. up \in Seq(S) /\ Follow(up, 0) /\ EndOf(up, 0) = Underway /\ all = up \o channel
        BY <3>3, Zenon
      <4>. HIDE DEF up, all
      <4>2. Follow(channel, EndOf(up, 0)) /\ reported = EndOf(channel, EndOf(up, 0))
        BY <3>1, <4>1, Zenon DEF Chain
      <4>3. up \o channel \in Seq(S)
        BY <3>2, <4>1, Joined, Zenon
      <4>. QED BY <3>2, <4>1, <4>2, <4>3, FollowJoin
    <3>. HIDE DEF all
    <3>5. DOMAIN all = 1 .. Len(all)
      BY <3>4
    <3>. QED BY <3>4, <3>5 DEF Follow, EndOf, Contiguous
  <2>3. /\ caller = "broken" => failed
        /\ worker = "ended" /\ ~failed => Len(posts) = number /\ caller = "closed"
    BY <1>1 DEF XcInv, XcTyped, XcControl, Chain
  <2>. QED BY <2>1, <2>2, <2>3, Zenon DEF PostsCarryTheWrites
<1>. QED BY <1>1, XcInductive, PTL DEF XcSpec

-----------------------------------------------------------------------------
(***************************************************************************)
(* The look at the first bytes.  The consumer has got the bytes from the   *)
(* first on, and the prefix is what comes next, up to where the stream was *)
(* read.                                                                   *)
(***************************************************************************)
(* s holds the positions that follow k.                                     *)
CountsFrom(s, k) == s = [i \in 1 .. Len(s) |-> k + i]

LEMMA CountOn ==
  ASSUME NEW k \in Nat, NEW s \in Seq(Nat), CountsFrom(s, k)
  PROVE  CountsFrom(Append(s, k + Len(s) + 1), k)
<1>. DEFINE n == k + Len(s) + 1
            t == Append(s, n)
<1>1. t \in Seq(Nat) /\ Len(t) = Len(s) + 1
  BY Appended
<1>2. \A i \in 1 .. Len(t) : t[i] = k + i
  <2>1. ASSUME NEW i \in 1 .. Len(s) PROVE t[i] = k + i
    <3>1. s[i] = k + i
      BY Zenon DEF CountsFrom
    <3>. QED BY <3>1, Appended
  <2>2. t[Len(s) + 1] = k + (Len(s) + 1)
    BY Appended
  <2>. HIDE DEF t
  <2>3. ASSUME NEW i \in 1 .. Len(t), i \notin 1 .. Len(s) PROVE i = Len(s) + 1
    BY <1>1, <2>3
  <2>. QED BY <2>1, <2>2, <2>3, Zenon
<1>3. t = [i \in 1 .. Len(t) |-> t[i]]
  BY <1>1
<1>. HIDE DEF t
<1>4. CountsFrom(t, k)
  BY <1>2, <1>3, Zenon DEF CountsFrom
<1>. QED BY <1>4, Zenon DEF t

LEMMA CountOff ==
  ASSUME NEW k \in Nat, NEW s \in Seq(Nat), CountsFrom(s, k), s # <<>>
  PROVE  Head(s) = k + 1 /\ CountsFrom(Tail(s), k + 1)
<1>. DEFINE t == Tail(s)
<1>1. t \in Seq(Nat) /\ Len(t) = Len(s) - 1 /\ Len(s) > 0 /\ Head(s) = s[1]
  BY HeadAndTail, Emptiness
<1>2. \A i \in 1 .. Len(s) : s[i] = k + i
  BY Zenon DEF CountsFrom
<1>3. ASSUME NEW i \in 1 .. Len(t) PROVE t[i] = k + 1 + i
  <2>1. t[i] = s[i + 1] /\ i + 1 \in 1 .. Len(s)
    BY <1>1, HeadAndTail
  <2>. QED BY <1>2, <2>1
<1>. HIDE DEF t
<1>4. t = [i \in 1 .. Len(t) |-> t[i]]
  BY <1>1
<1>5. CountsFrom(t, k + 1)
  BY <1>3, <1>4, Zenon DEF CountsFrom
<1>. QED BY <1>1, <1>2, <1>5 DEF t

(* Bytes the consumer cannot get any more.                                  *)
Lost == IF st = "unpeeked" THEN ahead ELSE 0

PeekInv ==
  /\ who \in {"tun", "reality"} /\ stream \in Streams
  /\ ahead \in Nat /\ pos \in Nat /\ prefix \in Seq(Nat) /\ out \in Seq(Nat)
  /\ st \in {"new", "peek", "relay", "unpeeked", "tls", "fallback", "closed"}
  /\ who = "reality" => ~dns.hijack
  /\ st \in {"tls", "fallback"} => who = "reality"
  /\ st \in {"new", "peek", "unpeeked"} => prefix = <<>>
  /\ st \in {"new", "peek", "closed"} => out = <<>>
  /\ st \in {"new", "peek"} => pos = ahead
  /\ st = "new" => pos = 0
  /\ st \in {"relay", "unpeeked", "tls", "fallback"} => pos = Lost + Len(out) + Len(prefix)
  /\ CountsFrom(out, Lost)
  /\ st \in {"relay", "tls", "fallback"} => CountsFrom(prefix, Len(out))
  /\ st = "relay" /\ needs_doh_sni_inspection /\ stream.tls /\ stream.name = "doh" =>
       stream.total < stream.record \/ stream.record > Cap

LEMMA CountsNothing == \A k \in Nat : CountsFrom(<<>>, k)
BY DEF CountsFrom

LEMMA PeekDoneStep == ASSUME PeekInv, PeekDone PROVE PeekInv'
<1>. USE PeekAssumption, CountsNothing
<1>. DEFINE p == [i \in 1 .. ahead |-> i]
<1>1. p \in Seq(Nat) /\ Len(p) = ahead
  BY DEF PeekInv
<1>2. CountsFrom(p, 0)
  BY <1>1 DEF CountsFrom, PeekInv
<1>. HIDE DEF p
<1>3. /\ prefix' = p /\ out = <<>> /\ pos = ahead
      /\ UNCHANGED <<who, dest, dns, stream, ahead, pos, out>>
  BY Zenon DEF PeekDone, Decide, p, PeekInv, Lost
<1>4. /\ st' \in {"closed", "relay"} \/ (st' \in {"tls", "fallback"} /\ who = "reality")
      /\ st' = "relay" => who = "tun"
      /\ st' = "relay" /\ stream.tls /\ stream.name = "doh" => ahead < stream.record
  BY DEF PeekDone, Decide, PeekInv
<1>5. ahead < stream.record /\ stream.tls => stream.total < stream.record \/ stream.record > Cap
  BY <1>3 DEF PeekDone, PeekInv, WantsMore, Needed
<1>6. st' # "unpeeked" /\ CountsFrom(out', 0)
  BY <1>3, <1>4, Zenon
<1>7. st' \in {"relay", "tls", "fallback"} => CountsFrom(prefix', Len(out'))
  BY <1>2, <1>3, Zenon
<1>8. st' # "closed" => pos' = Len(out') + Len(prefix')
  BY <1>1, <1>3
<1>9. (st' = "relay" /\ stream'.tls /\ stream'.name = "doh") =>
        stream'.total < stream'.record \/ stream'.record > Cap
  BY <1>3, <1>4, <1>5, Zenon
<1>. QED BY <1>1, <1>3, <1>4, <1>6, <1>7, <1>8, <1>9 DEF PeekInv, Lost

LEMMA DeliverStep == ASSUME PeekInv, Deliver PROVE PeekInv'
<1>. USE PeekAssumption
<1>. Lost \in Nat
  BY Zenon DEF PeekInv, Lost
<1>1. CASE prefix # <<>>
  <2>1. Head(prefix) = Len(out) + 1 /\ CountsFrom(Tail(prefix), Len(out) + 1) /\ st # "unpeeked"
    BY <1>1, CountOff DEF PeekInv, Deliver
  <2>2. CountsFrom(Append(out, Len(out) + 1), 0)
    BY <2>1, CountOn DEF PeekInv, Lost
  <2>3. /\ out' = Append(out, Len(out) + 1) /\ prefix' = Tail(prefix)
        /\ UNCHANGED <<who, dest, dns, stream, st, ahead, pos>>
    BY <1>1, <2>1, Zenon DEF Deliver
  <2>4. Tail(prefix) \in Seq(Nat) /\ Len(Tail(prefix)) = Len(prefix) - 1
    BY <1>1, HeadAndTail, Emptiness, Zenon DEF PeekInv
  <2>5. out' \in Seq(Nat) /\ Len(out') = Len(out) + 1
    BY <2>3, Appended DEF PeekInv
  <2>6. CountsFrom(prefix', Len(out')) /\ CountsFrom(out', 0)
    BY <2>1, <2>2, <2>3, <2>5, Zenon
  <2>7. pos' = Len(out') + Len(prefix')
    <3>1. pos = Len(out) + Len(prefix) /\ Len(out) \in Nat /\ Len(prefix) \in Nat
      BY <2>1 DEF PeekInv, Lost, Deliver
    <3>. QED BY <2>3, <2>4, <2>5, <3>1
  <2>. QED BY <2>1, <2>3, <2>4, <2>5, <2>6, <2>7 DEF PeekInv, Lost,
             needs_doh_sni_inspection, Deliver
<1>2. CASE prefix = <<>>
  <2>1. /\ out' = Append(out, Lost + Len(out) + 1) /\ pos' = pos + 1
        /\ UNCHANGED <<who, dest, dns, stream, st, ahead, prefix>>
    <3>1. Len(prefix) = 0 /\ pos = Lost + Len(out) /\ pos \in Nat
      BY <1>2 DEF Deliver, PeekInv
    <3>. QED BY <1>2, <3>1, Zenon DEF Deliver
  <2>2. CountsFrom(out', Lost)
    BY <2>1, CountOn, Zenon DEF PeekInv
  <2>3. out' \in Seq(Nat) /\ Len(out') = Len(out) + 1
    BY <2>1, Appended DEF PeekInv
  <2>4. CountsFrom(prefix', Len(out'))
    BY <1>2, <2>1, <2>3, CountsNothing
  <2>. QED BY <1>2, <2>1, <2>2, <2>3, <2>4 DEF PeekInv, Lost, needs_doh_sni_inspection,
             Deliver
<1>. QED BY <1>1, <1>2, Zenon

LEMMA PeekInductive ==
  /\ PeekInit => PeekInv
  /\ PeekInv /\ [PeekNext]_peekVars => PeekInv'
<1>1. ASSUME PeekInit PROVE PeekInv
  <2>1. /\ who \in {"tun", "reality"} /\ stream \in Streams /\ (who = "reality" => ~dns.hijack)
        /\ st = "new" /\ ahead = 0 /\ pos = 0 /\ prefix = <<>> /\ out = <<>>
    BY <1>1, Zenon DEF PeekInit
  <2>2. Lost = 0 /\ CountsFrom(out, 0) /\ <<>> \in Seq(Nat) /\ Len(<<>>) = 0
    BY <2>1, CountsNothing DEF Lost
  <2>. QED BY <2>1, <2>2, Zenon DEF PeekInv
<1>2. ASSUME PeekInv, [PeekNext]_peekVars PROVE PeekInv'
  <2>. USE <1>2, PeekAssumption, CountsNothing DEF PeekInv, Lost, needs_doh_sni_inspection
  <2>1. CASE Classify
    <3>1. /\ st = "new" /\ st' \in {"closed", "relay", "peek"}
          /\ st' = "relay" => who = "tun" /\ ~needs_doh_sni_inspection
          /\ UNCHANGED <<who, dest, dns, stream, ahead, prefix, pos, out>>
      BY <2>1, Zenon DEF Classify
    <3>. QED BY <3>1
  <2>2. CASE PeekRead
    BY <2>2 DEF PeekRead
  <2>3. CASE PeekFails
    BY <2>3 DEF PeekFails
  <2>4. CASE OpenFails
    BY <2>4, Zenon DEF OpenFails
  <2>5. CASE UNCHANGED peekVars
    BY <2>5, Zenon DEF peekVars, CountsFrom
  <2>. QED BY <2>1, <2>2, <2>3, <2>4, <2>5, PeekDoneStep, DeliverStep, Zenon DEF PeekNext
<1>. QED BY <1>1, <1>2, Zenon

(* PeekKeepsStream of peek_tls_client_hello and BufferedPrefixStream, for   *)
(* every stream, size of a read and limit.                                  *)
THEOREM PeekedStreamsAreWhole == PeekSpec => []PeekKeepsStream
<1>1. ASSUME PeekInv PROVE PeekKeepsStream
  <2>1. out = [i \in 1 .. Len(out) |-> IF st = "unpeeked" THEN ahead + i ELSE i]
    BY <1>1 DEF PeekInv, Lost, CountsFrom
  <2>. QED BY <1>1, <2>1, Zenon DEF PeekInv, PeekKeepsStream, needs_doh_sni_inspection
<1>. QED BY <1>1, PeekInductive, PTL DEF PeekSpec

-----------------------------------------------------------------------------
(***************************************************************************)
(* The DNS queries.                                                        *)
(***************************************************************************)
(* Where a query is, and how much of its answer has been read there.        *)
DnsInv ==
  /\ how \in {"doh", "dot"}
  /\ answer \in Answers /\ got \in Nat
  /\ how = "dot" => answer.header = 2 /\ answer.ok /\ answer.declared >= 0
  /\ phase \in {"query", "headers", "length", "body", "answered", "failed", "aborted"}
  /\ phase \in {"query", "length"} => got = 0
  /\ phase = "headers" => how = "doh"
  /\ phase = "length" => how = "dot"
  /\ phase = "body" => answer.declared >= 0 /\ got >= answer.header
  /\ AnswersAreExact

LEMMA AnswerType ==
  ASSUME DnsInv
  PROVE  /\ answer.header \in Nat /\ answer.body \in Nat /\ answer.declared \in Int
         /\ answer.declared >= -1
BY DnsAssumption DEF DnsInv

(* A read that meets the end of the stream, a limit or neither.             *)
LEMMA DnsReads ==
  ASSUME DnsInv, ReadHeaders \/ ReadBody
  PROVE  DnsInv'
<1>. USE AnswerType, DnsAssumption
<1>1. ASSUME ReadHeaders PROVE DnsInv'
  BY <1>1 DEF DnsInv, AnswersAreExact, ReadHeaders, ReadAnswer, QueryFails, Total
<1>2. ASSUME ReadBody PROVE DnsInv'
  BY <1>2 DEF DnsInv, AnswersAreExact, ReadBody, ReadAnswer, QueryFails, Total
<1>. QED BY <1>1, <1>2, Zenon

LEMMA DnsInductive ==
  /\ DnsInit => DnsInv
  /\ DnsInv /\ [DnsNext]_dnsVars => DnsInv'
<1>1. DnsInit => DnsInv
  BY DEF DnsInit, DnsInv, AnswersAreExact
<1>2. ASSUME DnsInv, [DnsNext]_dnsVars PROVE DnsInv'
  <2>. USE <1>2, AnswerType, DnsAssumption
  <2>1. CASE doh_query \/ dot_query \/ NoUpstream
    BY <2>1 DEF DnsInv, AnswersAreExact, doh_query, dot_query, NoUpstream, QueryFails
  <2>2. CASE HeadersRead
    BY <2>2 DEF DnsInv, AnswersAreExact, HeadersRead
  <2>3. CASE BodyRead
    BY <2>3, Zenon DEF DnsInv, AnswersAreExact, BodyRead
  <2>4. CASE ReadDotLength \/ ReadDotBody
    BY <2>4 DEF DnsInv, AnswersAreExact, ReadDotLength, ReadDotBody, QueryFails
  <2>5. CASE UNCHANGED dnsVars
    BY <2>5, Zenon DEF DnsInv, AnswersAreExact, dnsVars
  <2>. QED BY <2>1, <2>2, <2>3, <2>4, <2>5, DnsReads, Zenon DEF DnsNext
<1>. QED BY <1>1, <1>2, Zenon

(* AnswersAreExact of doh_query and dot_query, for every answer and limit.  *)
THEOREM DnsAnswersAreExact == DnsSpec => []AnswersAreExact
<1>1. DnsInv => AnswersAreExact
  BY Zenon DEF DnsInv
<1>. QED BY <1>1, DnsInductive, PTL DEF DnsSpec

-----------------------------------------------------------------------------
(***************************************************************************)
(* The datagrams of the TUN device.  That replies keep their flow rests on *)
(* what the flows hold: a datagram is only ever in the queues of the flow  *)
(* to its own target.  The order of what is written rests on the queue of  *)
(* a flow being in order, and after all that was written to its target,    *)
(* by this flow or by those before it.  That an ended flow costs one       *)
(* datagram rests on its entry being gone once a datagram has met it.      *)
(***************************************************************************)
FlowType ==
  [st : {"none", "opening", "open", "ended"}, first : Nat, inbox : Seq(Nat), down : Seq(Nat),
   half : BOOLEAN, askew : BOOLEAN]

AskedType == [remote : Remotes, size : Sizes]
SentType == [id : Nat, to : Targets, flow : Nat]
ReplyType == [id : Nat, whole : BOOLEAN, from : Targets]

TunTypeOK ==
  /\ asked \in Seq(AskedType)
  /\ flow \in [Targets -> FlowType] /\ table \subseteq Targets
  /\ sent \in Seq(SentType)
  /\ replies \in Seq(ReplyType)
  /\ missed \subseteq Nat \X Nat
  /\ mtu \in Nat /\ MIN_TUN_MTU <= mtu /\ mtu <= Configured

(* Datagram id was sent to t, or to an address the DNS handler changes to t. *)
BoundFor(id, t) == id \in DOMAIN asked /\ rewrite_udp_upstream(asked[id].remote) = t

QueriesOK == queries \subseteq DOMAIN asked /\ (queries # {} => mode = "doh")

FlowOK(t, f) ==
  /\ f.st # "none" => BoundFor(f.first, t)
  /\ \A i \in DOMAIN f.down : BoundFor(f.down[i], t)
  /\ \A i \in DOMAIN f.inbox : BoundFor(f.inbox[i], t)
  /\ \A i, j \in DOMAIN f.inbox : i < j => f.inbox[i] < f.inbox[j]
  /\ \A k \in DOMAIN sent : sent[k].to = t => \A i \in DOMAIN f.inbox : sent[k].id < f.inbox[i]

FlowsOK == \A t \in Targets : FlowOK(t, flow[t])

SentOK ==
  /\ \A k \in DOMAIN sent :
       /\ BoundFor(sent[k].id, sent[k].to) /\ BoundFor(sent[k].flow, sent[k].to)
       /\ asked[sent[k].id].size <= max_udp_payload_ipv4(Configured)
  /\ \A i, j \in DOMAIN sent : i < j /\ sent[i].to = sent[j].to => sent[i].id < sent[j].id

RightAnswer(id, from) ==
  /\ id \in DOMAIN asked
  /\ from = IF mode = "doh" THEN asked[id].remote ELSE rewrite_udp_upstream(asked[id].remote)

RepliesOK == \A i \in DOMAIN replies : RightAnswer(replies[i].id, replies[i].from)

MissedOK ==
  /\ \A t \in table : flow[t].st # "none"
  /\ \A m \in missed : m[1] \in DOMAIN asked /\ \A t \in table : flow[t].first # m[1]
  /\ \A m, n \in missed : m[1] = n[1] => m = n

TunInv == TunTypeOK /\ QueriesOK /\ FlowsOK /\ SentOK /\ RepliesOK /\ MissedOK

(* The arithmetic of the MTU.                                               *)
LEMMA LesserGreater ==
  ASSUME NEW a \in Int, NEW b \in Int
  PROVE  /\ Min({a, b}) = IF a <= b THEN a ELSE b
         /\ Max({a, b}) = IF a >= b THEN a ELSE b
<1>1. \E x \in {a, b} : \A y \in {a, b} : x <= y
  OBVIOUS
<1>2. Min({a, b}) \in {a, b} /\ \A y \in {a, b} : Min({a, b}) <= y
  BY <1>1, Zenon DEF Min
<1>3. \E x \in {a, b} : \A y \in {a, b} : x >= y
  OBVIOUS
<1>4. Max({a, b}) \in {a, b} /\ \A y \in {a, b} : Max({a, b}) >= y
  BY <1>3, Zenon DEF Max
<1>. QED BY <1>2, <1>4

LEMMA EffectiveMtu ==
  ASSUME NEW pmtud, NEW path \in Int
  PROVE  LET m == resolve_effective_mtu(pmtud, path)
         IN  m \in Nat /\ MIN_TUN_MTU <= m /\ m <= Configured
<1>. DEFINE probed == probe_path_mtu_linux(path) - Overhead
<1>1. probed \in Int /\ Configured \in Int /\ Configured >= 576
  BY TunAssumption DEF probe_path_mtu_linux, MIN_TUN_MTU
<1>. HIDE DEF probed
<1>2. Max({probed, MIN_TUN_MTU}) \in Int /\ Max({probed, MIN_TUN_MTU}) >= 576
  <2>1. MIN_TUN_MTU \in Int
    BY DEF MIN_TUN_MTU
  <2>2. Max({probed, MIN_TUN_MTU}) = IF probed >= MIN_TUN_MTU THEN probed ELSE MIN_TUN_MTU
    BY <1>1, <2>1, LesserGreater, Zenon
  <2>. QED BY <1>1, <2>2 DEF MIN_TUN_MTU
<1>3. /\ Min({Configured, RECOMMENDED_TUN_MTU}) \in 576 .. Configured
      /\ Min({Configured, Max({probed, MIN_TUN_MTU})}) \in 576 .. Configured
  BY <1>1, <1>2, LesserGreater DEF RECOMMENDED_TUN_MTU
<1>4. resolve_effective_mtu(pmtud, path) \in
        {Configured, Min({Configured, RECOMMENDED_TUN_MTU}),
         Min({Configured, Max({probed, MIN_TUN_MTU})})}
  BY Zenon DEF resolve_effective_mtu, probed
<1>. QED BY <1>1, <1>3, <1>4 DEF MIN_TUN_MTU

LEMMA PayloadGrows ==
  ASSUME NEW m \in Nat, NEW n \in Nat, m <= n
  PROVE  /\ max_udp_payload_ipv4(m) \in Int /\ max_udp_payload_ipv4(n) \in Int
         /\ max_udp_payload_ipv4(m) <= max_udp_payload_ipv4(n)
<1>. DEFINE a == m - (IPV4_HEADER_LEN + UDP_HEADER_LEN)
            b == n - (IPV4_HEADER_LEN + UDP_HEADER_LEN)
<1>1. a \in Int /\ b \in Int /\ a <= b
  BY DEF IPV4_HEADER_LEN, UDP_HEADER_LEN
<1>. HIDE DEF a, b
<1>2. Max({a, 1}) \in Int /\ Max({b, 1}) \in Int /\ Max({a, 1}) <= Max({b, 1})
  <2>1. 1 \in Int
    OBVIOUS
  <2>2. /\ Max({a, 1}) = IF a >= 1 THEN a ELSE 1
        /\ Max({b, 1}) = IF b >= 1 THEN b ELSE 1
    BY <1>1, <2>1, LesserGreater, Zenon
  <2>. QED BY <1>1, <2>2
<1>. QED BY <1>2, Zenon DEF max_udp_payload_ipv4, a, b

LEMMA NoFlowYet ==
  /\ NoFlow \in FlowType /\ NoFlow.st = "none" /\ NoFlow.first = 0
  /\ NoFlow.inbox = <<>> /\ NoFlow.down = <<>>
BY DEF NoFlow, FlowType

LEMMA TunInitially == TunInit => TunInv
<1>. SUFFICES ASSUME TunInit PROVE TunInv
  OBVIOUS
<1>1. /\ asked = <<>> /\ table = {} /\ flow = [t \in Targets |-> NoFlow] /\ queries = {}
      /\ sent = <<>> /\ replies = <<>> /\ missed = {}
  BY Zenon DEF TunInit
<1>2. /\ NoFlow \in FlowType
      /\ NoFlow.st = "none" /\ DOMAIN NoFlow.inbox = {} /\ DOMAIN NoFlow.down = {}
  BY NoFlowYet
<1>3. mtu \in Nat /\ MIN_TUN_MTU <= mtu /\ mtu <= Configured
  BY EffectiveMtu, TunAssumption DEF TunInit
<1>4. TunTypeOK
  BY <1>1, <1>2, <1>3 DEF TunTypeOK
<1>5. FlowsOK
  BY <1>1, <1>2, Zenon DEF FlowsOK, FlowOK
<1>6. SentOK /\ RepliesOK
  BY <1>1 DEF SentOK, RepliesOK
<1>. QED BY <1>1, <1>4, <1>5, <1>6, Zenon DEF TunInv, QueriesOK, MissedOK

(* What was sent to a target stays sent to it: datagrams are only added.    *)
Grows == mode' = mode /\ \A id \in DOMAIN asked : id \in DOMAIN asked' /\ asked'[id] = asked[id]

LEMMA BoundStays ==
  ASSUME Grows, NEW id, NEW t, BoundFor(id, t)
  PROVE  BoundFor(id, t)'
BY Zenon DEF Grows, BoundFor, rewrite_udp_upstream

LEMMA FlowStays ==
  ASSUME TunInv, Grows, NEW t \in Targets, flow'[t] = flow[t], sent' = sent
  PROVE  FlowOK(t, flow[t])'
<1>1. FlowOK(t, flow[t])
  BY Zenon DEF TunInv, FlowsOK
<1>. QED BY <1>1, BoundStays, Zenon DEF FlowOK

LEMMA SentStays ==
  ASSUME TunInv, Grows, sent' = sent
  PROVE  SentOK'
<1>1. ASSUME NEW k \in DOMAIN sent
      PROVE  /\ BoundFor(sent[k].id, sent[k].to)' /\ BoundFor(sent[k].flow, sent[k].to)'
             /\ asked'[sent[k].id] = asked[sent[k].id]
             /\ asked[sent[k].id].size <= max_udp_payload_ipv4(Configured)
  <2>1. /\ BoundFor(sent[k].id, sent[k].to) /\ BoundFor(sent[k].flow, sent[k].to)
        /\ asked[sent[k].id].size <= max_udp_payload_ipv4(Configured)
    BY Zenon DEF TunInv, SentOK
  <2>2. asked'[sent[k].id] = asked[sent[k].id]
    BY <2>1, Zenon DEF BoundFor, Grows
  <2>3. sent'[k] = sent[k]
    OBVIOUS
  <2>. QED BY <2>1, <2>2, <2>3, BoundStays, Zenon
<1>2. \A i, j \in DOMAIN sent : i < j /\ sent[i].to = sent[j].to => sent[i].id < sent[j].id
  BY Zenon DEF TunInv, SentOK
<1>. QED BY <1>1, <1>2, Zenon DEF SentOK

LEMMA AnswerStays ==
  ASSUME Grows, NEW id, NEW from, RightAnswer(id, from)
  PROVE  RightAnswer(id, from)'
BY Zenon DEF Grows, RightAnswer, rewrite_udp_upstream

LEMMA RepliesStay ==
  ASSUME TunInv, Grows, replies' = replies
  PROVE  RepliesOK'
BY AnswerStays, Zenon DEF TunInv, RepliesOK

LEMMA AnswersFlow ==
  ASSUME NEW id, NEW t, BoundFor(id, t)
  PROVE  RightAnswer(id, t)
BY Zenon DEF BoundFor, RightAnswer, rewrite_udp_upstream

(* A step that leaves asked and the handler as they are.                    *)
LEMMA Kept == (mode' = mode /\ asked' = asked) => Grows
BY Zenon DEF Grows

(* What Tail and Append do to a queue.                                      *)
LEMMA TheTail ==
  ASSUME NEW s \in Seq(Nat), s # <<>>
  PROVE  /\ Tail(s) \in Seq(Nat) /\ 1 \in DOMAIN s /\ Head(s) = s[1] /\ Head(s) \in Nat
         /\ \A i \in DOMAIN Tail(s) :
              i \in Nat /\ i + 1 \in DOMAIN s /\ 1 < i + 1 /\ Tail(s)[i] = s[i + 1]
OBVIOUS

Longer(u, s, x) ==
  /\ DOMAIN u = DOMAIN s \cup {Len(s) + 1} /\ u[Len(s) + 1] = x /\ Len(s) + 1 \in Nat
  /\ \A i \in DOMAIN s : i \in Nat /\ i < Len(s) + 1 /\ u[i] = s[i]

LEMMA OneMore ==
  ASSUME NEW S, NEW s \in Seq(S), NEW x \in S
  PROVE  Append(s, x) \in Seq(S) /\ Longer(Append(s, x), s, x)
BY DEF Longer

(* A step on one flow, in its fields.                                       *)
LEMMA OneFlow ==
  ASSUME TunInv, Grows, sent' = sent, NEW t \in Targets, NEW f \in FlowType,
         flow' = [flow EXCEPT ![t] = f], FlowOK(t, f)'
  PROVE  /\ flow' \in [Targets -> FlowType]
         /\ flow'[t] = f /\ \A u \in Targets : u # t => flow'[u] = flow[u]
         /\ FlowsOK'
<1>1. /\ flow' \in [Targets -> FlowType] /\ flow'[t] = f
      /\ \A u \in Targets : u # t => flow'[u] = flow[u]
  BY Zenon DEF TunInv, TunTypeOK
<1>2. ASSUME NEW u \in Targets PROVE FlowOK(u, flow[u])'
  <2>1. CASE u = t
    BY <1>1, <2>1, Zenon
  <2>2. CASE u # t
    <3>1. flow'[u] = flow[u]
      BY <1>1, <2>2, Zenon
    <3>. QED BY <3>1, FlowStays, Zenon
  <2>. QED BY <2>1, <2>2, Zenon
<1>3. FlowsOK'
  BY <1>2, Zenon DEF FlowsOK
<1>. QED BY <1>1, <1>3, Zenon

LEMMA MissedStay ==
  ASSUME TunInv, Grows, UNCHANGED <<table, missed>>,
         \A t \in Targets : flow'[t].first = flow[t].first
                            /\ (flow[t].st # "none" => flow'[t].st # "none")
  PROVE  MissedOK'
BY DEF TunInv, TunTypeOK, MissedOK, Grows

(* A step on one flow that writes nothing to its tunnel.                    *)
LEMMA FlowStep ==
  ASSUME TunInv, UNCHANGED <<mode, mtu, asked, table, queries, sent, missed>>,
         NEW t \in Targets, NEW f \in FlowType, flow' = [flow EXCEPT ![t] = f], FlowOK(t, f)',
         f.first = flow[t].first, flow[t].st # "none" => f.st # "none",
         replies' \in Seq(ReplyType), RepliesOK'
  PROVE  TunInv'
<1>1. Grows
  BY Kept, Zenon
<1>2. /\ flow' \in [Targets -> FlowType] /\ flow'[t] = f
      /\ \A u \in Targets : u # t => flow'[u] = flow[u]
      /\ FlowsOK'
  BY <1>1, OneFlow, Zenon
<1>3. MissedOK'
  BY <1>1, <1>2, MissedStay, Zenon
<1>4. TunTypeOK' /\ QueriesOK'
  BY <1>2, Zenon DEF TunInv, TunTypeOK, QueriesOK
<1>5. SentOK'
  BY <1>1, SentStays, Zenon
<1>. QED BY <1>2, <1>3, <1>4, <1>5, Zenon DEF TunInv

(* A tunnel opens, or half of a frame is read.                              *)
LEMMA OpensStep ==
  ASSUME TunInv, NEW t \in Targets, FlowOpens(t) \/ ReadHalf(t)
  PROVE  TunInv'
<1>1. UNCHANGED <<mode, mtu, asked, table, queries, sent, replies, missed>> /\ Grows
  BY Kept, Zenon DEF FlowOpens, ReadHalf
<1>2. PICK f \in FlowType : /\ flow' = [flow EXCEPT ![t] = f]
                            /\ f.first = flow[t].first /\ f.inbox = flow[t].inbox
                            /\ f.down = flow[t].down
                            /\ f.st = flow[t].st \/ (flow[t].st = "opening" /\ f.st = "open")
  <2>1. flow[t] \in FlowType /\ flow \in [Targets -> FlowType]
    BY Zenon DEF TunInv, TunTypeOK
  <2>2. CASE FlowOpens(t)
    <3>. DEFINE f == [flow[t] EXCEPT !.st = "open"]
    <3>1. f \in FlowType /\ f.first = flow[t].first /\ f.inbox = flow[t].inbox
          /\ f.down = flow[t].down /\ f.st = "open"
      BY <2>1, Zenon DEF FlowType
    <3>2. flow' = [flow EXCEPT ![t] = f] /\ flow[t].st = "opening"
      BY <2>1, <2>2, Zenon DEF FlowOpens
    <3>. QED BY <3>1, <3>2, Zenon
  <2>3. CASE ReadHalf(t)
    <3>. DEFINE f == [flow[t] EXCEPT !.half = TRUE]
    <3>1. f \in FlowType /\ f.first = flow[t].first /\ f.inbox = flow[t].inbox
          /\ f.down = flow[t].down /\ f.st = flow[t].st
      BY <2>1, Zenon DEF FlowType
    <3>2. flow' = [flow EXCEPT ![t] = f]
      BY <2>1, <2>3, Zenon DEF ReadHalf
    <3>. QED BY <3>1, <3>2, Zenon
  <2>. QED BY <2>2, <2>3, Zenon
<1>3. FlowOK(t, f)'
  <2>1. FlowOK(t, flow[t])
    BY Zenon DEF TunInv, FlowsOK
  <2>2. flow[t].st # "none" <=> f.st # "none"
    BY <1>2, Zenon
  <2>. QED BY <1>1, <1>2, <2>1, <2>2, BoundStays, Zenon DEF FlowOK
<1>4. RepliesOK' /\ replies' \in Seq(ReplyType)
  BY <1>1, RepliesStay, Zenon DEF TunInv, TunTypeOK
<1>. QED BY <1>1, <1>2, <1>3, <1>4, FlowStep, Zenon

(* A flow ends with what it held.                                           *)
LEMMA EndsStep ==
  ASSUME TunInv, NEW t \in Targets, FlowEnds(t)
  PROVE  TunInv'
<1>1. UNCHANGED <<mode, mtu, asked, table, queries, sent, replies, missed>> /\ Grows
  BY Kept, Zenon DEF FlowEnds
<1>2. flow[t] \in FlowType /\ FlowOK(t, flow[t]) /\ flow[t].st # "none"
  BY Zenon DEF TunInv, TunTypeOK, FlowsOK, FlowEnds
<1>3. PICK f \in FlowType :
        /\ flow' = [flow EXCEPT ![t] = f]
        /\ f.st = "ended" /\ f.first = flow[t].first /\ f.inbox = <<>> /\ f.down = <<>>
  <2>. DEFINE g == [NoFlow EXCEPT !.st = "ended", !.first = flow[t].first]
  <2>1. flow[t].first \in Nat
    BY <1>2, Zenon DEF FlowType
  <2>2. g \in FlowType /\ g.st = "ended" /\ g.first = flow[t].first /\ g.inbox = <<>> /\ g.down = <<>>
    BY <2>1, NoFlowYet, Zenon DEF FlowType
  <2>. QED BY <2>2, Zenon DEF FlowEnds
<1>4. FlowOK(t, f)'
  <2>1. BoundFor(f.first, t)'
    BY <1>1, <1>2, <1>3, BoundStays, Zenon DEF FlowOK
  <2>2. DOMAIN f.inbox = {} /\ DOMAIN f.down = {}
    BY <1>3
  <2>. QED BY <2>1, <2>2, Zenon DEF FlowOK
<1>5. RepliesOK' /\ replies' \in Seq(ReplyType)
  BY <1>1, RepliesStay, Zenon DEF TunInv, TunTypeOK
<1>. QED BY <1>1, <1>2, <1>3, <1>4, <1>5, FlowStep, Zenon

(* The remote proxy answers a datagram of the flow: it was written by this  *)
(* flow, so it was bound for this target.                                   *)
LEMMA AnswersStep ==
  ASSUME TunInv, NEW t \in Targets, ProxyAnswers(t)
  PROVE  TunInv'
<1>1. UNCHANGED <<mode, mtu, asked, table, queries, sent, replies, missed>> /\ Grows
  BY Kept, Zenon DEF ProxyAnswers
<1>2. /\ flow[t] \in FlowType /\ FlowOK(t, flow[t]) /\ flow[t].st = "open"
      /\ flow \in [Targets -> FlowType]
  BY Zenon DEF TunInv, TunTypeOK, FlowsOK, ProxyAnswers
<1>3. PICK k \in DOMAIN sent :
        /\ sent[k].flow = flow[t].first
        /\ flow' = [flow EXCEPT ![t].down = Append(@, sent[k].id)]
  BY Zenon DEF ProxyAnswers
<1>4. sent[k].id \in Nat /\ BoundFor(sent[k].id, t)
  <2>1. sent[k].id \in Nat
    <3>1. sent[k] \in SentType
      BY DEF TunInv, TunTypeOK
    <3>. QED BY <3>1, Zenon DEF SentType
  <2>2. BoundFor(sent[k].id, sent[k].to) /\ BoundFor(sent[k].flow, sent[k].to)
    BY Zenon DEF TunInv, SentOK
  <2>3. BoundFor(flow[t].first, t)
    BY <1>2, Zenon DEF FlowOK
  <2>. QED BY <1>3, <2>1, <2>2, <2>3, Zenon DEF BoundFor
<1>5. PICK f \in FlowType :
        /\ flow' = [flow EXCEPT ![t] = f]
        /\ f.st = flow[t].st /\ f.first = flow[t].first
        /\ f.inbox = flow[t].inbox /\ f.down = Append(flow[t].down, sent[k].id)
  <2>. DEFINE g == [flow[t] EXCEPT !.down = Append(flow[t].down, sent[k].id)]
  <2>1. Append(flow[t].down, sent[k].id) \in Seq(Nat)
    BY <1>2, <1>4 DEF FlowType
  <2>2. /\ g \in FlowType /\ g.st = flow[t].st /\ g.first = flow[t].first
        /\ g.inbox = flow[t].inbox /\ g.down = Append(flow[t].down, sent[k].id)
    BY <1>2, <2>1, Zenon DEF FlowType
  <2>3. flow' = [flow EXCEPT ![t] = g]
    BY <1>2, <1>3, Zenon
  <2>. QED BY <2>2, <2>3, Zenon
<1>6. FlowOK(t, f)'
  <2>1. ASSUME NEW i \in DOMAIN f.down PROVE BoundFor(f.down[i], t)'
    <3>1. f.down[i] = sent[k].id \/ (i \in DOMAIN flow[t].down /\ f.down[i] = flow[t].down[i])
      <4>1. flow[t].down \in Seq(Nat)
        BY <1>2, Zenon DEF FlowType
      <4>2. Longer(f.down, flow[t].down, sent[k].id)
        BY <1>4, <1>5, <4>1, OneMore, Zenon
      <4>. QED BY <4>2, Zenon DEF Longer
    <3>2. BoundFor(f.down[i], t)
      BY <1>2, <1>4, <3>1, Zenon DEF FlowOK
    <3>. QED BY <1>1, <3>2, BoundStays, Zenon
  <2>. QED BY <1>1, <1>2, <1>5, <2>1, BoundStays, Zenon DEF FlowOK
<1>7. RepliesOK' /\ replies' \in Seq(ReplyType)
  BY <1>1, RepliesStay, Zenon DEF TunInv, TunTypeOK
<1>. QED BY <1>1, <1>5, <1>6, <1>7, FlowStep, Zenon

LEMMA ReplyAdded ==
  ASSUME TunInv, Grows, NEW r \in ReplyType, replies' = Append(replies, r),
         RightAnswer(r.id, r.from)
  PROVE  RepliesOK' /\ replies' \in Seq(ReplyType)
<1>1. replies \in Seq(ReplyType)
  BY Zenon DEF TunInv, TunTypeOK
<1>2. replies' \in Seq(ReplyType)
  BY <1>1, OneMore, Zenon
<1>3. ASSUME NEW i \in DOMAIN replies' PROVE RightAnswer(replies[i].id, replies[i].from)'
  <2>1. replies'[i] = r \/ (i \in DOMAIN replies /\ replies'[i] = replies[i])
    BY <1>1
  <2>2. RightAnswer(replies'[i].id, replies'[i].from)
    BY <2>1, Zenon DEF TunInv, RepliesOK
  <2>. QED BY <2>2, AnswerStays, Zenon
<1>. QED BY <1>2, <1>3, Zenon DEF RepliesOK

(* A frame is read, and written back from the target of the flow.           *)
LEMMA ReadStep ==
  ASSUME TunInv, NEW t \in Targets, ReadFrame(t)
  PROVE  TunInv'
<1>1. UNCHANGED <<mode, mtu, asked, table, queries, sent, missed>> /\ Grows
  BY Kept, Zenon DEF ReadFrame
<1>2. /\ flow[t] \in FlowType /\ FlowOK(t, flow[t]) /\ flow \in [Targets -> FlowType]
      /\ flow[t].down \in Seq(Nat) /\ flow[t].down # <<>> /\ flow[t].askew \in BOOLEAN
  BY Zenon DEF TunInv, TunTypeOK, FlowsOK, ReadFrame, FlowType
<1>tail. /\ Tail(flow[t].down) \in Seq(Nat) /\ 1 \in DOMAIN flow[t].down
         /\ Head(flow[t].down) = flow[t].down[1] /\ Head(flow[t].down) \in Nat
         /\ \A i \in DOMAIN Tail(flow[t].down) :
              /\ i \in Nat /\ i + 1 \in DOMAIN flow[t].down /\ 1 < i + 1
              /\ Tail(flow[t].down)[i] = flow[t].down[i + 1]
  BY <1>2, TheTail, Zenon
<1>3. PICK f \in FlowType :
        /\ flow' = [flow EXCEPT ![t] = f]
        /\ f.st = flow[t].st /\ f.first = flow[t].first
        /\ f.inbox = flow[t].inbox /\ f.down = Tail(flow[t].down)
  <2>. DEFINE g == [flow[t] EXCEPT !.down = Tail(flow[t].down), !.half = FALSE]
  <2>1. Tail(flow[t].down) \in Seq(Nat)
    BY <1>tail, Zenon
  <2>2. /\ g \in FlowType /\ g.st = flow[t].st /\ g.first = flow[t].first
        /\ g.inbox = flow[t].inbox /\ g.down = Tail(flow[t].down)
    BY <1>2, <2>1, Zenon DEF FlowType
  <2>3. flow' = [flow EXCEPT ![t] = g]
    BY <1>2, Zenon DEF ReadFrame
  <2>. QED BY <2>2, <2>3, Zenon
<1>4. FlowOK(t, f)'
  <2>1. ASSUME NEW i \in DOMAIN f.down PROVE BoundFor(f.down[i], t)'
    <3>1. i + 1 \in DOMAIN flow[t].down /\ f.down[i] = flow[t].down[i + 1]
      BY <1>3, <1>tail, Zenon
    <3>2. BoundFor(f.down[i], t)
      BY <1>2, <3>1, Zenon DEF FlowOK
    <3>. QED BY <1>1, <3>2, BoundStays, Zenon
  <2>. QED BY <1>1, <1>2, <1>3, <2>1, BoundStays, Zenon DEF FlowOK
<1>5. PICK r \in ReplyType :
        replies' = Append(replies, r) /\ r.id = Head(flow[t].down) /\ r.from = t
  <2>. DEFINE q == [id |-> Head(flow[t].down), whole |-> ~flow[t].askew, from |-> t]
  <2>1. Head(flow[t].down) \in Nat
    BY <1>tail, Zenon
  <2>2. q \in ReplyType /\ q.id = Head(flow[t].down) /\ q.from = t
    BY <1>2, <2>1, Zenon DEF ReplyType
  <2>3. replies' = Append(replies, q)
    BY Zenon DEF ReadFrame
  <2>. QED BY <2>2, <2>3, Zenon
<1>6. RightAnswer(r.id, r.from)
  <2>1. BoundFor(Head(flow[t].down), t)
    BY <1>2, <1>tail, Zenon DEF FlowOK
  <2>. QED BY <1>5, <2>1, AnswersFlow, Zenon
<1>7. RepliesOK' /\ replies' \in Seq(ReplyType)
  BY <1>1, <1>5, <1>6, ReplyAdded, Zenon
<1>. QED BY <1>1, <1>2, <1>3, <1>4, <1>7, FlowStep, Zenon

(* A DNS query ends, with an answer or without one.                         *)
LEMMA DohStep ==
  ASSUME TunInv, NEW id \in queries, DohEnds(id)
  PROVE  TunInv'
<1>1. UNCHANGED <<mode, mtu, asked, table, flow, sent, missed>> /\ Grows /\ queries' \subseteq queries
  BY Kept, Zenon DEF DohEnds
<1>2. id \in DOMAIN asked /\ mode = "doh" /\ id \in Nat /\ asked[id].remote \in Targets
  <2>1. id \in DOMAIN asked /\ mode = "doh"
    BY Zenon DEF TunInv, QueriesOK
  <2>2. asked[id] \in AskedType /\ id \in Nat
    BY <2>1 DEF TunInv, TunTypeOK
  <2>. QED BY <2>1, <2>2, Zenon DEF AskedType, Targets
<1>3. RepliesOK' /\ replies' \in Seq(ReplyType)
  <2>1. CASE replies' = replies
    BY <1>1, <2>1, RepliesStay, Zenon DEF TunInv, TunTypeOK
  <2>2. CASE replies' = Append(replies, [id |-> id, whole |-> TRUE, from |-> asked[id].remote])
    <3>1. PICK r \in ReplyType :
            replies' = Append(replies, r) /\ r.id = id /\ r.from = asked[id].remote
      <4>. DEFINE q == [id |-> id, whole |-> TRUE, from |-> asked[id].remote]
      <4>1. q \in ReplyType /\ q.id = id /\ q.from = asked[id].remote
        BY <1>2, Zenon DEF ReplyType
      <4>. QED BY <2>2, <4>1, Zenon
    <3>2. RightAnswer(r.id, r.from)
      BY <1>2, <3>1, Zenon DEF RightAnswer
    <3>. QED BY <1>1, <3>1, <3>2, ReplyAdded, Zenon
  <2>. QED BY <2>1, <2>2, Zenon DEF DohEnds
<1>4. ASSUME NEW t \in Targets PROVE FlowOK(t, flow[t])'
  BY <1>1, FlowStays, Zenon
<1>5. MissedOK'
  BY <1>1, MissedStay, Zenon
<1>6. TunTypeOK' /\ QueriesOK'
  BY <1>1, <1>3, Zenon DEF TunInv, TunTypeOK, QueriesOK
<1>7. SentOK'
  BY <1>1, SentStays, Zenon
<1>. QED BY <1>3, <1>4, <1>5, <1>6, <1>7, Zenon DEF TunInv, FlowsOK

(* The MTU is lowered, never below the smallest.                            *)
LEMMA MtuStep ==
  ASSUME TunInv, NEW m \in IcmpMtus, LowerMtu(m)
  PROVE  TunInv'
<1>1. UNCHANGED <<mode, asked, table, flow, queries, sent, replies, missed>> /\ Grows
  BY Kept, Zenon DEF LowerMtu
<1>2. mtu' \in Nat /\ MIN_TUN_MTU <= mtu' /\ mtu' <= Configured
  BY TunAssumption DEF TunInv, TunTypeOK, LowerMtu, MIN_TUN_MTU
<1>3. ASSUME NEW t \in Targets PROVE FlowOK(t, flow[t])'
  BY <1>1, FlowStays, Zenon
<1>4. MissedOK' /\ SentOK' /\ RepliesOK'
  BY <1>1, MissedStay, SentStays, RepliesStay, Zenon
<1>5. TunTypeOK' /\ QueriesOK'
  BY <1>1, <1>2, Zenon DEF TunInv, TunTypeOK, QueriesOK
<1>. QED BY <1>3, <1>4, <1>5, Zenon DEF TunInv, FlowsOK

(* A flow takes the head of its queue, and writes it to the tunnel unless   *)
(* it is too large: it was after all that was written to the target, and    *)
(* before the rest of the queue.                                            *)
LEMMA TakesStep ==
  ASSUME TunInv, NEW t \in Targets, FlowTakes(t)
  PROVE  TunInv'
<1>. DEFINE id == Head(flow[t].inbox)
<1>1. UNCHANGED <<mode, mtu, asked, table, queries, replies, missed>> /\ Grows
  BY Kept, Zenon DEF FlowTakes
<1>2. /\ flow[t] \in FlowType /\ FlowOK(t, flow[t]) /\ flow \in [Targets -> FlowType]
      /\ flow[t].inbox \in Seq(Nat) /\ flow[t].inbox # <<>> /\ flow[t].st = "open"
      /\ flow[t].half \in BOOLEAN /\ flow[t].askew \in BOOLEAN /\ flow[t].first \in Nat
  BY Zenon DEF TunInv, TunTypeOK, FlowsOK, FlowTakes, FlowType
<1>tail. /\ Tail(flow[t].inbox) \in Seq(Nat) /\ 1 \in DOMAIN flow[t].inbox
         /\ Head(flow[t].inbox) = flow[t].inbox[1] /\ Head(flow[t].inbox) \in Nat
         /\ \A i \in DOMAIN Tail(flow[t].inbox) :
              /\ i \in Nat /\ i + 1 \in DOMAIN flow[t].inbox /\ 1 < i + 1
              /\ Tail(flow[t].inbox)[i] = flow[t].inbox[i + 1]
  BY <1>2, TheTail, Zenon
<1>3. PICK f \in FlowType :
        /\ flow' = [flow EXCEPT ![t] = f]
        /\ f.st = flow[t].st /\ f.first = flow[t].first
        /\ f.inbox = Tail(flow[t].inbox) /\ f.down = flow[t].down
  <2>. DEFINE g == [flow[t] EXCEPT !.inbox = Tail(flow[t].inbox), !.half = FALSE,
                                    !.askew = flow[t].askew \/ flow[t].half]
  <2>1. Tail(flow[t].inbox) \in Seq(Nat)
    BY <1>tail, Zenon
  <2>2. (flow[t].askew \/ flow[t].half) \in BOOLEAN
    OBVIOUS
  <2>3. /\ g \in FlowType /\ g.st = flow[t].st /\ g.first = flow[t].first
        /\ g.inbox = Tail(flow[t].inbox) /\ g.down = flow[t].down
    BY <1>2, <2>1, <2>2, Zenon DEF FlowType
  <2>4. flow' = [flow EXCEPT ![t] = g]
    BY <1>2, Zenon DEF FlowTakes
  <2>. QED BY <2>3, <2>4, Zenon
<1>4. /\ id \in Nat /\ BoundFor(id, t) /\ id \in DOMAIN asked
      /\ \A k \in DOMAIN sent : sent[k].to = t => sent[k].id < id
  BY <1>2, <1>tail, Zenon DEF FlowOK, BoundFor
<1>5. ASSUME NEW i \in DOMAIN f.inbox
      PROVE  /\ BoundFor(f.inbox[i], t)' /\ id < f.inbox[i]
             /\ \A k \in DOMAIN sent : sent[k].to = t => sent[k].id < f.inbox[i]
  <2>1. i + 1 \in DOMAIN flow[t].inbox /\ f.inbox[i] = flow[t].inbox[i + 1] /\ 1 < i + 1
    BY <1>3, <1>tail, Zenon
  <2>2. 1 \in DOMAIN flow[t].inbox /\ id = flow[t].inbox[1]
    BY <1>tail, Zenon
  <2>3. /\ BoundFor(f.inbox[i], t) /\ id < f.inbox[i]
        /\ \A k \in DOMAIN sent : sent[k].to = t => sent[k].id < f.inbox[i]
    BY <1>2, <2>1, <2>2, Zenon DEF FlowOK
  <2>. QED BY <1>1, <2>3, BoundStays, Zenon
<1>6. ASSUME NEW i \in DOMAIN f.inbox, NEW j \in DOMAIN f.inbox, i < j
      PROVE  f.inbox[i] < f.inbox[j]
  <2>1. /\ i + 1 \in DOMAIN flow[t].inbox /\ f.inbox[i] = flow[t].inbox[i + 1]
        /\ j + 1 \in DOMAIN flow[t].inbox /\ f.inbox[j] = flow[t].inbox[j + 1]
        /\ i \in Nat /\ j \in Nat
    BY <1>3, <1>tail, Zenon
  <2>2. i + 1 < j + 1
    BY <1>6, <2>1
  <2>. QED BY <1>2, <2>1, <2>2, Zenon DEF FlowOK
<1>7. BoundFor(f.first, t)' /\ \A i \in DOMAIN f.down : BoundFor(f.down[i], t)'
  BY <1>1, <1>2, <1>3, BoundStays, Zenon DEF FlowOK
<1>8. CASE asked[id].size > max_udp_payload_ipv4(mtu)
  <2>1. sent' = sent
    BY <1>8, Zenon DEF FlowTakes
  <2>2. FlowOK(t, f)'
    BY <1>5, <1>6, <1>7, <2>1, Zenon DEF FlowOK
  <2>3. RepliesOK' /\ replies' \in Seq(ReplyType)
    BY <1>1, RepliesStay, Zenon DEF TunInv, TunTypeOK
  <2>. QED BY <1>1, <1>3, <2>1, <2>2, <2>3, FlowStep, Zenon
<1>9. CASE ~(asked[id].size > max_udp_payload_ipv4(mtu))
  <2>1. PICK s \in SentType :
          sent' = Append(sent, s) /\ s.id = id /\ s.to = t /\ s.flow = flow[t].first
    <3>. DEFINE q == [id |-> id, to |-> t, flow |-> flow[t].first]
    <3>1. q \in SentType /\ q.id = id /\ q.to = t /\ q.flow = flow[t].first
      BY <1>2, <1>4, Zenon DEF SentType
    <3>2. sent' = Append(sent, q)
      BY <1>9, Zenon DEF FlowTakes
    <3>. QED BY <3>1, <3>2, Zenon
  <2>2. sent \in Seq(SentType)
    BY Zenon DEF TunInv, TunTypeOK
  <2>3. /\ sent' \in Seq(SentType) /\ DOMAIN sent' = DOMAIN sent \cup {Len(sent) + 1}
        /\ sent'[Len(sent) + 1] = s
        /\ \A k \in DOMAIN sent : k \in Nat /\ k < Len(sent) + 1 /\ sent'[k] = sent[k]
    <3>1. sent' \in Seq(SentType) /\ Longer(sent', sent, s)
      BY <2>1, <2>2, OneMore, Zenon
    <3>. QED BY <3>1, Zenon DEF Longer
  <2>4. FlowOK(t, f)'
    <3>1. ASSUME NEW k \in DOMAIN sent', sent'[k].to = t, NEW i \in DOMAIN f.inbox
          PROVE  sent'[k].id < f.inbox[i]
      BY <1>5, <2>1, <2>3, <3>1
    <3>. QED BY <1>5, <1>6, <1>7, <3>1, Zenon DEF FlowOK
  <2>5. /\ flow' \in [Targets -> FlowType] /\ flow'[t] = f
        /\ \A u \in Targets : u # t => flow'[u] = flow[u]
    BY <1>2, <1>3, Zenon
  <2>6. ASSUME NEW u \in Targets PROVE FlowOK(u, flow[u])'
    <3>1. CASE u = t
      BY <2>4, <2>5, <3>1, Zenon
    <3>2. CASE u # t
      <4>1. flow'[u] = flow[u] /\ FlowOK(u, flow[u])
        BY <2>5, <3>2, Zenon DEF TunInv, FlowsOK
      <4>2. \A k \in DOMAIN sent' : sent'[k].to = u => k \in DOMAIN sent /\ sent'[k] = sent[k]
        BY <2>1, <2>3, <3>2, Zenon
      <4>. QED BY <1>1, <4>1, <4>2, BoundStays, Zenon DEF FlowOK
    <3>. QED BY <3>1, <3>2, Zenon
  <2>7. SentOK'
    <3>1. ASSUME NEW k \in DOMAIN sent'
          PROVE  /\ BoundFor(sent[k].id, sent[k].to)' /\ BoundFor(sent[k].flow, sent[k].to)'
                 /\ asked'[sent'[k].id].size <= max_udp_payload_ipv4(Configured)
      <4>1. CASE k \in DOMAIN sent
        <5>1. /\ BoundFor(sent[k].id, sent[k].to) /\ BoundFor(sent[k].flow, sent[k].to)
              /\ asked[sent[k].id].size <= max_udp_payload_ipv4(Configured)
          BY <4>1, Zenon DEF TunInv, SentOK
        <5>2. sent'[k] = sent[k]
          BY <2>3, <4>1, Zenon
        <5>. QED BY <1>1, <5>1, <5>2, BoundStays, Zenon
      <4>2. CASE k = Len(sent) + 1
        <5>1. sent'[k].id = id /\ sent'[k].to = t /\ sent'[k].flow = flow[t].first
          BY <2>1, <2>3, <4>2, Zenon
        <5>2. BoundFor(id, t) /\ BoundFor(flow[t].first, t)
          BY <1>2, <1>4, Zenon DEF FlowOK
        <5>3. asked[id].size <= max_udp_payload_ipv4(Configured)
          <6>1. asked[id].size \in Nat
            <7>1. asked[id] \in AskedType
              BY <1>4 DEF TunInv, TunTypeOK
            <7>. QED BY <7>1, TunAssumption, Zenon DEF AskedType
          <6>2. mtu \in Nat /\ Configured \in Nat /\ mtu <= Configured
            BY TunAssumption, Zenon DEF TunInv, TunTypeOK
          <6>3. /\ max_udp_payload_ipv4(mtu) \in Int /\ max_udp_payload_ipv4(Configured) \in Int
                /\ max_udp_payload_ipv4(mtu) <= max_udp_payload_ipv4(Configured)
            BY <6>2, PayloadGrows, Zenon
          <6>. QED BY <1>9, <6>1, <6>3
        <5>. QED BY <1>1, <5>1, <5>2, <5>3, BoundStays, Zenon
      <4>. QED BY <2>3, <4>1, <4>2, Zenon
    <3>2. ASSUME NEW i \in DOMAIN sent', NEW j \in DOMAIN sent', i < j, sent'[i].to = sent'[j].to
          PROVE  sent'[i].id < sent'[j].id
      <4>1. i \in DOMAIN sent /\ sent'[i] = sent[i]
        BY <2>2, <2>3, <3>2
      <4>2. CASE j \in DOMAIN sent
        BY <2>3, <3>2, <4>1, <4>2, Zenon DEF TunInv, SentOK
      <4>3. CASE j = Len(sent) + 1
        BY <1>4, <2>1, <2>3, <3>2, <4>1, <4>3, Zenon
      <4>. QED BY <2>3, <4>2, <4>3, Zenon
    <3>. QED BY <3>1, <3>2, Zenon DEF SentOK
  <2>8. MissedOK'
    BY <1>1, <1>3, <2>5, MissedStay, Zenon
  <2>9. RepliesOK' /\ QueriesOK'
    BY <1>1, RepliesStay, Zenon DEF TunInv, QueriesOK
  <2>10. TunTypeOK'
    BY <1>1, <2>3, <2>5, Zenon DEF TunInv, TunTypeOK
  <2>. QED BY <2>6, <2>7, <2>8, <2>9, <2>10, Zenon DEF TunInv, FlowsOK
<1>. QED BY <1>8, <1>9, Zenon

(* A datagram arrives.  Its number is the largest, so it is the last of its *)
(* flow's queue, and the first of a flow that has no datagram missed.       *)
LEMMA ForwardStep ==
  ASSUME TunInv, NEW id, id = Len(asked) + 1, NEW t \in Targets, NEW a \in AskedType,
         asked' = Append(asked, a), UNCHANGED <<mode, mtu, queries, sent, replies>>,
         rewrite_udp_upstream(a.remote) = t, Forward(id, t)
  PROVE  TunInv'
<1>1. /\ asked \in Seq(AskedType) /\ asked' \in Seq(AskedType)
      /\ DOMAIN asked' = DOMAIN asked \cup {id} /\ asked'[id] = a /\ id \in Nat
      /\ \A i \in DOMAIN asked : i \in Nat /\ i < id /\ asked'[i] = asked[i]
  <2>1. asked \in Seq(AskedType)
    BY Zenon DEF TunInv, TunTypeOK
  <2>2. asked' \in Seq(AskedType) /\ Longer(asked', asked, a)
    BY <2>1, OneMore, Zenon
  <2>. QED BY <2>1, <2>2, Zenon DEF Longer
<1>2. Grows
  BY <1>1, Zenon DEF Grows
<1>3. BoundFor(id, t)'
  BY <1>1, Zenon DEF BoundFor, rewrite_udp_upstream
<1>4. /\ flow[t] \in FlowType /\ FlowOK(t, flow[t]) /\ flow \in [Targets -> FlowType]
      /\ flow[t].inbox \in Seq(Nat)
  BY Zenon DEF TunInv, TunTypeOK, FlowsOK, FlowType
<1>5. \A i, u : BoundFor(i, u) => i \in Nat /\ i < id
  BY <1>1, Zenon DEF BoundFor
<1>6. \A k \in DOMAIN sent : sent[k].id < id
  BY <1>5, Zenon DEF TunInv, SentOK
<1>7. SentOK' /\ RepliesOK'
  BY <1>2, SentStays, RepliesStay, Zenon
<1>8. QueriesOK'
  BY <1>1, Zenon DEF TunInv, QueriesOK
<1>9. CASE t \notin table
  <2>1. PICK f \in FlowType :
          /\ flow' = [flow EXCEPT ![t] = f] /\ table' = table \cup {t} /\ missed' = missed
          /\ f.st = "opening" /\ f.first = id /\ f.inbox = <<id>> /\ f.down = <<>>
    <3>. DEFINE g == [NoFlow EXCEPT !.st = "opening", !.first = id, !.inbox = <<id>>]
    <3>1. <<id>> \in Seq(Nat)
      BY <1>1
    <3>2. /\ g \in FlowType /\ g.st = "opening" /\ g.first = id /\ g.inbox = <<id>>
          /\ g.down = <<>>
      BY <1>1, <3>1, NoFlowYet, Zenon DEF FlowType
    <3>3. flow' = [flow EXCEPT ![t] = g] /\ table' = table \cup {t} /\ missed' = missed
      BY <1>9, Zenon DEF Forward
    <3>. QED BY <3>2, <3>3, Zenon
  <2>2. FlowOK(t, f)'
    <3>1. DOMAIN f.inbox = {1} /\ f.inbox[1] = id /\ DOMAIN f.down = {}
      <4>1. DOMAIN <<id>> = {1} /\ <<id>>[1] = id /\ DOMAIN <<>> = {}
        OBVIOUS
      <4>. QED BY <2>1, <4>1, Zenon
    <3>2. \A i, j \in DOMAIN f.inbox : ~(i < j)
      <4>1. ~(1 < 1)
        OBVIOUS
      <4>. QED BY <3>1, <4>1, Zenon
    <3>3. ASSUME NEW i \in DOMAIN f.inbox
          PROVE  BoundFor(f.inbox[i], t)' /\ \A k \in DOMAIN sent' : sent'[k].id < f.inbox[i]
      BY <1>3, <1>6, <3>1, Zenon
    <3>. QED BY <1>3, <2>1, <3>1, <3>2, <3>3, Zenon DEF FlowOK
  <2>3. /\ flow' \in [Targets -> FlowType] /\ flow'[t] = f
        /\ \A u \in Targets : u # t => flow'[u] = flow[u]
        /\ FlowsOK'
    BY <1>2, <2>1, <2>2, OneFlow, Zenon
  <2>4. MissedOK'
    <3>1. table \subseteq Targets /\ MissedOK
      BY Zenon DEF TunInv, TunTypeOK
    <3>2. ASSUME NEW u \in table'
          PROVE  flow'[u].st # "none" /\ \A m \in missed : flow'[u].first # m[1]
      <4>1. CASE u = t
        <5>1. \A m \in missed : m[1] \in DOMAIN asked
          BY <3>1, Zenon DEF MissedOK
        <5>2. \A m \in missed : m[1] < id /\ m[1] \in Nat
          BY <1>1, <5>1, Zenon
        <5>3. \A m \in missed : m[1] # id
          BY <1>1, <5>2
        <5>. QED BY <2>1, <2>3, <4>1, <5>3, Zenon
      <4>2. CASE u # t
        BY <2>1, <2>3, <3>1, <4>2, Zenon DEF MissedOK
      <4>. QED BY <4>1, <4>2
    <3>. QED BY <1>2, <2>1, <3>1, <3>2, Zenon DEF MissedOK, Grows
  <2>5. TunTypeOK'
    BY <1>1, <2>1, <2>3, Zenon DEF TunInv, TunTypeOK
  <2>. QED BY <1>7, <1>8, <2>3, <2>4, <2>5, Zenon DEF TunInv
<1>10. CASE t \in table /\ flow[t].st = "ended"
  <2>1. table' = table \ {t} /\ missed' = missed \cup {<<flow[t].first, id>>} /\ flow' = flow
    BY <1>10, Zenon DEF Forward
  <2>2. FlowsOK'
    BY <1>2, <2>1, FlowStays, Zenon DEF FlowsOK
  <2>3. flow[t].first \in Nat
    BY <1>4, Zenon DEF FlowType
  <2>4. MissedOK'
    <3>1. table \subseteq Targets /\ MissedOK /\ BoundFor(flow[t].first, t)
      BY <1>4, <1>10, Zenon DEF TunInv, TunTypeOK, FlowOK
    <3>2. ASSUME NEW u \in table'
          PROVE  flow'[u].st # "none" /\ flow'[u].first # flow[t].first
      <4>1. u \in Targets /\ u # t /\ u \in table /\ flow[u].st # "none"
        BY <2>1, <3>1, Zenon DEF MissedOK
      <4>2. BoundFor(flow[u].first, u)
        BY <4>1, Zenon DEF TunInv, FlowsOK, FlowOK
      <4>. QED BY <2>1, <3>1, <4>1, <4>2, Zenon DEF BoundFor
    <3>3. ASSUME NEW m \in missed' PROVE m \in missed \/ m[1] = flow[t].first
      BY <2>1
    <3>4. ASSUME NEW m \in missed'
          PROVE  m[1] \in DOMAIN asked' /\ \A u \in table' : flow'[u].first # m[1]
      <4>1. CASE m \in missed
        BY <1>1, <2>1, <3>1, <4>1, Zenon DEF MissedOK
      <4>2. CASE m[1] = flow[t].first
        BY <1>1, <3>1, <3>2, <4>2, Zenon DEF BoundFor
      <4>. QED BY <3>3, <4>1, <4>2, Zenon
    <3>5. ASSUME NEW m \in missed', NEW n \in missed', m[1] = n[1] PROVE m = n
      <4>1. \A o \in missed : o[1] # flow[t].first
        BY <1>10, <3>1, Zenon DEF MissedOK
      <4>2. \A o \in missed' : o \in missed \/ (o = <<flow[t].first, id>> /\ o[1] = flow[t].first)
        BY <2>1
      <4>3. m \in missed /\ n \in missed => m = n
        BY <3>1, <3>5, Zenon DEF MissedOK
      <4>. QED BY <3>5, <4>1, <4>2, <4>3, Zenon
    <3>. QED BY <3>2, <3>4, <3>5, Zenon DEF MissedOK
  <2>5. TunTypeOK'
    <3>1. missed' \subseteq Nat \X Nat /\ table' \subseteq Targets
      BY <1>1, <2>1, <2>3 DEF TunInv, TunTypeOK
    <3>. QED BY <1>1, <2>1, <3>1, Zenon DEF TunInv, TunTypeOK
  <2>. QED BY <1>7, <1>8, <2>2, <2>4, <2>5, Zenon DEF TunInv
<1>11. CASE t \in table /\ flow[t].st # "ended"
  <2>1. flow' = [flow EXCEPT ![t].inbox = Append(@, id)] /\ UNCHANGED <<table, missed>>
    BY <1>11, Zenon DEF Forward
  <2>2. PICK f \in FlowType :
          /\ flow' = [flow EXCEPT ![t] = f]
          /\ f.st = flow[t].st /\ f.first = flow[t].first
          /\ f.inbox = Append(flow[t].inbox, id) /\ f.down = flow[t].down
    <3>. DEFINE g == [flow[t] EXCEPT !.inbox = Append(flow[t].inbox, id)]
    <3>1. Append(flow[t].inbox, id) \in Seq(Nat)
      BY <1>1, <1>4, OneMore, Zenon
    <3>2. /\ g \in FlowType /\ g.st = flow[t].st /\ g.first = flow[t].first
          /\ g.inbox = Append(flow[t].inbox, id) /\ g.down = flow[t].down
      BY <1>4, <3>1, Zenon DEF FlowType
    <3>3. flow' = [flow EXCEPT ![t] = g]
      BY <1>4, <2>1, Zenon
    <3>. QED BY <3>2, <3>3, Zenon
  <2>3. FlowOK(t, f)'
    <3>1. /\ DOMAIN f.inbox = DOMAIN flow[t].inbox \cup {Len(flow[t].inbox) + 1}
          /\ f.inbox[Len(flow[t].inbox) + 1] = id
          /\ \A i \in DOMAIN flow[t].inbox :
               i \in Nat /\ i < Len(flow[t].inbox) + 1 /\ f.inbox[i] = flow[t].inbox[i]
      <4>1. Longer(f.inbox, flow[t].inbox, id)
        BY <1>1, <1>4, <2>2, OneMore
      <4>. QED BY <4>1, Zenon DEF Longer
    <3>2. ASSUME NEW i \in DOMAIN f.inbox PROVE BoundFor(f.inbox[i], t)'
      <4>1. CASE i \in DOMAIN flow[t].inbox
        BY <1>2, <1>4, <3>1, <4>1, BoundStays, Zenon DEF FlowOK
      <4>. QED BY <1>3, <3>1, <4>1, Zenon
    <3>3. ASSUME NEW i \in DOMAIN f.inbox, NEW j \in DOMAIN f.inbox, i < j
          PROVE  f.inbox[i] < f.inbox[j]
      <4>0. Len(flow[t].inbox) \in Nat
        BY <1>4
      <4>1. i \in DOMAIN flow[t].inbox /\ f.inbox[i] = flow[t].inbox[i]
        <5>1. ~(Len(flow[t].inbox) + 1 < j)
          BY <3>1, <4>0
        <5>. QED BY <3>1, <3>3, <5>1, Zenon
      <4>2. CASE j \in DOMAIN flow[t].inbox
        BY <1>4, <3>1, <3>3, <4>1, <4>2, Zenon DEF FlowOK
      <4>3. BoundFor(f.inbox[i], t)
        BY <1>4, <4>1, Zenon DEF FlowOK
      <4>. QED BY <1>5, <3>1, <4>2, <4>3, Zenon
    <3>4. ASSUME NEW k \in DOMAIN sent, sent[k].to = t, NEW i \in DOMAIN f.inbox
          PROVE  sent[k].id < f.inbox[i]
      BY <1>4, <1>6, <3>1, <3>4, Zenon DEF FlowOK
    <3>5. f.st # "none" => BoundFor(f.first, t)'
      BY <1>2, <1>4, <2>2, BoundStays, Zenon DEF FlowOK
    <3>6. ASSUME NEW i \in DOMAIN f.down PROVE BoundFor(f.down[i], t)'
      BY <1>2, <1>4, <2>2, BoundStays DEF FlowOK
    <3>. QED BY <3>2, <3>3, <3>4, <3>5, <3>6, Zenon DEF FlowOK
  <2>4. /\ flow' \in [Targets -> FlowType] /\ flow'[t] = f
        /\ \A u \in Targets : u # t => flow'[u] = flow[u]
        /\ FlowsOK'
    BY <1>2, <2>2, <2>3, OneFlow, Zenon
  <2>5. MissedOK'
    BY <1>2, <2>1, <2>2, <2>4, MissedStay, Zenon
  <2>6. TunTypeOK'
    BY <1>1, <2>1, <2>4, Zenon DEF TunInv, TunTypeOK
  <2>. QED BY <1>7, <1>8, <2>4, <2>5, <2>6, Zenon DEF TunInv
<1>. QED BY <1>9, <1>10, <1>11, Zenon

LEMMA InboundStep ==
  ASSUME TunInv, NEW r \in Remotes, NEW n \in Sizes, handle_udp_inbound(r, n)
  PROVE  TunInv'
<1>1. PICK a \in AskedType : asked' = Append(asked, a) /\ a.remote = r
  <2>. DEFINE q == [remote |-> r, size |-> n]
  <2>1. q \in AskedType /\ q.remote = r /\ asked' = Append(asked, q)
    BY Zenon DEF AskedType, handle_udp_inbound
  <2>. QED BY <2>1, Zenon
<1>2. UNCHANGED <<mode, mtu, sent, replies>> /\ Len(asked') = Len(asked) + 1
  BY <1>1 DEF TunInv, TunTypeOK, handle_udp_inbound
<1>3. CASE ~(IsDns(r) /\ mode = "doh")
  <2>1. Forward(Len(asked) + 1, rewrite_udp_upstream(r)) /\ UNCHANGED queries
    BY <1>2, <1>3, Zenon DEF handle_udp_inbound
  <2>2. rewrite_udp_upstream(r) \in Targets
    BY Zenon DEF rewrite_udp_upstream, Targets
  <2>. QED BY <1>1, <1>2, <2>1, <2>2, ForwardStep, Zenon
<1>4. CASE IsDns(r) /\ mode = "doh"
  <2>1. queries' = queries \cup {Len(asked) + 1} /\ UNCHANGED <<table, flow, missed>>
    BY <1>2, <1>4, Zenon DEF handle_udp_inbound
  <2>2. /\ asked \in Seq(AskedType) /\ asked' \in Seq(AskedType)
        /\ DOMAIN asked' = DOMAIN asked \cup {Len(asked) + 1}
        /\ \A i \in DOMAIN asked : asked'[i] = asked[i]
    <3>1. asked \in Seq(AskedType)
      BY Zenon DEF TunInv, TunTypeOK
    <3>2. asked' \in Seq(AskedType) /\ Longer(asked', asked, a)
      BY <1>1, <3>1, OneMore, Zenon
    <3>. QED BY <3>1, <3>2, Zenon DEF Longer
  <2>3. Grows
    BY <1>2, <2>2, Zenon DEF Grows
  <2>4. FlowsOK' /\ SentOK' /\ RepliesOK'
    BY <1>2, <2>1, <2>3, FlowStays, SentStays, RepliesStay, Zenon DEF FlowsOK
  <2>5. MissedOK'
    BY <2>1, <2>3, MissedStay, Zenon
  <2>6. TunTypeOK' /\ QueriesOK'
    BY <1>2, <1>4, <2>1, <2>2, Zenon DEF TunInv, TunTypeOK, QueriesOK
  <2>. QED BY <2>4, <2>5, <2>6, Zenon DEF TunInv
<1>. QED BY <1>3, <1>4, Zenon

LEMMA TunInductive ==
  ASSUME TunInv, [TunNext]_tunVars
  PROVE  TunInv'
<1>1. CASE UNCHANGED tunVars
  <2>1. /\ UNCHANGED <<mode, mtu, asked, table, flow, queries, sent, replies, missed>>
        /\ Grows
    BY <1>1, Kept, Zenon DEF tunVars
  <2>2. FlowsOK' /\ SentOK' /\ RepliesOK'
    BY <2>1, FlowStays, SentStays, RepliesStay, Zenon DEF FlowsOK
  <2>3. MissedOK'
    BY <2>1, MissedStay, Zenon
  <2>4. TunTypeOK' /\ QueriesOK'
    BY <2>1, Zenon DEF TunInv, TunTypeOK, QueriesOK
  <2>. QED BY <2>2, <2>3, <2>4, Zenon DEF TunInv
<1>2. CASE TunNext
  BY <1>2, InboundStep, DohStep, MtuStep, OpensStep, EndsStep, TakesStep, AnswersStep,
    ReadStep,
     Zenon DEF TunNext
<1>. QED BY <1>1, <1>2, Zenon

LEMMA TunInvariant == TunSpec => []TunInv
BY TunInitially, TunInductive, PTL DEF TunSpec

(***************************************************************************)
(* A reply reaches the application under the address it wrote to, or under *)
(* the DNS upstream's if the query went there, for any number of flows,    *)
(* datagrams and lost tunnels (relay_udp_flow).                            *)
(***************************************************************************)
THEOREM RepliesComeFromTheirTarget == TunSpec => []RepliesKeepTheirFlow
<1>1. TunInv => RepliesKeepTheirFlow
  BY Zenon DEF TunInv, RepliesOK, RightAnswer, RepliesKeepTheirFlow
<1>. QED BY <1>1, TunInvariant, PTL

(***************************************************************************)
(* Datagrams to one target are written in their order and at most once,    *)
(* however many tunnels they took; none exceeds the configured MTU; an     *)
(* ended flow costs at most one datagram; and the MTU stays between its    *)
(* limits, whatever the probe and ICMP say (handle_udp_inbound, MtuState). *)
(***************************************************************************)
THEOREM DatagramsKeepOrder == TunSpec => []FlowsKeepOrder
<1>1. TunInv => FlowsKeepOrder
  BY Zenon DEF TunInv, TunTypeOK, SentOK, MissedOK, FlowsKeepOrder
<1>. QED BY <1>1, TunInvariant, PTL
=============================================================================
