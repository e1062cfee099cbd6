---------------------------- MODULE RelayProofs -----------------------------
(***************************************************************************)
(* Each direction of the TCP relay is a Pipe, its totals are exact and its *)
(* idle timeout means what it says, for every size of buffer and socket    *)
(* and any amount of traffic.                                              *)
(*                                                                         *)
(* Pipe speaks of the bytes that have arrived only.  The invariant says    *)
(* where all the others are: of the taken[d] bytes that the task has read, *)
(* those that have not arrived are the rest of the chunk in its hand.      *)
(***************************************************************************)
EXTENDS Relay, SequenceTheorems, TLAPS

(* What the proofs need of the constants. *)
RelayConstants ==
  /\ Idle \in Nat /\ Lifetime \in Nat /\ BufSize \in Nat /\ Room \in Nat
  /\ MaxBytes \in Nat /\ MaxTime \in Nat

Counters ==
  /\ sent \in [Dirs -> Nat] /\ taken \in [Dirs -> Nat] /\ count \in [Dirs -> Nat]
  /\ ended \in [Dirs -> BOOLEAN] /\ closed \in [Dirs -> BOOLEAN]
  /\ read_done \in [Dirs -> BOOLEAN]
  /\ DOMAIN got = Dirs
  /\ now \in Nat /\ lastByte \in Nat /\ idle_deadline \in Nat

(* n bytes of a stream, starting after the first b. *)
Bytes(b, n) == [i \in 1 .. n |-> b + i]

Settled(d) == got[d] = Bytes(0, taken[d]) /\ count[d] = taken[d]

ShutDown(d) == read_done[d] => closed[d]

(* The task has read n bytes of direction d and written k of them. *)
InChunk(d, n, k) ==
  /\ n \in 1 .. BufSize /\ k \in 0 .. n - 1 /\ n <= taken[d]
  /\ task = Writing(d, n, Bytes(taken[d] - n + k, n - k))
  /\ got[d] = Bytes(0, taken[d] - n + k)
  /\ count[d] = taken[d] - n
  /\ ~read_done[d]

TaskInv ==
  \/ task = Selecting /\ \A e \in Dirs : Settled(e) /\ ShutDown(e)
  \/ \E d \in Dirs :
       /\ task = ShuttingDown(d) /\ read_done[d] /\ ~closed[d]
       /\ \A e \in Dirs : Settled(e) /\ (e # d => ShutDown(e))
  \/ \E d \in Dirs, n, k \in Nat :
       InChunk(d, n, k) /\ \A e \in Dirs : ShutDown(e) /\ (e # d => Settled(e))

EndInv ==
  \A d \in Dirs :
    /\ taken[d] <= sent[d]
    /\ read_done[d] => ended[d] /\ taken[d] = sent[d]
    /\ closed[d] => read_done[d]

TimeInv ==
  /\ lastByte <= now
  /\ task.at # "write" /\ "idle" \in Limits => idle_deadline >= lastByte + Idle

ResultInv ==
  /\ result = "ok" => task = Selecting /\ \A d \in Dirs : read_done[d]
  /\ result = "idle" => lastByte + Idle <= now

RelayInv == Counters /\ TaskInv /\ EndInv /\ TimeInv /\ ResultInv

-----------------------------------------------------------------------------
(* A piece of a stream is a sequence of its length.                         *)
LEMMA BytesLen ==
  ASSUME NEW b \in Nat, NEW n \in Nat
  PROVE  Bytes(b, n) \in Seq(Nat) /\ Len(Bytes(b, n)) = n
BY DEF Bytes

(* The next byte extends what has arrived.                                  *)
LEMMA BytesAppend ==
  ASSUME NEW n \in Nat
  PROVE  Append(Bytes(0, n), n + 1) = Bytes(0, n + 1)
<1>1. Bytes(0, n) \in Seq(Nat) /\ Len(Bytes(0, n)) = n
  BY BytesLen, Zenon
<1>2. Bytes(0, n + 1) \in Seq(Nat) /\ Len(Bytes(0, n + 1)) = n + 1
  BY BytesLen
<1>3. /\ Append(Bytes(0, n), n + 1) \in Seq(Nat)
      /\ Len(Append(Bytes(0, n), n + 1)) = n + 1
      /\ \A i \in 1 .. n : Append(Bytes(0, n), n + 1)[i] = Bytes(0, n)[i]
      /\ Append(Bytes(0, n), n + 1)[n + 1] = n + 1
  BY <1>1, AppendProperties
<1>4. \A i \in 1 .. n + 1 : Append(Bytes(0, n), n + 1)[i] = Bytes(0, n + 1)[i]
  BY <1>3 DEF Bytes
<1>. QED BY <1>2, <1>3, <1>4, SeqEqual, Zenon

(* Taking the first byte off a piece leaves the piece after it.             *)
LEMMA BytesTail ==
  ASSUME NEW b \in Nat, NEW n \in Nat \ {0}
  PROVE  Head(Bytes(b, n)) = b + 1 /\ Tail(Bytes(b, n)) = Bytes(b + 1, n - 1)
<1>1. Bytes(b, n) \in Seq(Nat) /\ Len(Bytes(b, n)) = n /\ Bytes(b, n) # <<>>
  BY BytesLen, Zenon
<1>2. Bytes(b + 1, n - 1) \in Seq(Nat) /\ Len(Bytes(b + 1, n - 1)) = n - 1
  BY BytesLen
<1>3. /\ Head(Bytes(b, n)) = Bytes(b, n)[1]
      /\ Tail(Bytes(b, n)) \in Seq(Nat) /\ Len(Tail(Bytes(b, n))) = n - 1
      /\ \A i \in 1 .. n - 1 : Tail(Bytes(b, n))[i] = Bytes(b, n)[i + 1]
  BY <1>1, HeadTailProperties
<1>4. \A i \in 1 .. n - 1 : Tail(Bytes(b, n))[i] = Bytes(b + 1, n - 1)[i]
  BY <1>3 DEF Bytes
<1>5. Head(Bytes(b, n)) = b + 1
  BY <1>3 DEF Bytes
<1>6. Tail(Bytes(b, n)) = Bytes(b + 1, n - 1)
  BY <1>2, <1>3, <1>4, SeqEqual, Zenon
<1>. QED BY <1>5, <1>6, Zenon

(* Where the task is decides what its record has.                           *)
LEMMA Places ==
  ASSUME NEW d, NEW n, NEW l
  PROVE  /\ Selecting.at = "select" /\ ShuttingDown(d).at = "shutdown"
         /\ Writing(d, n, l).at = "write" /\ Writing(d, n, l).dir = d
         /\ Writing(d, n, l).n = n /\ Writing(d, n, l).left = l
         /\ ShuttingDown(d).dir = d
BY Zenon DEF Selecting, ShuttingDown, Writing

(* What the invariant says at each place of the task.                       *)
LEMMA TaskCases ==
  ASSUME RelayInv
  PROVE  /\ task = Selecting => \A e \in Dirs : Settled(e) /\ ShutDown(e)
         /\ \A d \in Dirs : task = ShuttingDown(d) =>
              /\ read_done[d] /\ ~closed[d]
              /\ \A e \in Dirs : Settled(e) /\ (e # d => ShutDown(e))
         /\ \A d \in Dirs : task.at = "write" /\ task.dir = d =>
              \E n, k \in Nat :
                InChunk(d, n, k) /\ \A e \in Dirs : ShutDown(e) /\ (e # d => Settled(e))
<1>1. ASSUME NEW d, NEW n, NEW k, InChunk(d, n, k)
      PROVE  task.at = "write" /\ task.dir = d
  <2>1. task = Writing(d, n, Bytes(taken[d] - n + k, n - k))
    BY <1>1, Zenon DEF InChunk
  <2>. HIDE DEF Bytes
  <2>. QED BY <2>1, Zenon DEF Writing
<1>2. /\ Selecting.at = "select"
      /\ \A d : ShuttingDown(d).at = "shutdown" /\ ShuttingDown(d).dir = d
  BY Places, Zenon
<1>3. "select" # "write" /\ "shutdown" # "write" /\ "select" # "shutdown"
  OBVIOUS
<1>4. TaskInv
  BY Zenon DEF RelayInv
<1>5. CASE task = Selecting /\ \A e \in Dirs : Settled(e) /\ ShutDown(e)
  BY <1>2, <1>3, <1>5, Zenon
<1>6. ASSUME NEW d \in Dirs, task = ShuttingDown(d), read_done[d], ~closed[d],
             \A e \in Dirs : Settled(e) /\ (e # d => ShutDown(e))
      PROVE  /\ task # Selecting /\ task.at # "write"
             /\ \A c \in Dirs : task = ShuttingDown(c) => c = d
  BY <1>2, <1>3, <1>6, Zenon
<1>7. ASSUME NEW d \in Dirs, NEW n \in Nat, NEW k \in Nat, InChunk(d, n, k)
      PROVE  /\ task # Selecting /\ \A c \in Dirs : task # ShuttingDown(c)
             /\ task.dir = d
  BY <1>1, <1>2, <1>3, <1>7, Zenon
<1>. QED BY <1>4, <1>5, <1>6, <1>7, Zenon DEF TaskInv

(* The invariant holds at the start.                                        *)
LEMMA RelayInitially == RelayConstants /\ Init => RelayInv
<1>. SUFFICES ASSUME RelayConstants, Init PROVE RelayInv
  OBVIOUS
<1>1. Counters
  BY Zenon DEF RelayConstants, Init, Counters
<1>2. TaskInv
  <2>1. Bytes(0, 0) = <<>>
    BY BytesLen, EmptySeq DEF Bytes
  <2>. QED BY <2>1, Zenon DEF Init, TaskInv, Settled, ShutDown
<1>3. EndInv /\ ResultInv
  BY DEF Init, EndInv, ResultInv
<1>4. TimeInv
  BY DEF RelayConstants, Init, TimeInv
<1>. QED BY <1>1, <1>2, <1>3, <1>4, Zenon DEF RelayInv

(* The peers and the clock touch nothing that the task holds.               *)
LEMMA PeersKeepInv ==
  ASSUME RelayConstants, RelayInv,
         Tick \/ \E d \in Dirs : PeerSends(d) \/ PeerEnds(d) \/ PeerDrains(d)
  PROVE  RelayInv'
<1>1. UNCHANGED <<got, closed, taken, read_done, count, task, idle_deadline, lastByte, result>>
  BY Zenon DEF Tick, PeerSends, PeerEnds, PeerDrains
<1>. DEFINE Grows ==
       /\ sent' \in [Dirs -> Nat] /\ ended' \in [Dirs -> BOOLEAN]
       /\ now' \in Nat /\ now' >= now
       /\ \A e \in Dirs : /\ ended[e] => ended'[e] /\ sent'[e] = sent[e]
                         /\ sent[e] <= sent'[e]
<1>2. Grows
  <2>1. CASE Tick
    BY <2>1 DEF RelayInv, Counters, Tick, peerVars
  <2>2. ASSUME NEW d \in Dirs, PeerSends(d) PROVE Grows
    BY <2>2 DEF RelayInv, Counters, PeerSends
  <2>3. ASSUME NEW d \in Dirs, PeerEnds(d) PROVE Grows
    BY <2>3 DEF RelayInv, Counters, PeerEnds
  <2>4. ASSUME NEW d \in Dirs, PeerDrains(d) PROVE Grows
    BY <2>4 DEF RelayInv, Counters, PeerDrains
  <2>. HIDE DEF Grows
  <2>. QED BY <2>1, <2>2, <2>3, <2>4, Zenon
<1>3. Counters'
  BY <1>1, <1>2, Zenon DEF RelayInv, Counters
<1>4. TaskInv'
  BY <1>1 DEF RelayInv, TaskInv, Settled, ShutDown, InChunk
<1>5. EndInv'
  BY <1>1, <1>2 DEF RelayInv, Counters, EndInv
<1>6. TimeInv'
  BY <1>1, <1>2 DEF RelayInv, Counters, TimeInv
<1>7. ResultInv'
  <2>1. (result = "ok" => task = Selecting /\ \A d \in Dirs : read_done[d])'
    BY <1>1, Zenon DEF RelayInv, ResultInv
  <2>2. (result = "idle" => lastByte + Idle <= now)'
    <3>1. /\ now \in Nat /\ now' \in Nat /\ now' >= now /\ lastByte \in Nat /\ Idle \in Nat
          /\ result = "idle" => lastByte + Idle <= now
      BY <1>2, Zenon DEF RelayInv, Counters, ResultInv, RelayConstants
    <3>2. result' = result /\ lastByte' = lastByte
      BY <1>1, Zenon
    <3>. HIDE DEF Grows
    <3>. QED BY <3>1, <3>2
  <2>. QED BY <2>1, <2>2, Zenon DEF ResultInv
<1>. QED BY <1>3, <1>4, <1>5, <1>6, <1>7, Zenon DEF RelayInv

(* A read puts the next bytes of the stream into the task's hand.           *)
LEMMA ReadKeepsInv ==
  ASSUME RelayConstants, RelayInv, NEW d \in Dirs, Read(d)
  PROVE  RelayInv'
<1>1. PICK n \in 1 .. BufSize :
        /\ taken[d] + n <= sent[d]
        /\ taken' = [taken EXCEPT ![d] = @ + n]
        /\ task' = Writing(d, n, [i \in 1 .. n |-> taken[d] + i])
  BY Zenon DEF Read
<1>2. /\ task = Selecting /\ ~read_done[d] /\ result = "none"
      /\ UNCHANGED <<sent, ended, got, closed, read_done, count, idle_deadline, now,
                     lastByte, result>>
  BY Zenon DEF Read, InSelect, peerVars
<1>3. n \in Nat /\ n >= 1 /\ n <= BufSize
  BY <1>1 DEF RelayConstants
<1>4. /\ taken'[d] = taken[d] + n /\ taken' \in [Dirs -> Nat]
      /\ \A e \in Dirs : e # d => taken'[e] = taken[e]
  BY <1>1, <1>3 DEF RelayInv, Counters
<1>5. Counters'
  BY <1>2, <1>4, Zenon DEF RelayInv, Counters
<1>6. \A e \in Dirs : Settled(e) /\ ShutDown(e)
  BY <1>2, TaskCases, Zenon
<1>7. TaskInv'
  <2>1. InChunk(d, n, 0)'
    <3>1. taken'[d] - n + 0 = taken[d] /\ n - 0 = n /\ taken[d] \in Nat
      BY <1>3, <1>4 DEF RelayInv, Counters
    <3>2. task' = Writing(d, n, Bytes(taken'[d] - n + 0, n - 0))
      BY <1>1, <3>1, Zenon DEF Bytes
    <3>3. got'[d] = Bytes(0, taken'[d] - n + 0) /\ count'[d] = taken'[d] - n
      BY <1>2, <1>3, <1>4, <1>6, <3>1 DEF Settled
    <3>. QED BY <1>1, <1>2, <1>3, <1>4, <3>1, <3>2, <3>3 DEF InChunk
  <2>2. \A e \in Dirs : ShutDown(e)' /\ (e # d => Settled(e)')
    BY <1>2, <1>4, <1>6, Zenon DEF ShutDown, Settled
  <2>. QED BY <1>3, <2>1, <2>2, Zenon DEF TaskInv
<1>8. EndInv'
  BY <1>1, <1>2, <1>4, Zenon DEF RelayInv, EndInv
<1>9. TimeInv' /\ ResultInv'
  BY <1>1, <1>2, Places, Zenon DEF RelayInv, TimeInv, ResultInv
<1>. QED BY <1>5, <1>7, <1>8, <1>9, Zenon DEF RelayInv

(* The end of a side is read with nothing in hand.                          *)
LEMMA ReadEofKeepsInv ==
  ASSUME RelayInv, NEW d \in Dirs, ReadEof(d)
  PROVE  RelayInv'
<1>1. /\ task = Selecting /\ ~read_done[d] /\ result = "none" /\ ended[d]
      /\ taken[d] = sent[d] /\ task' = ShuttingDown(d)
      /\ read_done' = [read_done EXCEPT ![d] = TRUE]
      /\ UNCHANGED <<sent, ended, got, closed, taken, count, idle_deadline, now,
                     lastByte, result>>
  BY Zenon DEF ReadEof, InSelect, peerVars
<1>2. /\ read_done'[d] /\ read_done' \in [Dirs -> BOOLEAN]
      /\ \A e \in Dirs : e # d => read_done'[e] = read_done[e]
  BY <1>1, Zenon DEF RelayInv, Counters
<1>3. Counters'
  BY <1>1, <1>2, Zenon DEF RelayInv, Counters
<1>4. \A e \in Dirs : Settled(e) /\ ShutDown(e)
  BY <1>1, TaskCases, Zenon
<1>5. ~closed[d]
  BY <1>1, Zenon DEF RelayInv, EndInv
<1>6. TaskInv'
  <2>1. \A e \in Dirs : Settled(e)' /\ (e # d => ShutDown(e)')
    BY <1>1, <1>2, <1>4, Zenon DEF Settled, ShutDown
  <2>. QED BY <1>1, <1>2, <1>5, <2>1, Zenon DEF TaskInv
<1>7. EndInv'
  BY <1>1, <1>2, Zenon DEF RelayInv, EndInv
<1>8. TimeInv' /\ ResultInv'
  BY <1>1, Places, Zenon DEF RelayInv, TimeInv, ResultInv
<1>. QED BY <1>3, <1>6, <1>7, <1>8, Zenon DEF RelayInv

(* The shutdown completes the half-close of its direction.                  *)
LEMMA ShutdownKeepsInv ==
  ASSUME RelayInv, NEW d \in Dirs, Shutdown(d)
  PROVE  RelayInv'
<1>1. /\ task = ShuttingDown(d) /\ result = "none" /\ task' = Selecting
      /\ closed' = [closed EXCEPT ![d] = TRUE]
      /\ UNCHANGED <<sent, ended, got, taken, read_done, count, idle_deadline, now,
                     lastByte, result>>
  BY Zenon DEF Shutdown, peerVars
<1>2. /\ closed'[d] /\ closed' \in [Dirs -> BOOLEAN]
      /\ \A e \in Dirs : e # d => closed'[e] = closed[e]
  BY <1>1, Zenon DEF RelayInv, Counters
<1>3. read_done[d] /\ \A e \in Dirs : Settled(e) /\ (e # d => ShutDown(e))
  BY <1>1, TaskCases, Zenon
<1>4. Counters'
  BY <1>1, <1>2, Zenon DEF RelayInv, Counters
<1>5. TaskInv'
  <2>1. \A e \in Dirs : Settled(e)' /\ ShutDown(e)'
    BY <1>1, <1>2, <1>3, Zenon DEF Settled, ShutDown
  <2>. QED BY <1>1, <2>1, Zenon DEF TaskInv
<1>6. EndInv'
  BY <1>1, <1>2, <1>3, Zenon DEF RelayInv, EndInv
<1>7. TimeInv' /\ ResultInv'
  BY <1>1, Places, Zenon DEF RelayInv, TimeInv, ResultInv
<1>. QED BY <1>4, <1>5, <1>6, <1>7, Zenon DEF RelayInv

(* A byte goes from the chunk to the peer; with the last one of the chunk   *)
(* the direction is settled again.                                          *)
LEMMA WriteKeepsInv ==
  ASSUME RelayConstants, RelayInv, NEW d \in Dirs, Write(d)
  PROVE  RelayInv'
<1>1. /\ task.at = "write" /\ task.dir = d /\ result = "none" /\ lastByte' = now
      /\ got' = [got EXCEPT ![d] = Append(@, Head(task.left))]
      /\ UNCHANGED <<sent, ended, closed, taken, read_done, now, result>>
  BY Zenon DEF Write, peerVars
<1>2. PICK n \in Nat, k \in Nat :
        InChunk(d, n, k) /\ \A e \in Dirs : ShutDown(e) /\ (e # d => Settled(e))
  BY <1>1, TaskCases, Zenon
<1>. DEFINE b == taken[d] - n + k
<1>3. /\ taken[d] \in Nat /\ n >= 1 /\ n <= BufSize /\ k < n /\ n <= taken[d]
      /\ b \in Nat /\ n - k \in Nat \ {0}
  BY <1>2 DEF RelayInv, Counters, InChunk, RelayConstants
<1>4. /\ task = Writing(d, n, Bytes(b, n - k)) /\ got[d] = Bytes(0, b)
      /\ count[d] = taken[d] - n /\ ~read_done[d]
  BY <1>2, Zenon DEF InChunk
<1>5. task.n = n /\ task.left = Bytes(b, n - k)
  BY <1>4, Places
<1>6. /\ Head(task.left) = b + 1 /\ Tail(task.left) = Bytes(b + 1, n - k - 1)
      /\ Len(task.left) = n - k
  <2>. HIDE DEF b
  <2>1. b \in Nat /\ n - k \in Nat \ {0} /\ n - k \in Nat
    BY <1>3, Zenon
  <2>2. /\ Head(Bytes(b, n - k)) = b + 1
        /\ Tail(Bytes(b, n - k)) = Bytes(b + 1, n - k - 1)
    BY <2>1, BytesTail, Zenon
  <2>3. Len(Bytes(b, n - k)) = n - k
    BY <2>1, BytesLen, Zenon
  <2>. QED BY <1>5, <2>2, <2>3, Zenon
<1>7. /\ got'[d] = Bytes(0, b + 1) /\ DOMAIN got' = Dirs
      /\ \A e \in Dirs : e # d => got'[e] = got[e]
  <2>1. Append(got[d], Head(task.left)) = Bytes(0, b + 1)
    <3>. HIDE DEF b
    <3>. QED BY <1>3, <1>4, <1>6, BytesAppend, Zenon
  <2>2. DOMAIN got = Dirs
    BY Zenon DEF RelayInv, Counters
  <2>. HIDE DEF b
  <2>. QED BY <1>1, <2>1, <2>2, Zenon
<1>8. EndInv'
  BY <1>1, Zenon DEF RelayInv, EndInv
<1>9. \A e \in Dirs : ShutDown(e)'
  BY <1>1, <1>2, Zenon DEF ShutDown
<1>10. CASE n - k > 1
  <2>1. /\ task' = Writing(d, n, Bytes(b + 1, n - k - 1))
        /\ UNCHANGED <<count, idle_deadline>>
    <3>. HIDE DEF b
    <3>. QED BY <1>5, <1>6, <1>10, Zenon DEF Write
  <2>2. Counters'
    BY <1>1, <1>7, <2>1, Zenon DEF RelayInv, Counters
  <2>3. InChunk(d, n, k + 1)'
    <3>1. taken'[d] - n + (k + 1) = b + 1 /\ n - (k + 1) = n - k - 1 /\ taken' = taken
      <4>1. taken' = taken
        BY <1>1, Zenon
      <4>. QED BY <1>3, <4>1
    <3>2. /\ n \in 1 .. BufSize /\ k + 1 \in 0 .. n - 1 /\ n <= taken'[d]
          /\ count'[d] = taken'[d] - n /\ ~read_done'[d]
      BY <1>1, <1>3, <1>4, <1>10, <2>1 DEF RelayConstants
    <3>. HIDE DEF b
    <3>. QED BY <1>7, <2>1, <3>1, <3>2, Zenon DEF InChunk
  <2>4. TaskInv'
    <3>1. \A e \in Dirs : e # d => Settled(e)'
      BY <1>1, <1>2, <1>7, <2>1, Zenon DEF Settled
    <3>. QED BY <1>9, <2>3, <3>1, SMTT(30) DEF TaskInv
  <2>5. TimeInv'
    <3>1. now \in Nat /\ now' = now /\ lastByte' = now
      BY <1>1, Zenon DEF RelayInv, Counters
    <3>2. lastByte' <= now'
      BY <3>1
    <3>3. task'.at = "write"
      BY <2>1, Places
    <3>. QED BY <3>2, <3>3, Zenon DEF TimeInv
  <2>6. ResultInv'
    BY <1>1, Zenon DEF ResultInv
  <2>. QED BY <1>8, <2>2, <2>4, <2>5, <2>6, Zenon DEF RelayInv
<1>11. CASE ~(n - k > 1)
  <2>1. /\ task' = Selecting
        /\ count' = [count EXCEPT ![d] = @ + n]
        /\ idle_deadline' = IF "idle" \in Limits THEN now + Idle ELSE idle_deadline
    <3>. HIDE DEF b
    <3>. QED BY <1>5, <1>6, <1>11, Zenon DEF Write
  <2>2. /\ count'[d] = taken[d] /\ count' \in [Dirs -> Nat]
        /\ \A e \in Dirs : e # d => count'[e] = count[e]
    BY <1>3, <1>4, <2>1 DEF RelayInv, Counters
  <2>3. idle_deadline' \in Nat
    BY <2>1 DEF RelayInv, Counters, RelayConstants
  <2>4. Counters'
    BY <1>1, <1>7, <2>2, <2>3, Zenon DEF RelayInv, Counters
  <2>5. Settled(d)'
    <3>1. b + 1 = taken[d]
      BY <1>3, <1>11
    <3>. HIDE DEF b
    <3>. QED BY <1>1, <1>7, <2>2, <3>1, Zenon DEF Settled
  <2>6. TaskInv'
    <3>1. \A e \in Dirs : e # d => Settled(e)'
      BY <1>1, <1>2, <1>7, <2>2, SMTT(20) DEF Settled
    <3>. QED BY <1>9, <2>1, <2>5, <3>1, Zenon DEF TaskInv
  <2>7. TimeInv'
    <3>1. now \in Nat /\ now' = now /\ lastByte' = now
      BY <1>1, Zenon DEF RelayInv, Counters
    <3>2. "idle" \in Limits => idle_deadline' = lastByte' + Idle
      BY <2>1, <3>1, Zenon
    <3>3. lastByte' <= now' /\ lastByte' + Idle >= lastByte' + Idle
      BY <3>1 DEF RelayConstants
    <3>. QED BY <3>2, <3>3, Zenon DEF TimeInv
  <2>8. ResultInv'
    BY <1>1, Zenon DEF ResultInv
  <2>. QED BY <1>8, <2>4, <2>6, <2>7, <2>8, Zenon DEF RelayInv
<1>. QED BY <1>10, <1>11, Zenon

(* The relay returns: nothing moves any more.                               *)
LEMMA ReturnKeepsInv ==
  ASSUME RelayConstants, RelayInv, ReturnOk \/ IdleFires \/ LifetimeFires \/ IoError
  PROVE  RelayInv'
<1>1. UNCHANGED <<sent, ended, got, closed, taken, read_done, count, task,
                  idle_deadline, now, lastByte>>
  BY Zenon DEF ReturnOk, IdleFires, LifetimeFires, IoError, Returns, peerVars
<1>2. Counters' /\ EndInv' /\ TimeInv'
  BY <1>1, Zenon DEF RelayInv, Counters, EndInv, TimeInv
<1>3. TaskInv'
  BY <1>1, SMTT(20) DEF RelayInv, TaskInv, Settled, ShutDown, InChunk
<1>4. ResultInv'
  <2>1. CASE ReturnOk
    BY <1>1, <2>1, Zenon DEF ReturnOk, Returns, ResultInv
  <2>2. CASE IdleFires
    <3>1. lastByte + Idle <= now
      BY <2>2, Places DEF IdleFires, InSelect, RelayInv, TimeInv, Counters, RelayConstants
    <3>. QED BY <1>1, <2>2, <3>1, Zenon DEF IdleFires, Returns, ResultInv
  <2>3. CASE LifetimeFires \/ IoError
    BY <1>1, <2>3, Zenon DEF LifetimeFires, IoError, Returns, ResultInv
  <2>. QED BY <2>1, <2>2, <2>3, Zenon
<1>. QED BY <1>2, <1>3, <1>4, Zenon DEF RelayInv

(* Every step keeps the invariant.                                          *)
LEMMA RelayInductive == RelayConstants /\ RelayInv /\ [Next]_vars => RelayInv'
<1>. SUFFICES ASSUME RelayConstants, RelayInv, [Next]_vars PROVE RelayInv'
  OBVIOUS
<1>1. ASSUME NEW d \in Dirs, PeerSends(d) \/ PeerEnds(d) \/ PeerDrains(d) PROVE RelayInv'
  BY <1>1, PeersKeepInv, Zenon
<1>2. ASSUME NEW d \in Dirs, Read(d) PROVE RelayInv'
  BY <1>2, ReadKeepsInv, Zenon
<1>3. ASSUME NEW d \in Dirs, ReadEof(d) PROVE RelayInv'
  BY <1>3, ReadEofKeepsInv, Zenon
<1>4. ASSUME NEW d \in Dirs, Write(d) PROVE RelayInv'
  BY <1>4, WriteKeepsInv, Zenon
<1>5. ASSUME NEW d \in Dirs, Shutdown(d) PROVE RelayInv'
  BY <1>5, ShutdownKeepsInv, Zenon
<1>6. CASE ReturnOk \/ IdleFires \/ LifetimeFires \/ IoError
  BY <1>6, ReturnKeepsInv, Zenon
<1>7. CASE Tick
  BY <1>7, PeersKeepInv, Zenon
<1>8. CASE UNCHANGED vars
  BY <1>8, SMTT(20) DEF vars, RelayInv, Counters, TaskInv, EndInv, TimeInv, ResultInv,
             Settled, ShutDown, InChunk
<1>. QED BY <1>1, <1>2, <1>3, <1>4, <1>5, <1>6, <1>7, <1>8, Zenon DEF Next

-----------------------------------------------------------------------------
(* The totals of relay.rs are exact, whatever the chunks were.              *)
THEOREM TotalsAreExact ==
  ASSUME RelayConstants
  PROVE  Spec => []CountsAreExact
<1>1. ASSUME RelayInv PROVE CountsAreExact
  <2>1. \A m \in Nat : Len(Bytes(0, m)) = m
    BY BytesLen, Zenon
  <2>2. \A d \in Dirs : taken[d] \in Nat
    BY <1>1, Zenon DEF RelayInv, Counters
  <2>3. \A d \in Dirs : Settled(d) => count[d] = Len(got[d]) /\ count[d] <= Len(got[d])
    <3>1. \A d \in Dirs : Settled(d) => count[d] = taken[d] /\ Len(got[d]) = taken[d]
      BY <2>1, <2>2, Zenon DEF Settled
    <3>. QED BY <2>2, <3>1, SMTT(20)
  <2>4. ASSUME NEW d \in Dirs, NEW n \in Nat, NEW k \in Nat, InChunk(d, n, k)
        PROVE  count[d] <= Len(got[d])
    <3>1. taken[d] - n + k \in Nat /\ taken[d] - n <= taken[d] - n + k
      BY <2>2, <2>4 DEF InChunk
    <3>. QED BY <2>1, <2>4, <3>1, Zenon DEF InChunk
  <2>5. \A d \in Dirs : count[d] <= Len(got[d])
    BY <1>1, <2>3, <2>4, Zenon DEF RelayInv, TaskInv
  <2>6. task = Selecting => \A d \in Dirs : Settled(d) /\ ShutDown(d)
    BY <1>1, TaskCases, Zenon
  <2>7. result = "ok" => \A d \in Dirs : count[d] = sent[d] /\ closed[d]
    BY <1>1, <2>6, Zenon DEF RelayInv, ResultInv, EndInv, Settled, ShutDown
  <2>. QED BY <2>3, <2>5, <2>6, <2>7, Zenon DEF CountsAreExact
<1>. QED BY <1>1, RelayInitially, RelayInductive, PTL DEF Spec

(* The relay reports an idle session only when no byte was moved for the    *)
(* idle timeout.                                                            *)
THEOREM IdleMeansIdle ==
  ASSUME RelayConstants
  PROVE  Spec => IdleOnlyWhenIdle
<1>1. ASSUME RelayInv, [Next]_vars
      PROVE  [result' = "idle" => now - lastByte >= Idle]_vars
  <2>. SUFFICES ASSUME Next, result' = "idle" PROVE now - lastByte >= Idle
    BY <1>1, Zenon
  <2>1. lastByte + Idle <= now
    <3>1. CASE result = "idle"
      BY <1>1, <3>1, Zenon DEF RelayInv, ResultInv
    <3>2. CASE result # "idle"
      <4>1. ASSUME NEW d \in Dirs, PeerSends(d) \/ PeerEnds(d) \/ PeerDrains(d) \/ Read(d)
            PROVE  FALSE
        BY <3>2, <4>1, Zenon DEF PeerSends, PeerEnds, PeerDrains, Read
      <4>2. ASSUME NEW d \in Dirs, ReadEof(d) \/ Write(d) \/ Shutdown(d)
            PROVE  FALSE
        BY <3>2, <4>2, Zenon DEF ReadEof, Write, Shutdown
      <4>3. ~(ReturnOk \/ LifetimeFires \/ IoError \/ Tick)
        BY <3>2, Zenon DEF ReturnOk, LifetimeFires, IoError, Tick, Returns
      <4>4. IdleFires
        BY <4>1, <4>2, <4>3, Zenon DEF Next
      <4>. QED BY <1>1, <4>4, Places DEF IdleFires, InSelect, RelayInv, TimeInv, Counters,
                                         RelayConstants
    <3>. QED BY <3>1, <3>2, Zenon
  <2>. QED BY <1>1, <2>1 DEF RelayInv, Counters, RelayConstants
<1>. QED BY <1>1, RelayInitially, RelayInductive, PTL DEF Spec, IdleOnlyWhenIdle

(* One direction of a step is a step of Pipe, with the operators of Pipe    *)
(* written out.                                                             *)
DirSends(d) ==
  ~ended[d] /\ sent'[d] = sent[d] + 1 /\ ended'[d] = ended[d] /\ got'[d] = got[d]
  /\ closed'[d] = closed[d]

DirEnds(d) ==
  ~ended[d] /\ ended'[d] = TRUE /\ sent'[d] = sent[d] /\ got'[d] = got[d]
  /\ closed'[d] = closed[d]

DirDelivers(d) ==
  /\ ~closed[d]
  /\ \E n \in Len(got[d]) + 1 .. sent[d] : got'[d] = [i \in 1 .. n |-> i]
  /\ sent'[d] = sent[d] /\ ended'[d] = ended[d] /\ closed'[d] = closed[d]

DirCloses(d) ==
  /\ ended[d] /\ got[d] = [i \in 1 .. sent[d] |-> i] /\ ~closed[d] /\ closed'[d] = TRUE
  /\ sent'[d] = sent[d] /\ ended'[d] = ended[d] /\ got'[d] = got[d]

DirStays(d) ==
  sent'[d] = sent[d] /\ ended'[d] = ended[d] /\ got'[d] = got[d] /\ closed'[d] = closed[d]

PipeStep(d) == DirSends(d) \/ DirEnds(d) \/ DirDelivers(d) \/ DirCloses(d) \/ DirStays(d)

(* Every step of the relay is a step of Pipe, or none, in each direction.   *)
LEMMA StepsArePipeSteps ==
  ASSUME RelayConstants, RelayInv, [Next]_vars, NEW e \in Dirs
  PROVE  PipeStep(e)
<1>0. \A m \in Nat : Bytes(0, m) = [i \in 1 .. m |-> i] /\ Len(Bytes(0, m)) = m
  BY BytesLen DEF Bytes
<1>1. ASSUME NEW d \in Dirs, PeerSends(d) PROVE PipeStep(e)
  BY <1>1, Zenon DEF PeerSends, RelayInv, Counters, PipeStep, DirSends, DirStays
<1>2. ASSUME NEW d \in Dirs, PeerEnds(d) PROVE PipeStep(e)
  BY <1>2, Zenon DEF PeerEnds, RelayInv, Counters, PipeStep, DirEnds, DirStays
<1>3. ASSUME NEW d \in Dirs, Write(d) PROVE PipeStep(e)
  <2>1. /\ task.at = "write" /\ task.dir = d
        /\ got' = [got EXCEPT ![d] = Append(@, Head(task.left))]
        /\ UNCHANGED <<sent, ended, closed>>
    BY <1>3, Zenon DEF Write, peerVars
  <2>2. CASE e # d
    BY <2>1, <2>2, Zenon DEF RelayInv, Counters, PipeStep, DirStays
  <2>3. CASE e = d
    <3>1. PICK n \in Nat, k \in Nat : InChunk(d, n, k)
      BY <2>1, TaskCases, Zenon
    <3>. DEFINE b == taken[d] - n + k
    <3>2. /\ b \in Nat /\ n - k \in Nat \ {0} /\ b + 1 <= sent[d] /\ sent[d] \in Nat
      BY <3>1 DEF RelayInv, Counters, EndInv, InChunk
    <3>3. task.left = Bytes(b, n - k) /\ got[d] = Bytes(0, b) /\ ~read_done[d]
      <4>1. /\ task = Writing(d, n, Bytes(b, n - k)) /\ got[d] = Bytes(0, b)
            /\ ~read_done[d]
        BY <3>1, Zenon DEF InChunk
      <4>. HIDE DEF b
      <4>2. Writing(d, n, Bytes(b, n - k)).left = Bytes(b, n - k)
        BY Zenon DEF Writing
      <4>. QED BY <4>1, <4>2, Zenon
    <3>4. ~closed[d] /\ DOMAIN got = Dirs
      BY <3>3, Zenon DEF RelayInv, EndInv, Counters
    <3>. HIDE DEF b
    <3>5. Head(task.left) = b + 1
      BY <3>2, <3>3, BytesTail, Zenon
    <3>6. got'[d] = Bytes(0, b + 1)
      <4>1. Append(Bytes(0, b), b + 1) = Bytes(0, b + 1)
        BY <3>2, BytesAppend, Zenon
      <4>. QED BY <2>1, <3>3, <3>4, <3>5, <4>1, Zenon
    <3>7. Len(got[d]) = b
      BY <1>0, <3>2, <3>3, Zenon
    <3>8. got'[d] = [i \in 1 .. b + 1 |-> i] /\ b + 1 \in Len(got[d]) + 1 .. sent[d]
      <4>1. b + 1 \in Nat
        BY <3>2
      <4>2. got'[d] = [i \in 1 .. b + 1 |-> i]
        BY <1>0, <3>6, <4>1, Zenon
      <4>3. b + 1 \in Len(got[d]) + 1 .. sent[d]
        BY <3>2, <3>7
      <4>. QED BY <4>2, <4>3, Zenon
    <3>9. DirDelivers(d)
      BY <2>1, <3>4, <3>8, Zenon DEF DirDelivers
    <3>. QED BY <2>3, <3>9, Zenon DEF PipeStep
  <2>. QED BY <2>2, <2>3, Zenon
<1>4. ASSUME NEW d \in Dirs, Shutdown(d) PROVE PipeStep(e)
  <2>1. /\ task = ShuttingDown(d) /\ closed' = [closed EXCEPT ![d] = TRUE]
        /\ UNCHANGED <<sent, ended, got>>
    BY <1>4, Zenon DEF Shutdown, peerVars
  <2>2. CASE e # d
    BY <2>1, <2>2, Zenon DEF RelayInv, Counters, PipeStep, DirStays
  <2>3. CASE e = d
    <3>1. read_done[d] /\ ~closed[d] /\ Settled(d)
      BY <2>1, TaskCases, Zenon
    <3>2. ended[d] /\ taken[d] = sent[d] /\ sent[d] \in Nat /\ closed'[d] = TRUE
      BY <2>1, <3>1, Zenon DEF RelayInv, EndInv, Counters
    <3>3. got[d] = [i \in 1 .. sent[d] |-> i]
      BY <1>0, <3>1, <3>2, Zenon DEF Settled
    <3>. QED BY <2>1, <2>3, <3>1, <3>2, <3>3, Zenon DEF PipeStep, DirCloses
  <2>. QED BY <2>2, <2>3, Zenon
<1>5. ASSUME \/ ReturnOk \/ IdleFires \/ LifetimeFires \/ IoError \/ Tick \/ UNCHANGED vars
             \/ \E d \in Dirs : PeerDrains(d) \/ Read(d) \/ ReadEof(d)
      PROVE  PipeStep(e)
  <2>1. UNCHANGED <<sent, ended, got, closed>>
    <3>1. ASSUME NEW d \in Dirs, PeerDrains(d) \/ Read(d) \/ ReadEof(d)
          PROVE  UNCHANGED <<sent, ended, got, closed>>
      BY <3>1, Zenon DEF PeerDrains, Read, ReadEof, peerVars
    <3>2. CASE ReturnOk \/ IdleFires \/ LifetimeFires \/ IoError
      BY <3>2, Zenon DEF ReturnOk, IdleFires, LifetimeFires, IoError, Returns, peerVars
    <3>3. CASE Tick \/ UNCHANGED vars
      BY <3>3, Zenon DEF Tick, vars, peerVars
    <3>. QED BY <1>5, <3>1, <3>2, <3>3, Zenon
  <2>. QED BY <2>1, Zenon DEF PipeStep, DirStays
<1>. QED BY <1>1, <1>2, <1>3, <1>4, <1>5, Zenon DEF Next

(* Each direction of copy_bidirectional_with_limits is a Pipe.              *)
THEOREM RelayImplementsPipes ==
  ASSUME RelayConstants
  PROVE  Spec => ImplementsPipes
<1>. USE DEF Dirs
<1>1. ASSUME Init PROVE AToB!PipeInit /\ BToA!PipeInit
  BY <1>1, Zenon DEF Init, AToB!PipeInit, BToA!PipeInit
<1>2. ASSUME RelayInv, [Next]_vars PROVE [AToB!PipeNext]_AToB!pipeVars
  <2>1. PipeStep("a")
    BY <1>2, StepsArePipeSteps, Zenon
  <2>. QED
    BY <2>1, Zenon DEF PipeStep, DirSends, DirEnds, DirDelivers, DirCloses, DirStays,
       AToB!PipeNext, AToB!pipeVars, AToB!Send, AToB!End, AToB!Deliver, AToB!Close,
       AToB!First
<1>3. ASSUME RelayInv, [Next]_vars PROVE [BToA!PipeNext]_BToA!pipeVars
  <2>1. PipeStep("b")
    BY <1>3, StepsArePipeSteps, Zenon
  <2>. QED
    BY <2>1, Zenon DEF PipeStep, DirSends, DirEnds, DirDelivers, DirCloses, DirStays,
       BToA!PipeNext, BToA!pipeVars, BToA!Send, BToA!End, BToA!Deliver, BToA!Close,
       BToA!First
<1>. QED
  BY <1>1, <1>2, <1>3, RelayInitially, RelayInductive, PTL
     DEF Spec, ImplementsPipes, AToB!PipeSpec, BToA!PipeSpec
=============================================================================
