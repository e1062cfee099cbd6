-------------------------------- MODULE Relay --------------------------------
(***************************************************************************)
(* The two-way relay with an idle timeout and a maximal session lifetime   *)
(* (relay.rs, copy_bidirectional_with_limits).  One task does everything:  *)
(* it waits in select for a readable side or a deadline, and once it has   *)
(* read a chunk it writes all of it before it looks at anything else.      *)
(* Each direction implements Pipe.                                         *)
(***************************************************************************)
EXTENDS Naturals, Sequences

CONSTANTS
  Limits,    \* which of "idle" and "lifetime" are configured
  Idle,      \* idle_timeout_secs
  Lifetime,  \* max_session_lifetime_secs
  BufSize,   \* bytes of one read
  Room,      \* bytes a peer's socket takes before the peer reads
  MaxBytes,  \* bound of the model: bytes a peer sends
  MaxTime    \* bound of the model: the clock stops here

(* The two directions, named after their source. *)
Dirs == {"a", "b"}

VARIABLES
  sent, ended, got, closed,  \* each direction as a Pipe
  drained,    \* bytes of each direction that the receiving peer has read
  taken,      \* bytes of each direction that the relay has read
  read_done,  \* a_read_done and b_read_done
  count,      \* a_to_b and b_to_a
  task,       \* where the relay's task is
  idle_deadline,
  now,
  lastByte,   \* history: when a byte was last moved
  result      \* what the relay returned

peerVars == <<sent, ended, drained>>
vars == <<sent, ended, got, closed, drained, taken, read_done, count, task,
          idle_deadline, now, lastByte, result>>

Selecting == [at |-> "select"]

(* In write_all of the bytes left, out of a chunk of n bytes, or in the     *)
(* shutdown of the side that d leads to.                                    *)
Writing(d, n, left) == [at |-> "write", dir |-> d, n |-> n, left |-> left]

ShuttingDown(d) == [at |-> "shutdown", dir |-> d]

Init ==
  /\ sent = [d \in Dirs |-> 0] /\ ended = [d \in Dirs |-> FALSE]
  /\ got = [d \in Dirs |-> <<>>] /\ closed = [d \in Dirs |-> FALSE]
  /\ drained = [d \in Dirs |-> 0]
  /\ taken = [d \in Dirs |-> 0]
  /\ read_done = [d \in Dirs |-> FALSE]
  /\ count = [d \in Dirs |-> 0]
  /\ task = Selecting
  /\ idle_deadline = Idle
  /\ now = 0 /\ lastByte = 0
  /\ result = "none"

-----------------------------------------------------------------------------
(* The peers: they send, close their side and read as they please. *)
PeerSends(d) ==
  /\ ~ended[d] /\ sent[d] < MaxBytes
  /\ sent' = [sent EXCEPT ![d] = @ + 1]
  /\ UNCHANGED <<ended, got, closed, drained, taken, read_done, count, task,
                 idle_deadline, now, lastByte, result>>

PeerEnds(d) ==
  /\ ~ended[d]
  /\ ended' = [ended EXCEPT ![d] = TRUE]
  /\ UNCHANGED <<sent, got, closed, drained, taken, read_done, count, task,
                 idle_deadline, now, lastByte, result>>

PeerDrains(d) ==
  /\ drained[d] < Len(got[d])
  /\ drained' = [drained EXCEPT ![d] = @ + 1]
  /\ UNCHANGED <<sent, ended, got, closed, taken, read_done, count, task,
                 idle_deadline, now, lastByte, result>>

Tick ==
  /\ now < MaxTime
  /\ now' = now + 1
  /\ UNCHANGED <<peerVars, got, closed, taken, read_done, count, task,
                 idle_deadline, lastByte, result>>

-----------------------------------------------------------------------------
(* The task waits in select: at the top of the loop it returns once both    *)
(* sides have ended.                                                        *)
InSelect == result = "none" /\ task = Selecting /\ \E d \in Dirs : ~read_done[d]

(* A read returns the next n bytes of a side. *)
Read(d) ==
  /\ InSelect /\ ~read_done[d]
  /\ \E n \in 1 .. BufSize :
       /\ taken[d] + n <= sent[d]
       /\ taken' = [taken EXCEPT ![d] = @ + n]
       /\ task' = Writing(d, n, [i \in 1 .. n |-> taken[d] + i])
  /\ UNCHANGED <<peerVars, got, closed, read_done, count, idle_deadline, now,
                 lastByte, result>>

(* A read returns zero: the side has ended, the other one is shut down. *)
ReadEof(d) ==
  /\ InSelect /\ ~read_done[d]
  /\ ended[d] /\ taken[d] = sent[d]
  /\ read_done' = [read_done EXCEPT ![d] = TRUE]
  /\ task' = ShuttingDown(d)
  /\ UNCHANGED <<peerVars, got, closed, taken, count, idle_deadline, now,
                 lastByte, result>>

(* Mutant: write instead of write_all, the rest of the chunk is dropped. *)
Write_NotAll(d) ==
  /\ result = "none" /\ task.at = "write" /\ task.dir = d
  /\ Len(got[d]) - drained[d] < Room
  /\ got' = [got EXCEPT ![d] = Append(@, Head(task.left))]
  /\ lastByte' = now
  /\ task' = Selecting
  /\ count' = [count EXCEPT ![d] = @ + 1]
  /\ idle_deadline' = IF "idle" \in Limits THEN now + Idle ELSE idle_deadline
  /\ UNCHANGED <<peerVars, closed, taken, read_done, now, result>>

(* Mutant: only one direction resets the idle deadline. *)
Write_OneWayIdle(d) ==
  /\ result = "none" /\ task.at = "write" /\ task.dir = d
  /\ Len(got[d]) - drained[d] < Room
  /\ got' = [got EXCEPT ![d] = Append(@, Head(task.left))]
  /\ lastByte' = now
  /\ IF Len(task.left) > 1
     THEN /\ task' = Writing(d, task.n, Tail(task.left))
          /\ UNCHANGED <<count, idle_deadline>>
     ELSE /\ task' = Selecting
          /\ count' = [count EXCEPT ![d] = @ + task.n]
          /\ idle_deadline' = IF "idle" \in Limits /\ d = "a" THEN now + Idle ELSE idle_deadline
  /\ UNCHANGED <<peerVars, closed, taken, read_done, now, result>>

(* write_all moves a byte into a socket with room; after the last one the   *)
(* chunk is counted and the idle deadline starts again.                     *)
Write(d) ==
  /\ result = "none" /\ task.at = "write" /\ task.dir = d
  /\ Len(got[d]) - drained[d] < Room
  /\ got' = [got EXCEPT ![d] = Append(@, Head(task.left))]
  /\ lastByte' = now
  /\ IF Len(task.left) > 1
     THEN /\ task' = Writing(d, task.n, Tail(task.left))
          /\ UNCHANGED <<count, idle_deadline>>
     ELSE /\ task' = Selecting
          /\ count' = [count EXCEPT ![d] = @ + task.n]
          /\ idle_deadline' = IF "idle" \in Limits THEN now + Idle ELSE idle_deadline
  /\ UNCHANGED <<peerVars, closed, taken, read_done, now, result>>

Shutdown(d) ==
  /\ result = "none" /\ task = ShuttingDown(d)
  /\ closed' = [closed EXCEPT ![d] = TRUE]
  /\ task' = Selecting
  /\ UNCHANGED <<peerVars, got, taken, read_done, count, idle_deadline, now,
                 lastByte, result>>

Returns(r) ==
  /\ result' = r
  /\ UNCHANGED <<peerVars, got, closed, taken, read_done, count, task,
                 idle_deadline, now, lastByte>>

ReturnOk ==
  /\ result = "none" /\ task = Selecting /\ \A d \in Dirs : read_done[d]
  /\ Returns("ok")

IdleFires ==
  /\ "idle" \in Limits
  /\ InSelect /\ now >= idle_deadline
  /\ Returns("idle")

(* Mutant: a half-closed session has no lifetime. *)
LifetimeFires_BothOpen ==
  /\ "lifetime" \in Limits
  /\ InSelect /\ now >= Lifetime /\ \A d \in Dirs : ~read_done[d]
  /\ Returns("lifetime")

LifetimeFires ==
  /\ "lifetime" \in Limits
  /\ InSelect /\ now >= Lifetime
  /\ Returns("lifetime")

(* A read, a write or a shutdown fails. *)
IoError ==
  /\ result = "none"
  /\ InSelect \/ task # Selecting
  /\ Returns("error")

Next ==
  \/ \E d \in Dirs : \/ PeerSends(d) \/ PeerEnds(d) \/ PeerDrains(d)
                     \/ Read(d) \/ ReadEof(d) \/ Write(d) \/ Shutdown(d)
  \/ ReturnOk \/ IdleFires \/ LifetimeFires \/ IoError \/ Tick

Spec == Init /\ [][Next]_vars

-----------------------------------------------------------------------------
(* Type correctness of the relay's own state. *)
TypeOK ==
  /\ taken \in [Dirs -> 0 .. MaxBytes]
  /\ count \in [Dirs -> 0 .. MaxBytes]
  /\ read_done \in [Dirs -> BOOLEAN]
  /\ \/ task = Selecting
     \/ \E d \in Dirs : task = ShuttingDown(d)
     \/ \E d \in Dirs, n \in 1 .. BufSize :
          /\ task.at = "write" /\ task.dir = d /\ task.n = n
          /\ Len(task.left) \in 1 .. n
  /\ result \in {"none", "ok", "idle", "lifetime", "error"}

AToB == INSTANCE Pipe WITH
  sent <- sent["a"], ended <- ended["a"], got <- got["a"], closed <- closed["a"]

BToA == INSTANCE Pipe WITH
  sent <- sent["b"], ended <- ended["b"], got <- got["b"], closed <- closed["b"]

(* Each direction of the relay is a pipe: whatever the chunks, the partial  *)
(* writes and the order in which the two sides are served, bytes arrive in  *)
(* order and completely before their end of stream.                         *)
ImplementsPipes == AToB!PipeSpec /\ BToA!PipeSpec

(* The totals the metrics get are the bytes moved: of a direction in use    *)
(* they lack only the chunk being written, and a normal end means that all  *)
(* either side sent was delivered and counted.                              *)
CountsAreExact ==
  /\ \A d \in Dirs : count[d] <= Len(got[d])
  /\ task = Selecting => \A d \in Dirs : count[d] = Len(got[d])
  /\ result = "ok" => \A d \in Dirs : count[d] = sent[d] /\ closed[d]

(* docs/CONFIGURATION.md:157: the idle timeout counts from the last byte    *)
(* moved in either direction.                                               *)
IdleOnlyWhenIdle == [][result' = "idle" => now - lastByte >= Idle]_vars
=============================================================================
