------------------------------ MODULE PacketUp ------------------------------
(***************************************************************************)
(* The uplink of one XHTTP packet-up session on the server (session.rs,    *)
(* handle_packet_up): POSTs that carry numbered payloads arrive in any     *)
(* order on connections of their own, push_packet puts them back in order  *)
(* and try_sends them into a bounded queue, and the session that owns the  *)
(* GET reads the queue.  A payload is named by its number.  push holds the *)
(* mutex of PacketState while it drains; the reader does not need it and   *)
(* takes chunks out in between.                                            *)
(***************************************************************************)
EXTENDS Naturals, Sequences

CONSTANTS
  Packets,    \* the client sends the payloads 0 .. Packets - 1
  MaxCopies,  \* bound of the model: POSTs per payload, retries included
  QueueSize   \* UPLOAD_QUEUE_SIZE

ASSUME PacketUpAssumption ==
  Packets \in Nat \ {0} /\ MaxCopies \in Nat \ {0} /\ QueueSize \in Nat \ {0}

VARIABLES
  copies,     \* POSTs of each payload that may still arrive
  next_seq,   \* PacketState.next_seq
  pending,    \* PacketState.pending: numbers received ahead of next_seq
  draining,   \* a push holds the mutex and is draining pending
  queue,      \* the mpsc channel upload_tx -> upload_rx
  rx,         \* "held" by the session, "taken" by a GET, "closed" after it
  delivered,  \* history: payloads the session behind the GET has read
  overflowed  \* history: a try_send found the queue full

vars == <<copies, next_seq, pending, draining, queue, rx, delivered, overflowed>>

Seqs == 0 .. Packets - 1

Init ==
  /\ copies = [n \in Seqs |-> MaxCopies]
  /\ next_seq = 0
  /\ pending = {}
  /\ draining = FALSE
  /\ queue = <<>>
  /\ rx = "held"
  /\ delivered = <<>>
  /\ overflowed = FALSE

(* A POST with payload n is complete and calls push_packet.  A number that  *)
(* was passed before is ignored; any other is (re)inserted and the drain    *)
(* begins.                                                                  *)
Push(n) ==
  /\ ~draining
  /\ copies[n] > 0
  /\ copies' = [copies EXCEPT ![n] = @ - 1]
  /\ IF n < next_seq
     THEN UNCHANGED <<pending, draining>>
     ELSE pending' = pending \cup {n} /\ draining' = TRUE
  /\ UNCHANGED <<next_seq, queue, rx, delivered, overflowed>>

(* A POST never arrives: its connection broke or was refused. *)
LosePost(n) ==
  /\ copies[n] > 0
  /\ copies' = [copies EXCEPT ![n] = @ - 1]
  /\ UNCHANGED <<next_seq, pending, draining, queue, rx, delivered, overflowed>>

(* Mutant: the drain takes a number that is only near the front. *)
Drain_Skip ==
  /\ draining
  /\ \E n \in pending : next_seq <= n /\ n <= next_seq + 1
       /\ pending' = pending \ {n}
       /\ next_seq' = next_seq + 1
       /\ queue' = IF rx # "closed" /\ Len(queue) < QueueSize
                   THEN Append(queue, n) ELSE queue
  /\ overflowed' = (overflowed \/ (rx # "closed" /\ Len(queue) = QueueSize))
  /\ UNCHANGED <<copies, draining, rx, delivered>>

(* Mutant: the counter does not advance with the drain. *)
Drain_NoAdvance ==
  /\ draining /\ next_seq \in pending
  /\ pending' = pending \ {next_seq}
  /\ next_seq' = next_seq
  /\ queue' = IF rx # "closed" /\ Len(queue) < QueueSize
              THEN Append(queue, next_seq) ELSE queue
  /\ overflowed' = (overflowed \/ (rx # "closed" /\ Len(queue) = QueueSize))
  /\ UNCHANGED <<copies, draining, rx, delivered>>

(* Mutant: the channel exists only once the GET is there. *)
Drain_NeedsReader ==
  /\ draining /\ next_seq \in pending
  /\ pending' = pending \ {next_seq}
  /\ next_seq' = next_seq + 1
  /\ queue' = IF rx = "taken" /\ Len(queue) < QueueSize
              THEN Append(queue, next_seq) ELSE queue
  /\ overflowed' = (overflowed \/ (rx = "taken" /\ Len(queue) = QueueSize))
  /\ UNCHANGED <<copies, draining, rx, delivered>>

(* One turn of the drain loop: next_seq advances whether or not try_send    *)
(* found room, and its error is ignored.                                    *)
Drain ==
  /\ draining /\ next_seq \in pending
  /\ pending' = pending \ {next_seq}
  /\ next_seq' = next_seq + 1
  /\ queue' = IF rx # "closed" /\ Len(queue) < QueueSize
              THEN Append(queue, next_seq) ELSE queue
  /\ overflowed' = (overflowed \/ (rx # "closed" /\ Len(queue) = QueueSize))
  /\ UNCHANGED <<copies, draining, rx, delivered>>

(* Mutant: push drains one payload at most. *)
DrainEnds_Early ==
  /\ draining
  /\ draining' = FALSE
  /\ UNCHANGED <<copies, next_seq, pending, queue, rx, delivered, overflowed>>

(* The map does not hold next_seq: push returns and unlocks. *)
DrainEnds ==
  /\ draining /\ next_seq \notin pending
  /\ draining' = FALSE
  /\ UNCHANGED <<copies, next_seq, pending, queue, rx, delivered, overflowed>>

(* The GET of the session takes the receiver; it may come after POSTs. *)
TakeUploadRx ==
  /\ rx = "held"
  /\ rx' = "taken"
  /\ UNCHANGED <<copies, next_seq, pending, draining, queue, delivered, overflowed>>

(* UploadReader hands the next chunk to the session. *)
Read ==
  /\ rx = "taken" /\ queue # <<>>
  /\ delivered' = Append(delivered, Head(queue))
  /\ queue' = Tail(queue)
  /\ UNCHANGED <<copies, next_seq, pending, draining, rx, overflowed>>

(* The session ends and drops the receiver with what it holds. *)
DropRx ==
  /\ rx = "taken"
  /\ rx' = "closed"
  /\ queue' = <<>>
  /\ UNCHANGED <<copies, next_seq, pending, draining, delivered, overflowed>>

Next ==
  \/ \E n \in Seqs : Push(n) \/ LosePost(n)
  \/ Drain \/ DrainEnds
  \/ TakeUploadRx \/ Read \/ DropRx

Spec == Init /\ [][Next]_vars

(* The push under way finishes and a session that stays reads on; nothing   *)
(* is assumed about the client's POSTs and its GET.                         *)
Fairness == WF_vars(Drain) /\ WF_vars(DrainEnds) /\ WF_vars(Read)

FairSpec == Spec /\ Fairness

-----------------------------------------------------------------------------
(* What the session has read and what waits for it, in order. *)
Uplink == delivered \o queue

(* Type correctness of the reassembly state and of the queue. *)
TypeOK ==
  /\ copies \in [Seqs -> 0 .. MaxCopies]
  /\ next_seq \in 0 .. Packets
  /\ pending \in SUBSET Seqs
  /\ draining \in BOOLEAN
  /\ queue \in Seq(Seqs) /\ Len(queue) <= QueueSize
  /\ rx \in {"held", "taken", "closed"}
  /\ delivered \in Seq(Seqs)
  /\ overflowed \in BOOLEAN

(* However the POSTs are ordered, repeated or lost, and whenever the reader *)
(* comes, the session never reads a payload twice or after a later one, and *)
(* only payloads the reassembly has passed.                                 *)
UplinkOrdered ==
  /\ \A i, j \in 1 .. Len(Uplink) : i < j => Uplink[i] < Uplink[j]
  /\ \A i \in 1 .. Len(Uplink) : Uplink[i] < next_seq

(* As long as the queue never was full, the session reads the payloads      *)
(* without a gap: those passed are 0, 1, ... up to next_seq.                *)
GapOnlyByOverflow ==
  ~overflowed =>
    /\ \A i \in 1 .. Len(Uplink) : Uplink[i] = i - 1
    /\ rx # "closed" => Len(Uplink) = next_seq

(* Nothing waits in the map that could be passed on, except inside a push.  *)
NoneHeldBack == ~draining => \A n \in pending : n > next_seq

(* The server gives the payloads to the session in the order of seq, none   *)
(* left out: what docs/CONFIGURATION.md:421-422 says of packet-up.          *)
(* The code refutes it when the queue overflows: see README.                *)
UplinkComplete == \A i \in 1 .. Len(Uplink) : Uplink[i] = i - 1

(* A payload that was passed on without an overflow reaches a session that  *)
(* goes on reading.                                                         *)
PassedIsRead ==
  \A n \in Seqs : (n < next_seq /\ rx = "taken")
                    ~> (overflowed \/ rx = "closed" \/ Len(delivered) > n)
=============================================================================
