------------------------------ MODULE Downlink ------------------------------
(***************************************************************************)
(* The downlink of an XHTTP session (xhttp/common.rs): the relay's task    *)
(* writes chunks through ChannelWriter into a bounded channel, and the     *)
(* HTTP task sends what it finds there as the response body (MpscBody).    *)
(* The two run on different threads, so the body may take chunks or be     *)
(* dropped between two accesses of the writer to the channel.              *)
(***************************************************************************)
EXTENDS Naturals, Sequences

CONSTANTS
  Capacity,   \* places of the channel (64 in the code)
  MaxChunks   \* bound of the model: chunks the relay writes

VARIABLES
  queue,     \* the channel, a sequence of chunk numbers
  body,      \* "open", or "dropped" with its receiver
  pending,   \* what ChannelWriter keeps for later, empty or one chunk
  caller,    \* what the relay's task is doing with the writer
  accepted,  \* chunks that poll_write reported as written
  last,      \* the chunk last sent in the response body
  stalled,   \* history: poll_write met a full channel
  repeated   \* history: the body sent a chunk a second time

vars == <<queue, body, pending, caller, accepted, last, stalled, repeated>>

Init ==
  /\ queue = <<>> /\ body = "open" /\ pending = <<>>
  /\ caller = "between" /\ accepted = 0 /\ last = 0
  /\ stalled = FALSE /\ repeated = FALSE

(* The relay has a chunk for the client, the first of its polls begins. *)
WriteBegins ==
  /\ caller = "between" /\ accepted < MaxChunks
  /\ caller' = IF pending = <<>> THEN "send" ELSE "flush"
  /\ UNCHANGED <<queue, body, pending, accepted, last, stalled, repeated>>

(* The relay ends the stream: poll_shutdown flushes. *)
ShutdownBegins ==
  /\ caller = "between"
  /\ caller' = "shutdown"
  /\ UNCHANGED <<queue, body, pending, accepted, last, stalled, repeated>>

HasRoom == body = "open" /\ Len(queue) < Capacity

(* poll_flush: what is pending enters the channel when it has room. *)
FlushPending(next) ==
  /\ pending = <<>> \/ HasRoom
  /\ queue' = queue \o pending
  /\ pending' = <<>>
  /\ caller' = next
  /\ UNCHANGED <<body, accepted, last, stalled, repeated>>

PollFlush == caller = "flush" /\ FlushPending("send")

PollShutdown == caller = "shutdown" /\ FlushPending("closed")

(* Mutant: a chunk that met a full channel is reported as written. *)
PollSend_ReportsFull ==
  /\ caller = "send" /\ body = "open"
  /\ IF HasRoom
     THEN /\ queue' = Append(queue, accepted + 1)
          /\ UNCHANGED <<pending, stalled>>
     ELSE /\ pending' = <<>> /\ stalled' = TRUE
          /\ UNCHANGED queue
  /\ accepted' = accepted + 1 /\ caller' = "between"
  /\ UNCHANGED <<body, last, repeated>>

(* Mutant: the chunk stays pending although it was written. *)
PollSend_KeepsCopy ==
  /\ caller = "send" /\ HasRoom
  /\ queue' = Append(queue, accepted + 1)
  /\ pending' = <<accepted + 1>>
  /\ accepted' = accepted + 1 /\ caller' = "between"
  /\ UNCHANGED <<body, last, stalled, repeated>>

(* try_send of the chunk.  With room it is written.  Without, a copy of it  *)
(* becomes pending and the poll returns Pending, so that the caller polls   *)
(* again with the same chunk.                                               *)
PollSend ==
  /\ caller = "send" /\ body = "open"
  /\ IF HasRoom
     THEN /\ queue' = Append(queue, accepted + 1)
          /\ accepted' = accepted + 1 /\ caller' = "between"
          /\ UNCHANGED <<pending, stalled>>
     ELSE /\ pending' = <<accepted + 1>> /\ caller' = "flush"
          /\ stalled' = TRUE
          /\ UNCHANGED <<queue, accepted>>
  /\ UNCHANGED <<body, last, repeated>>

(* The channel is closed: the write fails with BrokenPipe. *)
WriteFails ==
  /\ body = "dropped"
  /\ caller = "send" \/ (caller \in {"flush", "shutdown"} /\ pending # <<>>)
  /\ caller' = "failed"
  /\ UNCHANGED <<queue, body, pending, accepted, last, stalled, repeated>>

(* The HTTP task takes a chunk for the response body. *)
PollFrame ==
  /\ body = "open" /\ queue # <<>>
  /\ last' = Head(queue) /\ queue' = Tail(queue)
  /\ repeated' = (repeated \/ last = Head(queue))
  /\ UNCHANGED <<body, pending, caller, accepted, stalled>>

(* The HTTP task ends: the client is gone. *)
BodyDropped ==
  /\ body = "open"
  /\ body' = "dropped" /\ queue' = <<>>
  /\ UNCHANGED <<pending, caller, accepted, last, stalled, repeated>>

Next ==
  \/ WriteBegins \/ ShutdownBegins
  \/ PollFlush \/ PollShutdown \/ PollSend \/ WriteFails
  \/ PollFrame \/ BodyDropped

Spec == Init /\ [][Next]_vars

(* Both tasks run; a poll that returned Pending is repeated because the     *)
(* writer wakes its own task.  The client may stop reading, though: nothing *)
(* makes the HTTP task take chunks unless ReadingClient is assumed.         *)
Fairness == WF_vars(PollFlush) /\ WF_vars(PollShutdown) /\ WF_vars(PollSend) /\ WF_vars(WriteFails)

ReadingClient == WF_vars(PollFrame)

FairSpec == Spec /\ Fairness /\ ReadingClient

-----------------------------------------------------------------------------
(* The last chunk the body has sent and those it will send. *)
Stream == <<last>> \o queue

(* Type correctness; the channel never holds more than its capacity. *)
TypeOK ==
  /\ Len(queue) <= Capacity
  /\ body \in {"open", "dropped"}
  /\ Len(pending) <= 1
  /\ caller \in {"between", "flush", "send", "shutdown", "closed", "failed"}
  /\ accepted \in 0 .. MaxChunks /\ last \in 0 .. MaxChunks

(* Whatever the back-pressure, the client sees the chunks in order and none *)
(* is left out: each is the next one or the same again, and while the body  *)
(* lives the newest chunk reported as written is on its way.                *)
NoChunkSkipped ==
  /\ \A i \in 1 .. Len(Stream) - 1 : Stream[i + 1] \in {Stream[i], Stream[i] + 1}
  /\ body = "open" => Stream[Len(Stream)] >= accepted

(* Without back-pressure the client sees each chunk once. *)
ExactUnlessStalled == repeated => stalled

(* common.rs:80: ChannelWriter writes the downlink into the response body,  *)
(* the chunks of the relay and nothing else.                                *)
DownlinkExact == ~repeated

(* A chunk reported as written is sent to a client that goes on reading. *)
AcceptedIsSent ==
  \A n \in 1 .. MaxChunks : accepted >= n ~> (last >= n \/ body = "dropped")
=============================================================================
