---------------------------- MODULE XhttpClient ----------------------------
(***************************************************************************)
(* The client side of XHTTP (xhttp/client.rs): the requests that open a    *)
(* tunnel in each mode, and the uplink of packet-up, where every write     *)
(* becomes a POST with a number of its own.  PacketUpWriter hands writes   *)
(* to the worker through a bounded channel; the worker posts one at a time *)
(* and gives up at the first POST that fails.  Bytes are known by their    *)
(* position.  The body of the other modes is in Chunked.                   *)
(***************************************************************************)
EXTENDS Naturals, Sequences

CONSTANTS
  ChannelSize,  \* places between writer and worker (64 in the code)
  MaxUp         \* bound: bytes the caller has to send

VARIABLES
  xmode,      \* XhttpClientConfig.mode
  steps,      \* what is left to do to open the tunnel
  tunnel,     \* "opening", "open" or "failed"
  caller,     \* "writing", "closed", or "broken" after an error
  buffer,     \* bytes in the buffer the caller polls with
  kept,       \* PacketUpWriter.pending, its length
  reported,   \* bytes poll_write has reported as written
  channel,    \* payloads, as [from, to]
  worker,     \* "none", "waiting", "posting" or "ended"
  posting,    \* the payload that is being posted, in a sequence
  number,     \* seq of the next POST
  posts,      \* what has reached the server, in order: [seq, from, to]
  failed      \* a POST has failed

xcVars == <<xmode, steps, tunnel, caller, buffer, kept, reported, channel,
            worker, posting, number, posts, failed>>

resolved_mode == IF xmode = "auto" THEN "stream-one" ELSE xmode

connect_stream_one == <<"dial", "POST">>
connect_stream_up == <<"dial", "dial", "GET", "POST">>
connect_packet_up == <<"dial", "GET">>

connect_xhttp(m) ==
  CASE m = "stream-one" -> connect_stream_one
    [] m = "stream-up" -> connect_stream_up
    [] m = "packet-up" -> connect_packet_up

XcInit ==
  /\ xmode \in {"auto", "stream-one", "stream-up", "packet-up"}
  /\ steps = connect_xhttp(resolved_mode)
  /\ tunnel = "opening"
  /\ caller = "writing"
  /\ buffer = 0 /\ kept = 0 /\ reported = 0
  /\ channel = <<>>
  /\ worker = "none"
  /\ posting = <<>>
  /\ number = 0
  /\ posts = <<>>
  /\ failed = FALSE

(* A dial, or a request that is answered with 200; the worker of packet-up *)
(* starts after the last one.                                              *)
ConnectStep ==
  /\ tunnel = "opening"
  /\ \/ /\ steps' = Tail(steps)
        /\ tunnel' = IF Len(steps) = 1 THEN "open" ELSE tunnel
        /\ worker' = IF Len(steps) = 1 /\ resolved_mode = "packet-up" THEN "waiting" ELSE worker
     \/ tunnel' = "failed" /\ UNCHANGED <<steps, worker>>
  /\ UNCHANGED <<xmode, caller, buffer, kept, reported, channel, posting, number, posts, failed>>

Writing == worker # "none" /\ caller = "writing"

(* The caller reads more into its buffer, also while a poll is pending. *)
TopUp ==
  /\ Writing
  /\ reported + buffer < MaxUp
  /\ buffer' = buffer + 1
  /\ UNCHANGED <<xmode, steps, tunnel, caller, kept, reported, channel, worker, posting, number, posts, failed>>

(* Mutant: the length reported is that of the buffer, not of the payload. *)
PacketPollWrite_WholeBuffer ==
  /\ Writing /\ buffer > 0
  /\ LET n == IF kept = 0 THEN buffer ELSE kept IN
     \/ worker = "ended" /\ caller' = "broken" /\ UNCHANGED <<kept, channel, reported, buffer>>
     \/ /\ worker # "ended" /\ Len(channel) = ChannelSize
        /\ kept' = n
        /\ UNCHANGED <<caller, channel, reported, buffer>>
     \/ /\ worker # "ended" /\ Len(channel) < ChannelSize
        /\ channel' = Append(channel, [from |-> reported + 1, to |-> reported + n])
        /\ reported' = reported + buffer /\ buffer' = 0
        /\ kept' = 0
        /\ UNCHANGED caller
  /\ UNCHANGED <<xmode, steps, tunnel, worker, posting, number, posts, failed>>

(* The payload is what the first poll was given, even if the buffer has    *)
(* grown since.                                                            *)
PacketPollWrite ==
  /\ Writing /\ buffer > 0
  /\ LET n == IF kept = 0 THEN buffer ELSE kept IN
     \/ worker = "ended" /\ caller' = "broken" /\ UNCHANGED <<kept, channel, reported, buffer>>
     \/ /\ worker # "ended" /\ Len(channel) = ChannelSize
        /\ kept' = n
        /\ UNCHANGED <<caller, channel, reported, buffer>>
     \/ /\ worker # "ended" /\ Len(channel) < ChannelSize
        /\ channel' = Append(channel, [from |-> reported + 1, to |-> reported + n])
        /\ reported' = reported + n /\ buffer' = buffer - n
        /\ kept' = 0
        /\ UNCHANGED caller
  /\ UNCHANGED <<xmode, steps, tunnel, worker, posting, number, posts, failed>>

(* poll_shutdown does nothing; the drop of the writer closes the channel.  *)
DropWriter ==
  /\ Writing
  /\ caller' = "closed"
  /\ UNCHANGED <<xmode, steps, tunnel, buffer, kept, reported, channel, worker, posting, number, posts, failed>>

WorkerTakes ==
  /\ worker = "waiting" /\ channel # <<>>
  /\ posting' = <<[from |-> Head(channel).from, to |-> Head(channel).to, seq |-> number]>>
  /\ channel' = Tail(channel)
  /\ number' = number + 1
  /\ worker' = "posting"
  /\ UNCHANGED <<xmode, steps, tunnel, caller, buffer, kept, reported, posts, failed>>

(* The POST succeeds; or it fails, before or after the server had it. *)
WorkerPosted ==
  /\ worker = "posting"
  /\ posting' = <<>>
  /\ \/ posts' = posts \o posting /\ worker' = "waiting" /\ UNCHANGED <<failed, channel>>
     \/ /\ posts' \in {posts, posts \o posting}
        /\ worker' = "ended" /\ failed' = TRUE
        /\ channel' = <<>>
  /\ UNCHANGED <<xmode, steps, tunnel, caller, buffer, kept, reported, number>>

WorkerEnds ==
  /\ worker = "waiting" /\ channel = <<>> /\ caller # "writing"
  /\ worker' = "ended"
  /\ UNCHANGED <<xmode, steps, tunnel, caller, buffer, kept, reported, channel, posting, number, posts, failed>>

XcNext ==
  \/ ConnectStep
  \/ TopUp \/ PacketPollWrite \/ DropWriter
  \/ WorkerTakes \/ WorkerPosted \/ WorkerEnds

XcSpec == XcInit /\ [][XcNext]_xcVars

(* The bytes of consecutive payloads follow each other from the first on. *)
Contiguous(ps) ==
  \A i \in DOMAIN ps : ps[i].from = IF i = 1 THEN 1 ELSE ps[i - 1].to + 1

(***************************************************************************)
(* What the server gets is a prefix of what was written, numbered from 0   *)
(* without a gap, whatever the back-pressure and however the caller's      *)
(* buffer grows between two polls (PacketUpWriter::poll_write).  All that  *)
(* was reported as written is posted or still on its way until a POST      *)
(* fails; only then is the caller told of an error.                        *)
(***************************************************************************)
PostsCarryTheWrites ==
  LET all == posts \o posting \o channel IN
  /\ Contiguous(posts)
  /\ \A i \in DOMAIN posts : posts[i].seq = i - 1
  /\ ~failed => Contiguous(all) /\ reported = (IF all = <<>> THEN 0 ELSE all[Len(all)].to)
  /\ caller = "broken" => failed
  /\ worker = "ended" /\ ~failed => Len(posts) = number /\ caller = "closed"
=============================================================================
