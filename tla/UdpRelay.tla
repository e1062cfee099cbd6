------------------------------ MODULE UdpRelay ------------------------------
(***************************************************************************)
(* The relay of a VLESS UDP session (udp.rs, relay_vless_udp_with_limits). *)
(* The client's side is a byte stream of frames, a two-byte length and a   *)
(* payload; the other side is a connected UDP socket.  One task selects    *)
(* among the deadlines, the read of a whole frame and a datagram.  When a  *)
(* datagram wins, the half-read frame is dropped with its future, and the  *)
(* next read begins in the middle of it.                                   *)
(***************************************************************************)
EXTENDS Naturals, Sequences

CONSTANTS
  Frames,        \* bound of the model: frames the client sends
  MaxDatagrams,  \* bound of the model: datagrams that come from upstream
  MaxLen         \* bound of the model: lengths a misread header can show

VARIABLES
  arrived,   \* bytes of the client's stream that have arrived
  eof,       \* the client has closed its side
  pos,       \* bytes the relay has read
  reading,   \* the bytes of the read that is under way
  want,      \* the payload length it has decoded, or Unknown
  out,       \* datagrams sent upstream, each a sequence of bytes
  down,      \* datagrams that came from upstream
  back,      \* those written to the client as frames
  cut,       \* history: a read was dropped after its first byte
  result

vars == <<arrived, eof, pos, reading, want, out, down, back, cut, result>>

(* A frame is two bytes of length and, here, one byte of payload. *)
FrameLen == 3

Byte(i) == [frame |-> (i - 1) \div FrameLen + 1, part |-> (i - 1) % FrameLen]

Total == Frames * FrameLen

Unknown == MaxLen + 1

Init ==
  /\ arrived = 0 /\ eof = FALSE
  /\ pos = 0 /\ reading = <<>> /\ want = Unknown
  /\ out = <<>> /\ down = 0 /\ back = 0
  /\ cut = FALSE
  /\ result = "none"

ClientSends ==
  /\ ~eof /\ arrived < Total
  /\ \E n \in arrived + 1 .. Total : arrived' = n
  /\ UNCHANGED <<eof, pos, reading, want, out, down, back, cut, result>>

ClientCloses ==
  /\ ~eof /\ eof' = TRUE
  /\ UNCHANGED <<arrived, pos, reading, want, out, down, back, cut, result>>

UpstreamSends ==
  /\ down < MaxDatagrams /\ down' = down + 1
  /\ UNCHANGED <<arrived, eof, pos, reading, want, out, back, cut, result>>

-----------------------------------------------------------------------------
Running == result = "none"

(* The length two header bytes show: the payload's when they are a header,  *)
(* anything when they come from elsewhere in the stream.                    *)
Lengths(h) ==
  IF h[1].part = 0 /\ h[2] = [h[1] EXCEPT !.part = 1] THEN {1} ELSE 0 .. MaxLen

(* read_exact of the header takes a byte that has arrived. *)
ReadHeader ==
  /\ Running /\ want = Unknown /\ pos < arrived
  /\ pos' = pos + 1
  /\ LET h == Append(reading, Byte(pos + 1))
     IN  IF Len(h) < 2
         THEN reading' = h /\ want' = Unknown
         ELSE reading' = <<>> /\ want' \in Lengths(h)
  /\ UNCHANGED <<arrived, eof, out, down, back, cut, result>>

(* read_exact of the payload. *)
ReadPayload ==
  /\ Running /\ want # Unknown /\ Len(reading) < want /\ pos < arrived
  /\ pos' = pos + 1
  /\ reading' = Append(reading, Byte(pos + 1))
  /\ UNCHANGED <<arrived, eof, want, out, down, back, cut, result>>

(* The frame is complete: send it upstream. *)
FrameRead ==
  /\ Running /\ want = Len(reading)
  /\ out' = Append(out, reading)
  /\ reading' = <<>> /\ want' = Unknown
  /\ UNCHANGED <<arrived, eof, pos, down, back, cut, result>>

(* Mutant: the read goes on but forgets the bytes it had. *)
Datagram_ForgetsBytes ==
  /\ Running /\ back < down
  /\ back' = back + 1
  /\ reading' = <<>>
  /\ UNCHANGED <<arrived, eof, pos, want, out, down, cut, result>>

(* A datagram wins the select before the frame is complete: the read and    *)
(* what it has taken from the stream are dropped, and the datagram is       *)
(* written to the client.                                                   *)
Datagram ==
  /\ Running /\ back < down /\ want # Len(reading)
  /\ back' = back + 1
  /\ cut' = (cut \/ reading # <<>> \/ want # Unknown)
  /\ reading' = <<>> /\ want' = Unknown
  /\ UNCHANGED <<arrived, eof, pos, out, down, result>>

Ends(r) ==
  /\ Running
  /\ result' = r
  /\ UNCHANGED <<arrived, eof, pos, reading, want, out, down, back, cut>>

(* The stream ends: quietly inside a header, with an error in a payload. *)
ReadEof ==
  /\ eof /\ pos = arrived /\ want # Len(reading)
  /\ Ends(IF want = Unknown THEN "ok" ELSE "error")

(* A deadline fires, or a socket fails. *)
Stopped == Ends("timeout") \/ Ends("error")

Next ==
  \/ ClientSends \/ ClientCloses \/ UpstreamSends
  \/ ReadHeader \/ ReadPayload \/ FrameRead \/ Datagram \/ ReadEof \/ Stopped

Spec == Init /\ [][Next]_vars

-----------------------------------------------------------------------------
(* The payload of the n-th frame of the client. *)
Payload(n) == <<[frame |-> n, part |-> 2]>>

(* Type correctness: a read never holds more than it asked for. *)
TypeOK ==
  /\ arrived \in 0 .. Total /\ pos \in 0 .. arrived
  /\ want \in 0 .. Unknown
  /\ Len(reading) <= IF want = Unknown THEN 1 ELSE want
  /\ back \in 0 .. down
  /\ result \in {"none", "ok", "error", "timeout"}

(* udp.rs:57: the client's side is relayed frame by frame, one datagram for *)
(* each frame, in order.  The code refutes it, see README; what holds is    *)
(* the next property.                                                       *)
DatagramsAreFrames == \A i \in 1 .. Len(out) : out[i] = Payload(i)

(* The same as long as no read was dropped half-way: reads in pieces, late  *)
(* payloads and datagrams between two frames do no harm.                    *)
FramesUnlessCut == ~cut => DatagramsAreFrames

(* A session that ends normally without a dropped read has relayed every    *)
(* frame that arrived completely.                                           *)
EndIsComplete == (result = "ok" /\ ~cut) => Len(out) = arrived \div FrameLen
=============================================================================
