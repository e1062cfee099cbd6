-------------------------------- MODULE Peek --------------------------------
(***************************************************************************)
(* The two readers that look at the TLS ClientHello of a connection before *)
(* they decide what becomes of it: the TUN device's TCP connections (the   *)
(* client, tls_peek.rs) and the REALITY listener (the server), which share *)
(* the stream that gives the bytes read ahead first (prefixed.rs).         *)
(*                                                                         *)
(* A byte is known by its position.  A stream has a number of bytes and,   *)
(* if it is TLS, a first record that ends at `record' and names a host.    *)
(***************************************************************************)
EXTENDS Naturals, Sequences

CONSTANTS
  Streams,   \* records [tls, record, total, name, verified]
  Chunk,     \* bound: the most a read returns (512 and 1024)
  Cap        \* bound: the most that is read ahead (16,384)

ASSUME PeekAssumption ==
  /\ \A s \in Streams : s.tls \in BOOLEAN /\ {s.record, s.total} \subseteq Nat
  /\ {Chunk, Cap} \subseteq Nat

VARIABLES
  who,       \* "tun" or "reality"
  dest,      \* where a TUN connection goes: "dot", "known", "https", "other"
  dns,       \* [hijack, dot, doh]: the DNS settings of the TUN device
  stream,    \* the stream
  st,        \* where the connection is
  ahead,     \* bytes read ahead
  prefix,    \* those not yet given to the consumer
  pos,       \* bytes taken from the stream
  out        \* the bytes the consumer has got

peekVars == <<who, dest, dns, stream, st, ahead, prefix, pos, out>>

PeekInit ==
  /\ who \in {"tun", "reality"}
  /\ dest \in IF who = "tun" THEN {"dot", "known", "https", "other"} ELSE {"listener"}
  /\ dns \in IF who = "tun" THEN [hijack : BOOLEAN, dot : BOOLEAN, doh : BOOLEAN]
             ELSE [hijack : {FALSE}, dot : {FALSE}, doh : {FALSE}]
  /\ stream \in Streams
  /\ st = "new"
  /\ ahead = 0
  /\ prefix = <<>>
  /\ pos = 0
  /\ out = <<>>

should_block_tcp ==
  dns.hijack /\ ((dns.dot /\ dest = "dot") \/ (dns.doh /\ dest = "known"))

needs_doh_sni_inspection == dns.hijack /\ dns.doh /\ dest = "https"

(* handle_tcp_inbound; accept always looks. *)
Classify ==
  /\ st = "new"
  /\ st' = IF who = "tun" /\ should_block_tcp THEN "closed"
           ELSE IF who = "reality" \/ needs_doh_sni_inspection THEN "peek" ELSE "relay"
  /\ UNCHANGED <<who, dest, dns, stream, ahead, prefix, pos, out>>

(* What the loops want: five bytes, then the record up to the cap. *)
Needed == IF ahead < 5 THEN 5 ELSE IF stream.tls THEN stream.record ELSE ahead

WantsMore == ahead < 5 \/ (ahead < Needed /\ ahead < Cap)

PeekRead ==
  /\ st = "peek"
  /\ WantsMore
  /\ \E n \in 1 .. Chunk :
       /\ pos + n <= stream.total
       /\ pos' = pos + n
       /\ ahead' = ahead + n
  /\ UNCHANGED <<who, dest, dns, stream, st, prefix, out>>

(* parse_client_hello wants the whole first record; the listener accepts   *)
(* a listed name with the right key, and relays the rest to its fallback.  *)
Decide ==
  LET named == stream.tls /\ ahead >= stream.record IN
  /\ st' = CASE who = "tun" -> IF named /\ stream.name = "doh" THEN "closed" ELSE "relay"
             [] OTHER -> IF named /\ stream.name = "listed" /\ stream.verified
                         THEN "tls" ELSE "fallback"
  /\ prefix' = [i \in 1 .. ahead |-> i]

PeekDone ==
  /\ st = "peek"
  /\ ~WantsMore \/ (pos = stream.total /\ ahead >= 5)
  /\ Decide
  /\ UNCHANGED <<who, dest, dns, stream, ahead, pos, out>>

(* The stream ends before five bytes, or the timer fires: the TUN          *)
(* connection goes on without what was read, the listener closes.          *)
PeekFails ==
  /\ st = "peek"
  /\ WantsMore
  /\ st' = IF who = "tun" THEN "unpeeked" ELSE "closed"
  /\ UNCHANGED <<who, dest, dns, stream, ahead, prefix, pos, out>>

(* Mutant: the stream reads on before the prefix is used up. *)
Deliver_InnerFirst ==
  /\ st \in {"relay", "unpeeked", "tls", "fallback"}
  /\ \/ pos < stream.total /\ pos' = pos + 1 /\ out' = Append(out, pos') /\ UNCHANGED prefix
     \/ prefix # <<>> /\ out' = Append(out, Head(prefix)) /\ prefix' = Tail(prefix)
          /\ UNCHANGED pos
  /\ UNCHANGED <<who, dest, dns, stream, st, ahead>>

(* The consumer reads: first the prefix, then the stream. *)
Deliver ==
  /\ st \in {"relay", "unpeeked", "tls", "fallback"}
  /\ IF prefix # <<>>
     THEN out' = Append(out, Head(prefix)) /\ prefix' = Tail(prefix) /\ UNCHANGED pos
     ELSE /\ pos < stream.total
          /\ pos' = pos + 1
          /\ out' = Append(out, pos')
          /\ UNCHANGED prefix
  /\ UNCHANGED <<who, dest, dns, stream, st, ahead>>

(* The tunnel, the handshake or the fallback cannot be opened. *)
OpenFails ==
  /\ st \in {"relay", "unpeeked", "tls", "fallback"}
  /\ out = <<>>
  /\ st' = "closed"
  /\ UNCHANGED <<who, dest, dns, stream, ahead, prefix, pos, out>>

PeekNext == Classify \/ PeekRead \/ PeekDone \/ PeekFails \/ Deliver \/ OpenFails

PeekSpec == PeekInit /\ [][PeekNext]_peekVars

(***************************************************************************)
(* The consumer gets the bytes of the stream from the first one on without *)
(* a hole.  The one exception is a TUN connection whose look ahead failed: *)
(* it is relayed without the bytes that were read (tun/mod.rs:219), and    *)
(* misses exactly these.  A connection whose ClientHello names a DoH host *)
(* is relayed by a TUN device that blocks them only if its record did not  *)
(* come whole before the end, the cap or the timer.                        *)
(***************************************************************************)
PeekKeepsStream ==
  /\ out = [i \in 1 .. Len(out) |-> IF st = "unpeeked" THEN ahead + i ELSE i]
  /\ out # <<>> /\ needs_doh_sni_inspection /\ stream.tls /\ stream.name = "doh" =>
       \/ st = "unpeeked"
       \/ stream.total < stream.record
       \/ stream.record > Cap

(* tls_peek.rs: the look ahead loses no bytes for the relay.  The code      *)
(* refutes it for a look that fails after its first read: see README.       *)
NothingIsLost == out = [i \in 1 .. Len(out) |-> i]
=============================================================================
