---------------------------- MODULE DnsUpstream ----------------------------
(***************************************************************************)
(* A DNS query of the TUN device over HTTPS or TLS, through a tunnel of    *)
(* its own (doh.rs and dot.rs of the client).  The upstream's answer is a  *)
(* stream: a header of some length, with the length it declares, and a     *)
(* body that may be shorter or longer.  It comes in any pieces.            *)
(***************************************************************************)
EXTENDS Integers

CONSTANTS
  Queries,    \* sizes of queries
  Answers,    \* records [header, ok, declared, body]; -1 declares nothing
  DohMax,     \* the largest query of DoH (4096) and
  DotMax,     \*   of DoT (65,535)
  HeaderMax,  \* the most bytes read for the header (65,536)
  BodyMax,    \* the most bytes read for the body (65,536)
  Piece,      \* the most bytes one read returns (4096)
  SizeMax     \* the width of usize

ASSUME DnsAssumption ==
  /\ Answers \subseteq [header : Nat, ok : BOOLEAN, declared : Nat \cup {-1}, body : Nat]
  /\ {DohMax, DotMax, HeaderMax, BodyMax, Piece, SizeMax} \subseteq Nat

VARIABLES
  how,        \* "doh" or "dot"
  query,      \* the size of the query
  answer,     \* what the upstream sends
  phase,      \* where the query is
  got,        \* bytes read
  result      \* the bytes returned: <<first, last>>

dnsVars == <<how, query, answer, phase, got, result>>

DnsInit ==
  /\ how \in {"doh", "dot"}
  /\ query \in Queries
  /\ answer \in {a \in Answers : how = "dot" => a.header = 2 /\ a.ok /\ a.declared >= 0}
  /\ phase = "query"
  /\ got = 0
  /\ result = <<0, 0>>

Total == answer.header + answer.body

(* The end of a query that fails, here or in the tunnel or the handshake. *)
QueryFails ==
  /\ phase' = "failed"
  /\ UNCHANGED <<how, query, answer, got, result>>

doh_query ==
  /\ how = "doh" /\ phase = "query"
  /\ IF query = 0 \/ query > DohMax THEN QueryFails
     ELSE phase' = "headers" /\ UNCHANGED <<how, query, answer, got, result>>

dot_query ==
  /\ how = "dot" /\ phase = "query"
  /\ IF query = 0 \/ query > DotMax THEN QueryFails
     ELSE phase' = "length" /\ UNCHANGED <<how, query, answer, got, result>>

(* The tunnel or the TLS handshake fails. *)
NoUpstream == phase \in {"headers", "length"} /\ got = 0 /\ QueryFails

(* One read of the stream, then the check of a limit. *)
ReadAnswer(limit) ==
  \/ got = Total /\ QueryFails
  \/ \E n \in 1 .. Piece :
       /\ got + n <= Total
       /\ got' = got + n
       /\ phase' = IF got' > limit THEN "failed" ELSE phase
       /\ UNCHANGED <<how, query, answer, result>>

ReadHeaders ==
  /\ phase = "headers"
  /\ got < answer.header
  /\ ReadAnswer(HeaderMax)

(* The sum of the lengths is a usize: one that wraps makes the slice of    *)
(* the answer panic, and a panic aborts the process.                       *)
HeadersRead ==
  /\ phase = "headers"
  /\ got >= answer.header
  /\ phase' = CASE ~answer.ok \/ answer.declared < 0 -> "failed"
                [] answer.header + answer.declared > SizeMax -> "aborted"
                [] OTHER -> "body"
  /\ UNCHANGED <<how, query, answer, got, result>>

ReadBody ==
  /\ phase = "body" /\ how = "doh"
  /\ got < answer.header + answer.declared
  /\ ReadAnswer(answer.header + BodyMax)

(* Mutant: everything that was read is the answer. *)
BodyRead_All ==
  /\ phase = "body"
  /\ got >= answer.header + answer.declared
  /\ phase' = "answered"
  /\ result' = <<answer.header + 1, got>>
  /\ UNCHANGED <<how, query, answer, got>>

BodyRead ==
  /\ phase = "body"
  /\ got >= answer.header + answer.declared
  /\ phase' = "answered"
  /\ result' = <<answer.header + 1, answer.header + answer.declared>>
  /\ UNCHANGED <<how, query, answer, got>>

(* read_dot_frame: read_exact of the length, then of the body. *)
ReadDotLength ==
  /\ phase = "length"
  /\ got' = 2
  /\ phase' = IF answer.declared = 0 THEN "failed" ELSE "body"
  /\ UNCHANGED <<how, query, answer, result>>

ReadDotBody ==
  /\ phase = "body" /\ how = "dot"
  /\ got = 2
  /\ IF answer.body < answer.declared THEN QueryFails
     ELSE got' = 2 + answer.declared /\ UNCHANGED <<how, query, answer, phase, result>>

DnsNext ==
  \/ doh_query \/ dot_query \/ NoUpstream
  \/ ReadHeaders \/ HeadersRead \/ ReadBody \/ BodyRead
  \/ ReadDotLength \/ ReadDotBody

DnsSpec == DnsInit /\ [][DnsNext]_dnsVars

(***************************************************************************)
(* An answer is the declared bytes after the header and was read whole,    *)
(* whatever follows it in the stream.  A query of a legal size fails after *)
(* the first byte of the answer only because the answer is not whole, not  *)
(* a success, empty (DoT), or within one read of a limit (DoH); and the    *)
(* process aborts only over a Content-Length that, added to the header, is *)
(* no usize.                                                               *)
(***************************************************************************)
AnswersAreExact ==
  /\ phase = "answered" =>
       /\ result = <<answer.header + 1, answer.header + answer.declared>>
       /\ got >= result[2]
  /\ phase = "failed" /\ got > 0 =>
       \/ ~answer.ok
       \/ answer.body < answer.declared
       \/ answer.declared <= IF how = "dot" THEN 0 ELSE -1
       \/ how = "doh" /\ answer.header + Piece > HeaderMax
       \/ how = "doh" /\ answer.declared + Piece > BodyMax
  /\ phase = "aborted" => how = "doh" /\ answer.header + answer.declared > SizeMax

(* docs/RISKS.md: a parser never panics, it returns an error.  The code     *)
(* refutes it: the sum of the two lengths is not checked (doh.rs:168).      *)
QueriesNeverPanic == phase # "aborted"
=============================================================================
