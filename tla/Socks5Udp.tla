----------------------------- MODULE Socks5Udp -----------------------------
(***************************************************************************)
(* SOCKS5 UDP ASSOCIATE (skadi-server/src/socks5_relay.rs): one task       *)
(* watches the control connection and its deadlines and, in between,       *)
(* relays one datagram at a time: it connects a fresh socket to the        *)
(* target, sends, and waits up to five seconds for one reply.              *)
(***************************************************************************)
EXTENDS Naturals, Sequences

CONSTANTS
  Peers,         \* addresses datagrams come from
  IdleSet,       \* TRUE: idle_timeout_secs is configured
  MaxDatagrams,  \* bound of the model: datagrams of all peers
  MaxReplies     \* bound of the model: replies of a target to one datagram

VARIABLES
  pc,        \* where the task stands
  control,   \* the control connection: "open" or "closed"
  inbox,     \* datagrams the relay socket has received
  from,      \* the sender of every datagram so far
  cur,       \* the datagram in hand
  asked,     \* history: datagrams that reached their target
  replied,   \* replies of the target to each datagram
  waiting,   \* replies at the upstream socket in hand
  answers,   \* replies sent: the datagram answered and the address used
  dropped    \* history: replies that found no socket or were left in one

vars == <<pc, control, inbox, from, cur, asked, replied, waiting, answers, dropped>>

Datagrams == 1 .. MaxDatagrams

Init ==
  /\ pc = "select" /\ control = "open"
  /\ inbox = <<>> /\ from = <<>>
  /\ cur = 0
  /\ asked = {} /\ replied = [d \in Datagrams |-> 0] /\ waiting = 0
  /\ answers = {} /\ dropped = 0

Alive == pc \notin {"ended", "panicked"}

-----------------------------------------------------------------------------
(* The environment: peers send, targets reply, the client closes. *)
PeerSends(p) ==
  /\ Alive /\ Len(from) < MaxDatagrams
  /\ from' = Append(from, p)
  /\ inbox' = Append(inbox, Len(from'))
  /\ UNCHANGED <<pc, control, cur, asked, replied, waiting, answers, dropped>>

TargetReplies(d) ==
  /\ Alive /\ d \in asked /\ replied[d] < MaxReplies
  /\ replied' = [replied EXCEPT ![d] = @ + 1]
  /\ \/ /\ pc = "wait" /\ d = cur
        /\ waiting' = waiting + 1 /\ dropped' = dropped
     \/ /\ ~(pc = "wait" /\ d = cur)
        /\ waiting' = waiting /\ dropped' = dropped + 1
  /\ UNCHANGED <<pc, control, inbox, from, cur, asked, answers>>

ClientCloses ==
  /\ Alive /\ control = "open" /\ control' = "closed"
  /\ UNCHANGED <<pc, inbox, from, cur, asked, replied, waiting, answers, dropped>>

-----------------------------------------------------------------------------
(* The idle deadline is set to now + idle.  Without an idle timeout idle is *)
(* Duration::MAX, the sum is no Instant, and the addition panics.           *)
AfterReset(to) == IF IdleSet THEN to ELSE "panicked"

(* A byte on the control connection is ignored but counts as activity. *)
ControlByte ==
  /\ pc = "select" /\ control = "open"
  /\ pc' = AfterReset("select")
  /\ UNCHANGED <<control, inbox, from, cur, asked, replied, waiting, answers, dropped>>

ControlEof ==
  /\ pc = "select" /\ control = "closed"
  /\ pc' = "ended"
  /\ UNCHANGED <<control, inbox, from, cur, asked, replied, waiting, answers, dropped>>

(* The idle or the lifetime deadline. *)
Deadline ==
  /\ pc = "select" /\ pc' = "ended"
  /\ UNCHANGED <<control, inbox, from, cur, asked, replied, waiting, answers, dropped>>

(* recv_from: a datagram without a target or payload is skipped. *)
Receive ==
  /\ pc = "select" /\ inbox # <<>>
  /\ inbox' = Tail(inbox)
  /\ \/ pc' = AfterReset("connect") /\ cur' = Head(inbox)
     \/ pc' = AfterReset("select") /\ cur' = cur
  /\ UNCHANGED <<control, from, asked, replied, waiting, answers, dropped>>

(* connect and send; if either fails the datagram is skipped. *)
Connect ==
  /\ pc = "connect"
  /\ \/ pc' = "wait" /\ asked' = asked \cup {cur}
     \/ pc' = "select" /\ asked' = asked
  /\ UNCHANGED <<control, inbox, from, cur, replied, waiting, answers, dropped>>

(* Mutant: the reply goes to whoever sent a datagram last. *)
Reply_LastPeer ==
  /\ pc = "wait" /\ pc' = "select"
  /\ waiting > 0 /\ waiting' = 0
  /\ answers' = answers \cup {[datagram |-> cur, to |-> from[Len(from)]]}
  /\ dropped' = dropped + (waiting - 1)
  /\ UNCHANGED <<control, inbox, from, cur, asked, replied>>

(* The first reply goes to the sender; the socket is dropped with the rest. *)
Reply ==
  /\ pc = "wait" /\ pc' = "select"
  /\ waiting > 0 /\ waiting' = 0
  /\ answers' = answers \cup {[datagram |-> cur, to |-> from[cur]]}
  /\ dropped' = dropped + (waiting - 1)
  /\ UNCHANGED <<control, inbox, from, cur, asked, replied>>

(* Mutant: the wait for a reply has no limit. *)
ReplyTimeout_Never ==
  /\ pc = "wait" /\ FALSE
  /\ UNCHANGED vars

(* Five seconds without a reply. *)
ReplyTimeout ==
  /\ pc = "wait" /\ pc' = "select"
  /\ waiting = 0
  /\ UNCHANGED <<control, inbox, from, cur, asked, replied, waiting, answers, dropped>>

Next ==
  \/ \E p \in Peers : PeerSends(p)
  \/ \E d \in Datagrams : TargetReplies(d)
  \/ ClientCloses
  \/ ControlByte \/ ControlEof \/ Deadline
  \/ Receive \/ Connect \/ Reply \/ ReplyTimeout

Spec == Init /\ [][Next]_vars

-----------------------------------------------------------------------------
(* Type correctness. *)
TypeOK ==
  /\ pc \in {"select", "connect", "wait", "ended", "panicked"}
  /\ control \in {"open", "closed"}
  /\ cur \in 0 .. Len(from)
  /\ pc \in {"connect", "wait"} => cur \in 1 .. Len(from)
  /\ asked \subseteq 1 .. Len(from)
  /\ waiting \in 0 .. MaxReplies

(* A reply that reaches the relay in time goes out under the address of the *)
(* peer whose datagram it answers; what a target sends later reaches nobody *)
(* else, although the next datagram may be in hand by then.                 *)
RepliesMatch ==
  /\ \A a \in answers : a.datagram \in asked /\ replied[a.datagram] > 0
                        /\ a.to = from[a.datagram]
  /\ pc = "wait" => cur \in asked /\ waiting <= replied[cur]

(* The association ends once the client closes its control connection, even *)
(* when a target stays silent.                                              *)
ControlCloseEnds == control = "closed" ~> ~Alive

(* docs/CONFIGURATION.md offers UDP ASSOCIATE as a relay that works while   *)
(* the control connection is held: no datagram and no control byte breaks it. *)
RelayNeverPanics == pc # "panicked"

(* docs/CONFIGURATION.md calls it fit for QUIC, where a target answers one   *)
(* datagram with several: what it sends while the association lives reaches *)
(* the peer.  The code refutes it: see README.                              *)
EveryReplyIsRelayed == dropped = 0
=============================================================================
