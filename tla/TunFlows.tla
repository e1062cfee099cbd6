------------------------------ MODULE TunFlows ------------------------------
(***************************************************************************)
(* The datagrams of the TUN device: the table of UDP flows, one VLESS      *)
(* tunnel per flow, the DNS handler, and the MTU of the device (tun/mod.rs *)
(* and pmtud.rs of the client).  One local address sends them all.         *)
(*                                                                         *)
(* A datagram is known by its number.  The frame of a reply may arrive in  *)
(* two parts; the flow's select drops a read that is under way when it     *)
(* takes a datagram, and with it the part that was read.                   *)
(***************************************************************************)
EXTENDS Integers, Sequences, FiniteSetsExt

CONSTANTS
  Remotes,      \* the addresses the application sends to, and
  Sizes,        \*   the sizes of what it sends
  Upstream,     \* the DNS server of the mode "udp"
  Modes,        \* the DNS handlers: "none", "udp", "doh" (DoT is alike)
  Configured,   \* tun.mtu, and
  Overhead,     \*   tun.mtu_overhead
  PathMtus,     \* what the probe of the path may say; 0 is a failure
  IcmpMtus,     \* the MTUs that ICMP messages of the netstack may name
  MaxDatagrams  \* bound: how many datagrams are sent

VARIABLES
  mode,      \* the DNS handler
  mtu,       \* MtuState
  asked,     \* the datagrams sent by the application
  table,     \* the keys of `sessions', and
  flow,      \*   the flow each one names
  queries,   \* DoH queries under way
  sent,      \* the datagrams written to a tunnel, in order
  replies,   \* the datagrams written back to the application, in order
  missed,    \* datagrams that found their flow ended: <<first of flow, number>>
  icmp       \* what the ICMP packet injected last is made from: <<target, MTU>>

tunVars == <<mode, mtu, asked, table, flow, queries, sent, replies, missed, icmp>>

(***************************************************************************)
(* The MTU.                                                                *)
(***************************************************************************)
MIN_TUN_MTU == 576
RECOMMENDED_TUN_MTU == 1400
IPV4_HEADER_LEN == 20
UDP_HEADER_LEN == 8

(* validate_tun bounds tun.mtu from below. *)
ASSUME TunAssumption ==
  /\ Configured \in Nat /\ Configured >= MIN_TUN_MTU
  /\ Overhead \in Nat /\ MaxDatagrams \in Nat
  /\ PathMtus \subseteq Int /\ IcmpMtus \subseteq Nat /\ Sizes \subseteq Nat

(* IP_MTU is an int, cast to 16 bits. *)
probe_path_mtu_linux(path) == path % 65536

resolve_effective_mtu(pmtud, path) ==
  CASE pmtud = "static" -> Configured
    [] path <= 0 -> Min({Configured, RECOMMENDED_TUN_MTU})
    [] OTHER -> Min({Configured, Max({probe_path_mtu_linux(path) - Overhead, MIN_TUN_MTU})})

max_udp_payload_ipv4(m) == Max({m - (IPV4_HEADER_LEN + UDP_HEADER_LEN), 1})

(* parse_icmp_frag_needed_v4 ignores an MTU below the minimum; try_lower   *)
(* never raises.                                                           *)
LowerMtu(next_mtu) ==
  /\ next_mtu >= MIN_TUN_MTU
  /\ next_mtu < mtu
  /\ mtu' = next_mtu
  /\ UNCHANGED <<mode, asked, table, flow, queries, sent, replies, missed, icmp>>

(***************************************************************************)
(* The flows.                                                              *)
(***************************************************************************)
Targets == Remotes \cup {Upstream}

NoFlow == [st |-> "none", first |-> 0, inbox |-> <<>>, down |-> <<>>, half |-> FALSE,
           askew |-> FALSE]

IsDns(r) == r.port = 53

rewrite_udp_upstream(r) == IF mode = "udp" /\ IsDns(r) THEN Upstream ELSE r

TunInit ==
  /\ mode \in Modes
  /\ mtu \in {resolve_effective_mtu("static", 0)}
             \cup {resolve_effective_mtu("probe", p) : p \in PathMtus}
  /\ asked = <<>>
  /\ table = {}
  /\ flow = [t \in Targets |-> NoFlow]
  /\ queries = {}
  /\ sent = <<>>
  /\ replies = <<>>
  /\ missed = {}
  /\ icmp = <<>>

(* Mutant: an entry whose flow has ended stays in the table. *)
Forward_KeepsEntry(id, t) ==
  CASE t \notin table ->
         /\ table' = table \cup {t}
         /\ flow' = [flow EXCEPT ![t] = [NoFlow EXCEPT !.st = "opening", !.first = id,
                                                        !.inbox = <<id>>]]
         /\ UNCHANGED missed
    [] t \in table /\ flow[t].st = "ended" ->
         /\ missed' = missed \cup {<<flow[t].first, id>>}
         /\ UNCHANGED <<table, flow>>
    [] OTHER ->
         /\ flow' = [flow EXCEPT ![t].inbox = Append(@, id)]
         /\ UNCHANGED <<table, missed>>

(* A datagram whose flow has ended is lost and takes the entry with it. *)
Forward(id, t) ==
  CASE t \notin table ->
         /\ table' = table \cup {t}
         /\ flow' = [flow EXCEPT ![t] = [NoFlow EXCEPT !.st = "opening", !.first = id,
                                                        !.inbox = <<id>>]]
         /\ UNCHANGED missed
    [] t \in table /\ flow[t].st = "ended" ->
         /\ table' = table \ {t}
         /\ missed' = missed \cup {<<flow[t].first, id>>}
         /\ UNCHANGED flow
    [] OTHER ->
         /\ flow' = [flow EXCEPT ![t].inbox = Append(@, id)]
         /\ UNCHANGED <<table, missed>>

handle_udp_inbound(r, size) ==
  /\ Len(asked) < MaxDatagrams
  /\ asked' = Append(asked, [remote |-> r, size |-> size])
  /\ IF IsDns(r) /\ mode = "doh"
     THEN queries' = queries \cup {Len(asked')} /\ UNCHANGED <<table, flow, missed>>
     ELSE Forward(Len(asked'), rewrite_udp_upstream(r)) /\ UNCHANGED queries
  /\ UNCHANGED <<mode, mtu, sent, replies, icmp>>

(* Mutant: the answer carries the address of the upstream. *)
DohEnds_FromUpstream(id) ==
  /\ id \in queries
  /\ queries' = queries \ {id}
  /\ replies' = Append(replies, [id |-> id, whole |-> TRUE, from |-> Upstream])
  /\ UNCHANGED <<mode, mtu, asked, table, flow, sent, missed, icmp>>

(* A query is answered with the address that was asked, or fails. *)
DohEnds(id) ==
  /\ id \in queries
  /\ queries' = queries \ {id}
  /\ replies' \in {replies, Append(replies, [id |-> id, whole |-> TRUE, from |-> asked[id].remote])}
  /\ UNCHANGED <<mode, mtu, asked, table, flow, sent, missed, icmp>>

FlowOpens(t) ==
  /\ flow[t].st = "opening"
  /\ flow' = [flow EXCEPT ![t].st = "open"]
  /\ UNCHANGED <<mode, mtu, asked, table, queries, sent, replies, missed, icmp>>

(* The tunnel cannot be opened, or a read or a write of it ends the flow;  *)
(* what is in its queue is gone.                                           *)
FlowEnds(t) ==
  /\ flow[t].st \in {"opening", "open"}
  /\ flow' = [flow EXCEPT ![t] = [NoFlow EXCEPT !.st = "ended", !.first = flow[t].first]]
  /\ UNCHANGED <<mode, mtu, asked, table, queries, sent, replies, missed, icmp>>

FlowTakes(t) ==
  /\ flow[t].st = "open"
  /\ flow[t].inbox # <<>>
  /\ flow' = [flow EXCEPT ![t].inbox = Tail(@), ![t].half = FALSE,
                           ![t].askew = @ \/ flow[t].half]
  /\ LET id == Head(flow[t].inbox) IN
     IF asked[id].size > max_udp_payload_ipv4(mtu)
     THEN /\ icmp' = IF Len(t.addr) = 4 THEN <<t, mtu>> ELSE icmp
          /\ UNCHANGED sent
     ELSE /\ sent' = Append(sent, [id |-> id, to |-> t, flow |-> flow[t].first])
          /\ UNCHANGED icmp
  /\ UNCHANGED <<mode, mtu, asked, table, queries, replies, missed>>

(* The remote proxy answers a datagram of the flow, each at most once. *)
ProxyAnswers(t) ==
  /\ flow[t].st = "open"
  /\ \E i \in DOMAIN sent :
       /\ sent[i].flow = flow[t].first
       /\ sent[i].id \notin {replies[j].id : j \in DOMAIN replies} \cup Range(flow[t].down)
       /\ flow' = [flow EXCEPT ![t].down = Append(@, sent[i].id)]
  /\ UNCHANGED <<mode, mtu, asked, table, queries, sent, replies, missed, icmp>>

ReadHalf(t) ==
  /\ flow[t].down # <<>>
  /\ ~flow[t].half
  /\ flow' = [flow EXCEPT ![t].half = TRUE]
  /\ UNCHANGED <<mode, mtu, asked, table, queries, sent, replies, missed, icmp>>

(* Out of step with the frames, the flow takes other bytes for a frame. *)
ReadFrame(t) ==
  /\ flow[t].down # <<>>
  /\ flow' = [flow EXCEPT ![t].down = Tail(@), ![t].half = FALSE]
  /\ replies' = Append(replies, [id |-> Head(flow[t].down), whole |-> ~flow[t].askew,
                                 from |-> t])
  /\ UNCHANGED <<mode, mtu, asked, table, queries, sent, missed, icmp>>

TunNext ==
  \/ \E r \in Remotes, n \in Sizes : handle_udp_inbound(r, n)
  \/ \E id \in queries : DohEnds(id)
  \/ \E m \in IcmpMtus : LowerMtu(m)
  \/ \E t \in Targets :
       \/ FlowOpens(t) \/ FlowEnds(t) \/ FlowTakes(t)
       \/ ProxyAnswers(t) \/ ReadHalf(t) \/ ReadFrame(t)

TunSpec == TunInit /\ [][TunNext]_tunVars

(***************************************************************************)
(* A reply goes back under the address the application wrote to, unless    *)
(* the DNS handler sent the query elsewhere: then under the upstream's.    *)
(* The exception is a flow that took a datagram while half a frame was     *)
(* read: relay_udp_flow is then out of step with the frames.               *)
(***************************************************************************)
RepliesKeepTheirFlow ==
  \A i \in DOMAIN replies :
    replies[i].whole =>
      replies[i].from = IF mode = "doh" THEN asked[replies[i].id].remote
                        ELSE rewrite_udp_upstream(asked[replies[i].id].remote)

(***************************************************************************)
(* Datagrams to one target are written to its tunnels in their order, each *)
(* at most once, through flows opened and lost; none is larger than the    *)
(* configured MTU allows, and the MTU stays between its limits.  An ended  *)
(* flow costs at most one of the datagrams that find it in the table       *)
(* (handle_udp_inbound, relay_udp_flow, MtuState).                         *)
(***************************************************************************)
FlowsKeepOrder ==
  /\ \A i, j \in DOMAIN sent : i < j /\ sent[i].to = sent[j].to => sent[i].id < sent[j].id
  /\ \A i \in DOMAIN sent : asked[sent[i].id].size <= max_udp_payload_ipv4(Configured)
  /\ \A m, n \in missed : m[1] = n[1] => m = n
  /\ MIN_TUN_MTU <= mtu /\ mtu <= Configured
=============================================================================
