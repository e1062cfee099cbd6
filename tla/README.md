# A TLA+ model of SkadiCore

SkadiCore is a proxy core in Rust on tokio. A server accepts connections (plain,
TLS or REALITY, optionally inside XHTTP), negotiates SOCKS5 or VLESS, and relays
TCP, UDP or a multiplex of both; it also runs the daemons of AmneziaWG, Hysteria 2
and TUIC as sidecars. A client offers a SOCKS5 or a TUN inbound and reaches the
server over VLESS. This directory models both programs. TLC checks the models on
small instances and TLAPS proves the most important safety properties for all
sizes. Source paths below are relative to `src/crates/`.

## The system

| Part | State it keeps | Operations | What makes it hard |
|---|---|---|---|
| Connection gate (`skadi-server/src/connection_gate.rs`) | one atomic counter | `try_acquire`, drop of a permit | load and compare-and-swap of several accept loops |
| Login limiter (`auth_rate_limit.rs`) | failures, ban and ban level per address | `is_blocked`, `record_failure`, sweep | windows, bans and the sweep share one clock |
| API limiter (`api/rate_limit.rs`) | start and count of a window | one check per RPC | the boundary of two windows |
| Server (`lib.rs`, `store.rs`, `observability/metrics.rs`) | session tasks, user store, gauge, shutdown channel | accept, handshake, dispatch, connect, relay, SIGHUP, API calls, signals | a session holds copies of state that others change; many early returns |
| Process (`lib.rs`, `main.rs`, `skadi-client/src/runner.rs`) | stages of start-up, helper tasks, the shutdown signal | every command of the binaries | start-up takes for granted what validation checked; shutdown with work in progress |
| Configuration (`skadi-config`, `skadi-client/src/config.rs`) | none | `validate` | checks far from the code that relies on them |
| Sidecars (`skadi-transport/src/{awg,hysteria2,tuic}`) | child process, configuration file, NAT rules | start, supervise, stop | a failure half-way |
| Handshakes (`skadi-protocol`, `skadi-client/src/{socks5,outbound}.rs`) | bytes read so far | read, parse, reply | two length logics for one format; a byte read too much is lost |
| REALITY (`skadi-transport/src/reality`) | the ClientHello as read | parse, session or fallback | what was read ahead goes to either side completely |
| XHTTP server (`xhttp/{session,accept,common}.rs`) | registry, reassembly, response channel | GET, POST, upgrade, read, poll | requests of one session on one connection or on several, in any order |
| XHTTP client (`xhttp/client.rs`) | packet-up queue and worker, chunk decoder | write, POST, read | back-pressure, failed POSTs, chunks split anywhere |
| TCP relay (`relay.rs`) | buffers, end flags, two deadlines | read, write, shutdown, deadlines | half-close, partial writes, deadlines polled only in `select` |
| VLESS UDP relay (`udp.rs`) | a half-read frame | frame read, datagram | cancellation inside `select` |
| SOCKS5 UDP (`skadi-server/src/socks5_relay.rs`) | relay socket, datagram in hand | receive, connect, reply | one task for control, deadlines and replies |
| Mux (`mux.rs`) | session table, reader tasks, a lock per upstream | New, Keep, End, KeepAlive frames | frame loop and readers share table and locks |
| XUDP (`xudp.rs`, `mux.rs`) | process-wide table of cones by GlobalID | acquire, register, detach, clean-up | muxes that share or inherit a cone |
| Client TUN (`skadi-client/src/{tun,pmtud}.rs`) | flows, MTU, routes | datagrams, ICMP, `apply`, revert | flows end while in use; routes must be undone |
| Client DNS (`dns.rs`, `doh.rs`, `dot.rs`, `tls_peek.rs`) | a stream looked into, an answer in pieces | peek, block, forward, query | limits checked at different points of an incremental read |

The accept loops ask the limiter, then the gate. A session task then runs the
transport, XHTTP, the handshake against its copy of the store, and one of the
relays. Mux connections share the XUDP registry. SIGHUP and the API write the
store, and the shutdown channel reaches every loop. A client connects each of its
flows to such a session.

`PROJECT.json` lists every component with what is and is not modelled, the
hazards with the line where each bites, and the source lines of every definition.

## Modules

Server:

| Module | Models | State and actions |
|---|---|---|
| `ConnectionGate` | the gate | `active` is the `AtomicU32`, `permits` the live `ConnectionPermit`s, `attempt` the local variables of each `try_acquire`; each access to the atomic is an action |
| `AuthBan` | what the accept loops rely on | who has failed how often, who is banned; only time ends a ban |
| `AuthRateLimiter` | the login limiter | the map of `IpState` and a clock; refines `AuthBan` |
| `ApiRateLimiter` | the interceptor of the gRPC API | token, window and count; one action per call |
| `Limiters` | both limiters | one of them runs |
| `Server` | accept loops, session tasks, store, gauge, shutdown | composes `ConnectionGate` (EXTENDS) and `AuthBan` (INSTANCE); `stage` says between which awaits a session stands |
| `Pipe` | what one direction of a relay promises | in order, complete, end of stream last |
| `Relay` | `copy_bidirectional_with_limits` | one task; the peers and the clock are the environment; refines `Pipe` twice |
| `UdpRelay` | `relay_vless_udp_with_limits` | a stream of framed bytes, read in pieces |
| `Socks5Udp` | `handle_socks5_udp_associate` | one task, its peers and targets |
| `Session` | the relay phase of a session | the command selects `Relay`, `UdpRelay` or `Socks5Udp` (INSTANCE), under shared limits |
| `Mux` | the mux frame loop and its readers | `pc`/`cur` is the loop, `at` each reader; the lock is held by a reader in `read` and by the loop in `write` |
| `Xudp` | registry and cones | each registry call is one step, since its lock is held throughout |
| `MuxServer` | `Mux` and `Xudp` (EXTENDS) | sessions or cones of the connections |

Process:

| Module | Models | State and actions |
|---|---|---|
| `ServerConfig`, `ClientConfig` | `validate` of both files | a configuration is a record of sections; a field is the class of values that validation or start-up tells apart |
| `ShutdownSignal` | the shutdown channel | one flag that everybody reads |
| `Sidecar` | the six managers | write the file, start the child, configure, supervise, stop; each step may fail |
| `TunRouting` | the TUN task and `apply`, revert | one action per command, which may fail |
| `Process` | every command of the binaries | start-up stage by stage, helper tasks, signals, the grace of shutdown, the end; composes the five modules above by EXTENDS |

Data path:

| Module | Models | State and actions |
|---|---|---|
| `Wire` | builders and parsers of SOCKS5, VLESS, addons and mux frames | operators on byte sequences that return a value, "incomplete" or an error; `Then` is the `?` of the code |
| `Hello` | the parser of ClientHello | operators on bytes, with the offsets of the code |
| `Codec` | incremental use of every parser | bytes arrive one by one |
| `Handshake` | a SOCKS5 application, the client's inbound and tunnel, the server's readers | exact reads of the code; every byte has an owner |
| `Peek` | `tls_peek.rs` and REALITY's look at the ClientHello | bytes taken, prefix, replay, timeouts |
| `DnsUpstream` | DoH and DoT | header and body in pieces of any size, with every limit |
| `TunFlows` | UDP of the TUN device | table of flows, the flow tasks, hijacked DNS, the MTU |
| `TunUdp` | the ICMP packets of the TUN device | operators on bytes, over `TunFlows` |
| `PacketUp` | packet-up reassembly | `PacketState::push` step by step under its lock, the bounded queue, the reader |
| `Downlink` | `ChannelWriter` and `MpscBody` | one action per poll |
| `XhttpRegistry` | request handler and session registry | requests of every kind; entries, senders, queues and readers of one id |
| `Xhttp` | XHTTP on the server | `PacketUp`, `XhttpRegistry` (EXTENDS) and `Downlink` (INSTANCE) |
| `XhttpClient` | modes, packet-up writer and worker | one action per poll, per POST, per answer |
| `Chunked` | the chunked encoder and decoder | decoder state of the code, reads of any size |
| `DataPath` | all of the above | one part runs |

`*Proofs` hold the theorems about the modules they extend. `MC*` define the larger
sets for TLC; each `.cfg` is one run, on an `MC` module or, where a few numbers and
model values are enough, on the module itself.

`DataPath`, `Session`, `MuxServer` and `Limiters` join parts that share no memory
while they run. The part is chosen in the initial state and the others stand still,
so the state space is the sum of theirs. Parts that do share memory are composed
with all interleavings: gate, bans, store and sessions in `Server`; configuration,
managers, TUN task and signals in `Process`; frame loop and readers in `Mux`; the
muxes of a process in `Xudp`.

Definitions whose comment begins with "Mutant" are deliberately wrong variants of
the definition after them. Each stands for a plausible bug and each is caught by
the property named for it in `PROJECT.json`; no specification uses them.

Data is abstract: users, addresses and payloads are model values, a byte of a
stream is its position, credentials are a membership test in the session's copy
of the store. Only `Wire`, `Hello`, `Codec`, `Handshake`
and the ICMP packet of `TunUdp` deal in byte values, because their properties are
about layouts. Bounds that belong to the model, not
to the program, are CONSTANTS commented as bounds.

## Runs

Passing runs:

| Run | Shows | Instance |
|---|---|---|
| `limiters` | the login limiter implements `AuthBan`; bans are ended by time alone and do not shrink for a persistent offender. The API limiter passes at most twice its limit in any second and refuses nothing before the limit is used up | 2 addresses, 2 failures, a clock past several windows and bans, 3 ban levels; limits 0 to 2, three windows of 2 ticks |
| `server_admit` | the limit under the race for the counter, and every session leaves its set-up phase | 2 loops, 3 connections from 2 addresses, limit 2, REALITY, bans, one lost reply |
| `server_changes` | a slot lives as long as its session; the gauge is exact; sessions never use a user who was out of the store since before the accept | 1 loop, 2 connections, limit 1, REALITY and XHTTP, both protocols, two store changes and a shutdown anywhere |
| `session` | TCP: each direction is a `Pipe`, totals exact, idle means idle, the lifetime ends it; VLESS UDP: frames become datagrams unless a read is cut; SOCKS5 UDP: replies go to the right peer, closing the control connection ends it | 2 bytes each way, socket room 1, chunks of 2, both deadlines; 3 frames; 3 datagrams of 2 peers, 2 replies each |
| `mux` | table, End frames, close; the lifetime ends the connection unless the loop stands in a frame for ever. The only user of a GlobalID keeps socket, entry and reader | 2 ids, 3 sessions; 2 muxes, 2 cones each, 1 GlobalID |
| `process` | a configuration that validation accepts starts; an orderly end leaves no child, file or route behind, only the NAT rule of AmneziaWG; a signal ends the process; a dead daemon is noticed | every change of one field of 8 server and 7 client configurations, each command, each step failing or not |
| `data_path` | `TunnelCarriesRequest`, `ParsersAreExact`, `RepliesKeepTheirFlow`, `FlowsKeepOrder`, `PeekKeepsStream`, `AnswersAreExact`, `ChunksAreExact`, `GetsMeetTheirPosts`, `PostsCarryTheWrites`, the uplink (`UplinkOrdered`, `GapOnlyByOverflow`, `NoneHeldBack`, `PassedIsRead`) and the response body (`BodyInOrder`, `AcceptedIsSent`) | see below |

The parts of `data_path`: 47 kinds of SOCKS5 input and more than 70 VLESS requests,
right and wrong, against two users; every kind of message, each byte by byte with
bytes after it; three TUN datagrams to a resolver and another address under each
DNS mode, of two sizes around what the MTU allows, and path MTUs with the 16-bit wrap; streams that end before, at and after
each limit of a look ahead (records of 7 and 12 bytes, a cap of 10); DNS answers
around the limits of header and body; three bytes written in chunks of one or two
and read in threes; five requests of one XHTTP id in any order, four of which three
share an HTTP/2 connection, and seven of the other kinds, most of them refused; six bytes through a packet-up queue of two; four payloads with
repeats and losses into a queue of two; four chunks through a channel of two.
Limits of the code that are too large to enumerate (caps of a read, of a header or a
channel) are constants, and the instances sit around them.

The bounds are the smallest at which every action fires and the races named in the
hazards happen: two loops for the gate's race, a third connection for a full gate,
a queue or channel smaller than its traffic, a third mux session so that an id is
opened again while another one is in use, a second cone so that a GlobalID comes
back to a mux that has used it. No run uses symmetry.

Where parts are joined by a choice in the initial state, TLC's action coverage shows
one line per part; the counts of the expressions below it show that every action of
every part is taken.

The modules `AuthRateLimiter`, `Server`, `Process`, `Relay`, `UdpRelay`,
`Socks5Udp`, `Downlink`, `Mux`, `Xudp` and `PacketUp` also have a type invariant
(`TypeOK`; `ProcessTypeOK` in `Process`, `ConeTypeOK` in `Xudp`). TLC confirms each on the instance of its
run; they are not listed there because the properties are about behaviour. For
`ConnectionGate` and `PacketUp` they are proved; the invariants of the other proofs
contain types of their own.

### Where code and documentation differ

Five runs end in a violation and have an entry under `findings`, with the sentence
they contradict:

| Run | What TLC finds |
|---|---|
| `server_silent` | with both protocols enabled the first byte is read without a timeout, so a silent client keeps its slot |
| `downlink_stall` | a chunk that meets a full channel is sent twice, and again with every further poll that finds it full |
| `session_no_idle` | without an idle timeout, the default, the first datagram makes the task of a UDP association panic |
| `xhttp_slot_leaks` | `accept_xhttp` waits for a message whose sender it holds itself (accept.rs:82), so a client that leaves or is refused before its upgrade leaves a session task, and a slot, behind for ever |
| `dns_aborts` | a DoH answer that declares a length near the largest `usize` makes header plus length wrap (doh.rs:168); the slice panics and the process aborts |

The modules also state the following as definitions. They are not part of a run;
TLC refutes each when it is checked in place of the properties of the `.cfg` given,
or on the module by itself (deadlock not checked) with the constants given.

| Definition | What the code does | How to see it |
|---|---|---|
| `ApiRateLimiter!AtMostLimitPerSecond` (docs/CONFIGURATION.md:830) | two windows meet within a second, which lets twice the limit through (api/rate_limit.rs:46) | `Limiters.cfg`, INVARIANT |
| `AuthRateLimiter!FirstBanLastsBase` (docs/CONFIGURATION.md:114) | the first ban lasts twice `ban_base_secs` (auth_rate_limit.rs:92) | `Limiters.cfg`, PROPERTY |
| `Server!GaugeReturnsToZero` (docs/DEVELOPMENT.md:481) | a SOCKS5 reply that cannot be written leaves the gauge too high (lib.rs:722) | `MCServerAdmit.cfg`, INVARIANT |
| `Process!SessionsFinish` (README.md:325, docs/ARCHITECTURE.md:328-330) | the process ends while a session is active (lib.rs:63) | `MCProcess.cfg`, PROPERTY |
| `Server!ShutdownSparesRelays` (README.md:325) | shutdown cuts running relays, the server's side of the same | `MCServerChanges.cfg`, PROPERTY |
| `Server!DisabledProtocolServesNobody` (docs/CONFIGURATION.md:6-9) | a protocol disabled by SIGHUP is still served (lib.rs:594) | `MCServerChanges.cfg`, INVARIANT |
| `Server!LimitCoversConnections` (docs/CONFIGURATION.md:96) | XHTTP POSTs in progress are not counted (accept.rs:309) | `MCServerChanges.cfg`, INVARIANT |
| `PacketUp!UplinkComplete` (docs/CONFIGURATION.md:421-422) | a payload that meets a full queue is dropped, later ones are delivered (session.rs:37) | `MCDataPath.cfg`, INVARIANT |
| `XhttpRegistry!AnsweredGetsAreRead` (docs/CONFIGURATION.md:394-396) | on an HTTP/2 connection only the first request to send reaches the session task; a later GET is answered 200 with an empty body, and takes the receiver of its session with it (accept.rs:328) | `MCDataPath.cfg`, INVARIANT |
| `XhttpRegistry!PostsKeepTheirId` (docs/CONFIGURATION.md:394-396) | a POST that ends removes the id while another POST of it is being read; a GET that comes later gets another session (accept.rs:307) | `MCDataPath.cfg`, INVARIANT |
| `Peek!NothingIsLost` (tls_peek.rs:8) | a look of the TUN client that fails drops the bytes it has read, and the connection (tun/mod.rs:219) | `MCDataPath.cfg`, INVARIANT |
| `TunUdp!IcmpIsValid` (docs/CONFIGURATION.md:1178-1179) | the ICMP packet about an MTU has its header checksum where the length belongs (pmtud.rs:237) | `MCDataPath.cfg`, INVARIANT |
| `Process!RoutesAreUndone` (docs/CONFIGURATION.md:1200) | an `apply` that fails half-way leaves the routes it has set (tun/routing.rs:78) | `MCProcess.cfg`, INVARIANT |
| `Process!AutoRoutingWorks` (docs/CONFIGURATION.md:1195) | `apply` names the device before the task creates it, and fails unless it exists already (tun/mod.rs:34) | `MCProcess.cfg`, INVARIANT |
| `Session!LifetimeCloses` (docs/CONFIGURATION.md:153) | a peer that stops reading suspends both deadlines (relay.rs:79) | `Session.cfg` with `Spec /\ Fairness`, without `ReadingPeers` |
| `UdpRelay!DatagramsAreFrames` (udp.rs:57) | a datagram that interrupts a half-read frame puts the stream out of step (udp.rs:89) | `UdpRelay`: `Frames = 3`, `MaxDatagrams = 2`, `MaxLen = 2` |
| `Socks5Udp!EveryReplyIsRelayed` (docs/CONFIGURATION.md:690) | second and late replies are dropped (socks5_relay.rs:112) | `Socks5Udp`: `IdleSet = TRUE`, `MaxDatagrams = 3`, `MaxReplies = 2` |
| `Mux!LifetimeCloses` (docs/CONFIGURATION.md:153) | a Keep frame waits for the lock of a reader whose upstream is silent, or a write for a peer that does not read; the deadline is not polled meanwhile (mux.rs:568) | `MuxServer.cfg`, PROPERTY |
| `Mux!IdleOnlyWhenIdle` (docs/CONFIGURATION.md:157) | the idle timeout ends a mux that is downloading (mux.rs:141) | `Mux`: 2 `Sids`, `MaxTasks = 3`, `Spec` |
| `Xudp!HitAbortsReader` (docs/PROTOCOLS.md:388) | two readers share a socket after a hit (xudp.rs:76) | `Xudp`: 2 `Muxes`, 1 id, `MaxCones = 1` |
| `Xudp!DetachSparesOthers` (xudp.rs:59) | the End of the old mux stops the reader of the new one (xudp.rs:105) | the same |
| `Xudp!ReadersEnd` (docs/RISKS.md:254) | after a deadline or an error the XUDP reader stays for ever (mux.rs:130) | the same with `ConeFairSpec`, one mux |

The passing runs state what does hold in each of these places: the gauge with its
exact error (`GaugeCountsSessions`), gaps only after an overflow
(`GapOnlyByOverflow`), frames unless a read is cut (in `RelayedIsExact`), one reader
unless two muxes contend (`SoleReader`), leftovers only after a start that failed
half-way, and the NAT rule of AmneziaWG, which nothing takes back
(`LeftoversExplained`), the id of a POST unless its session or an older one had two
(`GetsMeetTheirPosts`), an abort only where header plus declared length wraps
(`AnswersAreExact`), a stream kept whole by every look but the failed one of the TUN
client, whose connection is closed (`PeekKeepsStream`), the lifetime of a mux unless
the loop stands in a frame for ever (`LifetimeClosesOrStands`), and the lifetime of a
relay whose peers read. `CheckedConfigStarts` names the fields that `validate` does not look at and
that can still make a start fail.

### Fairness

Nothing is assumed of clients unless a run says so.

* `Server` (`FairSpec`): weak fairness for steps the server takes by itself and for
  steps one of its timers forces: the ten seconds of the handshake, the connect
  timeout, REALITY's five seconds. Connects are taken to end, which holds when the
  resolver answers (it is awaited outside the connect timeout).
* `Session`, `Mux`: strong fairness for a select branch that becomes ready again
  and again (`LifetimeFires`, `LifetimeTimeout`, `ControlEof`): tokio's `select!`
  polls its branches in random order, so such a branch is not passed over for ever.
  `ReadingPeers` (in `FairSpec` of `Session`) adds peers that read; without it TLC
  refutes `LifetimeCloses` (see above). Nothing is assumed of the peers of a mux:
  `LifetimeClosesOrStands` says what holds when a peer is silent or does not read. In
  `Mux` the lock goes to whoever asked first, as tokio's mutex does.
* `Xudp`: expiry times come and the clean-up task runs.
* `DataPath` (`PathFairSpec`): a push in progress finishes, a session reads its
  uplink, polls under way finish, and the client reads its response.
* `Process` (`FairSpec`): the scheduler runs every task that can move, and the
  commands of `start` and `apply` return. Nothing is assumed of sessions, of the API
  and metrics tasks, of children and of signals; that shutdown ends all the same is
  the grace period of five seconds.

## Proofs

`tlapm` checks eight modules. The constants are arbitrary within the named
assumptions: any set of loops, any finite set of connections, any limit above zero,
any number of payloads, requests, ids, muxes, sessions, addresses and bytes. Most
invariants of the runs are not inductive; each item says what is added and why.

* **`ServerProofs`**, the gate: `GateTypeCorrect`, `PermitsAreCounted`, `LimitHolds`.
  `AtMostMax` says nothing of the counter. `GateInv` adds that the counter is the
  number of permits, that a value a loop has read is below the limit, and that a
  connection is asked for by one loop at a time and holds no permit meanwhile. A
  successful swap then proves that the value read is still the count.
* **`ServerProofs`**, the server: the same limit for the composed server
  (`ServerKeepsLimit`), `SlotsFollowSessions` (a permit exists exactly while the
  session task lives), `GaugeIsRight` and `IdentitiesWereValid`. `SlotInv` joins
  `GateInv` with: stages have their type, a loop's `hand` is an accepted connection
  that no other loop has, and `SlotPerSession`. The gate's lemmas are reused; session
  steps are grouped by what they do to the stage (inside to inside, outside to
  outside) so that each early return is one line. `GaugeInv` adds the cardinality
  argument: one step changes the set of open sessions by at most one element.
  `IdentityInv` follows the session's copy of the store: from accept on, whatever is
  in the copy or in the store has been in the store since then, and nobody is
  identified before the handshake is over.
* **`LimitersProofs`**, logins: `BansAreShort`, `OnlyTimeEndsBans`, `BansEscalate`
  and `LimiterImplementsBan`, the refinement of `AuthBan`. `LimiterInv` relates the
  map to the clock and to the history of bans: windows do not start in the future,
  a ban is over within the length that its level gives it, and an address whose
  last ban is running, or not older than a window, is still in the map with its
  level and the end of its ban. The last part is what the sweep could break; it
  holds because the sweep keeps an address until its ban is over and its window
  has run out. `PowersOfTwo` states the ten powers of two the code can shift to;
  exponentiation is outside the provers, so TLC evaluates it as an assumption. That
  the configured numbers are positive is what `validate` enforces.
* **`LimitersProofs`**, RPCs: `RpcsStayLimited`. `ApiInv` says how the calls let
  through lie in the windows: the last `count` in the open one, at most `limit` in the
  one before, and what came earlier more than a second before the open one began. So
  any `2 * limit` calls in a row end a second after they began. `LimitersKeepApart`
  states both limiters of the specification that the run checks.
* **`MuxProofs`**, sessions: `OpenSessionsAreKnown`, `EndIsLast`,
  `NoReaderOutlivesClose`. `MuxInv` joins them with: readers are numbered in the order
  of their sessions, an id has one reader that is not done, the loop opens only an id
  whose last reader is done, and the table finds every reader that is not done, except
  the one that is about to be inserted (`InTable`, which is stronger than
  `OpenIsInTable`: it includes readers about to remove themselves). The three hold
  while no id was opened anew under a running reader; the invariant carries that
  condition, for the code does not enforce it.
* **`MuxProofs`**, cones: `SoleUserKeepsCone` and
  `ReadersShareNoSocket`. A hit stops the reader of the mux before only if that reader
  was registered, in the entry that is still there. `ConeInv` therefore follows the
  socket: a GlobalID has one user at a time and the entry with its socket, an entry's
  socket is found under no other GlobalID, a running reader is registered in the entry
  or its mux is about to do it, and names of sockets to come are unused. It carries
  `~contested`, as the two properties do.
* **`RelayProofs`**: `RelayImplementsPipes`, `IdleMeansIdle`, `TotalsAreExact`, for
  constants that are numbers (`RelayConstants`). `Pipe` speaks of bytes that have
  arrived. `RelayInv` says where the others are: in `select` and in a shutdown
  everything read has been written and counted, and in `write_all` what is missing is
  the rest of the chunk in hand (`InChunk`). Each step is then a step of `Pipe` for
  one direction and a stutter for the other. `TimeInv`, that the idle deadline is
  never earlier than the last byte plus the timeout, gives `IdleMeansIdle`.
* **`SessionProofs`**: `SessionsArePipes` and `SessionsIdleOut` carry the results about
  `Relay` over to `Session`; `RelaysAreExact` and `RepliesFindTheirPeer` add the
  datagram relays. `UdpInv` says that, as long as no read was cut, the place in the
  stream tells what the read holds and how many frames were sent. `AssocInv` says that
  whoever waits for a reply waits for the datagram in hand and every answer given so
  far went to the sender of its datagram.
* **`XhttpProofs`**, uplink: `PacketUpTypeCorrect`, `UplinkIsOrdered`,
  `GapsComeFromOverflow`, `NothingIsHeldBack`. All four are stated of what has been
  read followed by what is queued, so that a read changes nothing. `PendingAhead` says
  that the map holds no number that was already passed; with it, the next number
  passed is above every earlier one, and equal to their count as long as no overflow
  happened.
* **`XhttpProofs`**, response body: `BodiesAreInOrder`. `BodyInv` says that each chunk
  in the channel is the one after its predecessor or, once a write met a full channel,
  the same again (`Walk`), and that the newest one, and the one that is kept in
  `pending`, is the last the writer reported or the one after it.
* **`XhttpProofs`**, registry: `GetsMeetPosts`, for any requests on any connections.
  The clause about a GET that was told of the end needs to know that its session is out
  of the map, so that no request can join it any more (`EndedIsOver`), and that a
  request joins nothing before it is handled (`Joined`). `OneSender` says that a
  connection has one request that took its sender. The clause about the id of a POST
  (`KeepsId`) needs to know that the map holds the newest session or none: a POST that
  takes the id from another one fed the same session, or had lost the id itself, by
  induction to a session that was shared and not newer.
* **`ClientProofs`**, streams: `PostsCarryWrites` keeps apart the payloads posted, under way and
  in the channel, each known to begin where the one before it ends (`Chain`), and who
  has stopped and why (`XcControl`). `PeekedStreamsAreWhole` says that the prefix holds
  the positions that come next, up to where the stream was read. `DnsAnswersAreExact`
  says how much of an answer has been read in each phase, which bounds it where a
  limit is met.
* **`ClientProofs`**, TUN datagrams: `RepliesComeFromTheirTarget` and
  `DatagramsKeepOrder`, for any addresses, sizes, MTUs and number of datagrams
  (`TunAssumption`). `TunInv` says what is in the queues of a flow: a datagram only if
  it is bound for the flow's target, under the DNS mode in force (`BoundFor`), the ones
  still to be written in their order and after everything written to that target, by
  this flow or an earlier one (`FlowOK`). A datagram that finds its flow ended is
  remembered under the flow's first datagram, and no entry of the table names that flow
  any more (`MissedOK`), so a flow costs one. The MTU stays within its limits under the
  16-bit cast of the probe and every ICMP message, and the payload it allows never
  exceeds the one the configured MTU allows.
* **`ProcessProofs`**: `ValidConfigsStart` and `NothingIsLeftBehind`, for any set of
  configuration files with the fields of their sections (`FilesAssumption`) and any
  bypass routes. The first rests on lemmas about the two configurations, section by
  section: each `expect` of the start-up is covered by a check of `validate`, and each
  start that can fail on a validated file fails on a field named in `NotValidated` or
  `ClientNotValidated`. `ProcessInv` carries this through a run: which parts are alive
  under which command (`Places`, `SidePlaces`), so that a part only ever sees a
  validated file; what a manager owns at each step of its life (`SideShape`, and `NatShape` for the NAT
  rule); and what
  the TUN task has put in place before its guard exists (`TunShape`). `Ending` says
  that a process ends by itself only after its managers and the TUN task are over.

The assumptions are on the constants only: numbers are natural, sizes that the code
never sets to zero are positive, and inputs are records of the shape the module
describes. TLC evaluates each of them in a passing run.

The theorems of `XhttpProofs` and `ClientProofs` are about the specification of a
part (`RegSpec`, `XcSpec`, `Body!Spec`, ...). In `DataPath` exactly one part moves and
its steps are those of its specification; that composition is left to TLC.

Only model-checked, and why:

* Liveness and everything under fairness (`SetUpEnds`, `LifetimeCloses`,
  `LifetimeClosesOrStands`, `ControlCloseEnds`, `PassedIsRead`, `AcceptedIsSent` and those of `Process`): the
  installed provers handle neither ENABLED nor fairness.
* `ParsersAreExact`, `TunnelCarriesRequest` and `ChunksAreExact`: they say what
  recursive definitions over bytes compute, which needs induction over data.

## Abstractions worth knowing

* `Server.ReplyFail` is bounded by `MaxLost`, a bound of the model that also bounds
  the gauge; the proofs hold for every value of it.
* `Relay` bounds bytes and time; after `MaxTime` the clock stands still, which
  lets deadlines stay due.
* `Xudp` has no `Initializing` status: the code sets and leaves it under one lock.
* `Mux.OpenIsInTable`, `NoDataAfterEnd` and `CloseStopsReaders` are stated for
  clients that do not open an id anew while its last reader is running. Otherwise
  the old reader removes the new session (`mux.rs:477`).
* `Socks5Udp` and `UdpRelay` model the payload's frame or number, not its bytes. A
  length read out of step can be anything up to `MaxLen`.
* `Process` has one session, whose steps are in `Server`, and no time: a timeout may
  fire when it could. `SIGHUP` is in `Server`.
* A field of `ServerConfig` or `ClientConfig` has one value for each class of
  contents that some check or some later use tells apart (a file that is missing,
  readable, or readable and no PEM).
* In `Peek`, `DnsUpstream` and `Chunked` a byte is its position or its kind; what a
  name or an answer says is part of the input.
* `XhttpRegistry` follows one session id; ids share nothing but the map. Which requests
  share a connection is part of the scenario: HTTP/1 connections carry one
  (`keep_alive(false)`), HTTP/2 connections several. It counts the
  pieces in the queue of a session and leaves out what they hold.
* `ApiRateLimiter` remembers when each call let through came, at most `MaxCalls` of
  them, so that its property can look at any second and not only at its windows.
* In `Mux` an aborted task is gone at once; tokio ends it at its next await.
* In `Process` the end of the API task is not told apart by its cause: a TLS
  identity that does not load ends it as a taken port does.
* Whether credentials match, a certificate verifies or an address passes the
  outbound policy is an outcome, chosen freely.

## Not modelled

* Cryptography: keys, certificates and the authentication of REALITY, hybrid key
  exchange, the TLS library. The models have their outcomes.
* The text of the sidecars' configuration files and of `ip`, `iptables` and `wg`
  commands, except for what makes rendering or a command fail.
* Reading TOML and the defaults of absent fields: library and data.
* Name resolution and the classification of addresses by the outbound policy: pure
  functions of library types.
* The BIND command of SOCKS5 beyond its relay stage in `Server`.
* Request and response plumbing of the gRPC service, the audit log, the metrics
  endpoint and the log set-up.
* The copy of raw packets between TUN device and network stack, and that stack.
* The load generator `soak_load`, `genkey` and the wording of the command line.
