------------------------------- MODULE Server -------------------------------
(***************************************************************************)
(* The proxy server (skadi-server/src/lib.rs): accept loops that admit     *)
(* connections through the ban check and the connection gate, one task per *)
(* session from the transport handshake to the end of the relay, the user  *)
(* store that SIGHUP and the gRPC API change under running sessions, the   *)
(* active-connections gauge, and shutdown.  A step of a session lies       *)
(* between two awaits; everything else may happen in between.              *)
(***************************************************************************)
EXTENDS ConnectionGate

CONSTANTS
  IPs,          \* peer addresses
  PeerOf,       \* the address each connection comes from
  MaxFailures,  \* the limiter's threshold
  Users,        \* identities; an anonymous one stands for auth = false
  Transport,    \* "plain", "tls" or "reality"
  Xhttp,        \* TRUE: sessions arrive inside XHTTP
  Protocols,    \* the protocols enabled when the process started
  MaxEdits,     \* bound of the model: changes of the user store
  MaxLost,      \* bound of the model: SOCKS5 replies that cannot be written
  CanStop       \* bound of the model: FALSE leaves shutdown out

ASSUME ServerAssumption ==
  /\ "nobody" \notin Conns
  /\ PeerOf \in [Conns -> IPs]
  /\ MaxFailures \in Nat \ {0}
  /\ Transport \in {"plain", "tls", "reality"}
  /\ Xhttp \in BOOLEAN /\ CanStop \in BOOLEAN
  /\ Protocols \subseteq {"socks5", "vless"} /\ Protocols # {}
  /\ MaxEdits \in Nat /\ MaxLost \in Nat

VARIABLES
  fails, banned,  \* the login limiter, see AuthBan
  stage,          \* where each connection stands
  hand,           \* the connection each accept loop has accepted and is admitting
  http,           \* connections an XHTTP server task still serves
  proto, user, cmd,  \* what the handshake of a connection settled
  store,          \* UserStore: users and enabled flag of each protocol
  snapshot,       \* the users each session copied from the store
  sinceAccept,    \* history: users and flags in force at some time of the session
  edits,          \* number of store changes so far
  gauge,          \* skadicore_active_connections
  lost,           \* history: SOCKS5 replies that could not be written
  signalled,      \* the shutdown watch channel holds true
  stopped,        \* accept loops that have returned
  exited          \* the process is gone

storeVars == <<store, edits>>
sessionVars == <<stage, hand, http, proto, user, cmd, snapshot, sinceAccept>>
stopVars == <<signalled, stopped, exited>>
banVars == <<fails, banned>>
gaugeVars == <<gauge, lost>>
vars == <<gateVars, banVars, sessionVars, storeVars, gaugeVars, stopVars>>

Ban == INSTANCE AuthBan

Commands(p) ==
  IF p = "socks5" THEN {"connect", "bind", "udp_associate"} ELSE {"tcp", "udp", "mux"}

AllProtocols == {"socks5", "vless"}

NoOne == "nobody"

(* Stages of a connection without a session task. *)
Outside == {"absent", "backlog", "accepted"}

Negotiating == {"transport", "xhttp", "snapshot", "snapshot2", "sniff", "handshake"}

(* Stages between connection_opened and the relay's last step. *)
Opened == {"connect", "reply", "relay"}

Stages == Outside \cup Negotiating \cup Opened \cup {"fallback", "dispatch", "ended"}

NoUsers == [p \in AllProtocols |-> {}]

Nothing == [users |-> NoUsers, enabled |-> {}]

Init ==
  /\ GateInit
  /\ Ban!BanInit
  /\ stage = [c \in Conns |-> "absent"]
  /\ hand = [l \in Loops |-> NoOne]
  /\ http = {}
  /\ proto = [c \in Conns |-> NoOne]
  /\ user = [c \in Conns |-> NoOne]
  /\ cmd = [c \in Conns |-> NoOne]
  /\ store = [users |-> [p \in AllProtocols |-> Users], enabled |-> Protocols]
  /\ edits = 0
  /\ snapshot = [c \in Conns |-> NoUsers]
  /\ sinceAccept = [c \in Conns |-> Nothing]
  /\ gauge = 0 /\ lost = 0
  /\ signalled = FALSE
  /\ stopped = {}
  /\ exited = FALSE

-----------------------------------------------------------------------------
(* A session step of c that moves it from one stage to another. *)
Go(c, from, to) ==
  /\ ~exited
  /\ stage[c] = from
  /\ stage' = [stage EXCEPT ![c] = to]
  /\ hand' = hand

Settled == UNCHANGED <<proto, user, cmd>>

Untouched == UNCHANGED <<gateVars, banVars, storeVars, stopVars>>

(* A session step that changes nothing but the stage. *)
Move(c, from, to) ==
  /\ Go(c, from, to)
  /\ UNCHANGED <<http, snapshot, sinceAccept, gaugeVars>> /\ Settled /\ Untouched

(* The first stage of a session task, and the one after its transport. *)
AfterTransport == IF Xhttp THEN "xhttp" ELSE "snapshot"

FirstStage == IF Transport = "plain" THEN AfterTransport ELSE "transport"

EnterXhttp(c, to) == http' = IF to = "xhttp" THEN http \cup {c} ELSE http

(* A client connects to a listening address. *)
Arrive(c) ==
  /\ c \notin http
  /\ Move(c, "absent", "backlog")

(* The select of an accept loop polls the shutdown channel first, so a loop *)
(* takes a connection only while it has not been told to stop.  Accept and  *)
(* is_blocked: a connection of a banned address is dropped, any other one   *)
(* goes on to the gate, whatever happens to its address in between.         *)
Accept(l, c) ==
  /\ ~exited /\ ~signalled /\ l \notin stopped
  /\ hand[l] = NoOne /\ stage[c] = "backlog"
  /\ IF PeerOf[c] \in banned
     THEN /\ stage' = [stage EXCEPT ![c] = "absent"]
          /\ hand' = hand
     ELSE /\ stage' = [stage EXCEPT ![c] = "accepted"]
          /\ hand' = [hand EXCEPT ![l] = c]
  /\ UNCHANGED <<http, snapshot, sinceAccept, gaugeVars>> /\ Settled /\ Untouched

(* The gate has answered loop l, or not yet: the task of an admitted        *)
(* connection is spawned, a refused one is dropped.                         *)
Answered(l) ==
  LET c == hand[l] IN
  \/ /\ c \in permits'
     /\ stage' = [stage EXCEPT ![c] = FirstStage]
     /\ hand' = [hand EXCEPT ![l] = NoOne]
     /\ EnterXhttp(c, FirstStage)
     /\ sinceAccept' = [sinceAccept EXCEPT ![c] = store]
  \/ /\ c \notin permits' /\ attempt'[l] = Resting
     /\ stage' = [stage EXCEPT ![c] = "absent"]
     /\ hand' = [hand EXCEPT ![l] = NoOne]
     /\ UNCHANGED <<http, sinceAccept>>
  \/ /\ attempt'[l] # Resting
     /\ UNCHANGED <<stage, hand, http, sinceAccept>>

(* try_acquire, one access to the counter at a time. *)
AskGate(l) ==
  /\ ~exited
  /\ hand[l] # NoOne
  /\ TryAcquire(l, hand[l]) \/ SwapOk(l) \/ SwapRetry(l)
  /\ Answered(l)
  /\ UNCHANGED <<banVars, storeVars, stopVars, snapshot, gaugeVars>> /\ Settled

-----------------------------------------------------------------------------
(* The TLS or REALITY handshake completes. *)
TransportOk(c) ==
  /\ Go(c, "transport", AfterTransport)
  /\ EnterXhttp(c, AfterTransport)
  /\ UNCHANGED <<snapshot, sinceAccept, gaugeVars>> /\ Settled /\ Untouched

(* It fails: a bad hello, a closed connection or, with REALITY, one of its  *)
(* five-second timeouts.                                                    *)
TransportFail(c) == Move(c, "transport", "ended")

(* Mutant: the fallback relay runs in a task of its own, without the permit. *)
RealityFallback_FreesSlot(c) ==
  /\ Transport = "reality"
  /\ Go(c, "transport", "fallback")
  /\ Release(c)
  /\ UNCHANGED <<http, snapshot, sinceAccept, gaugeVars, banVars, storeVars, stopVars>>
  /\ Settled

(* REALITY relays a stranger to its dest; the slot is held meanwhile. *)
RealityFallback(c) ==
  /\ Transport = "reality"
  /\ Move(c, "transport", "fallback")

FallbackEnds(c) == Move(c, "fallback", "ended")

(* accept_xhttp returns Upgraded: a duplex stream over the request that the *)
(* HTTP task goes on serving.                                               *)
XhttpUpgraded(c) ==
  /\ c \in http
  /\ Move(c, "xhttp", "snapshot")

(* accept_xhttp returns PostHandled: the session task ends although the     *)
(* HTTP task may still be reading the body of the POST.                     *)
XhttpPostHandled(c) ==
  /\ c \in http
  /\ Move(c, "xhttp", "ended")

(* The HTTP task ends: the client has gone, or the response is complete.    *)
(* A session task that was told of no request by then waits for ever: it    *)
(* holds a reference to the sender it waits for, so that the channel never  *)
(* closes and accept_xhttp never returns Disconnected.                      *)
HttpEnds(c) ==
  /\ ~exited
  /\ c \in http
  /\ http' = http \ {c}
  /\ UNCHANGED <<stage, hand, snapshot, sinceAccept, gaugeVars>> /\ Settled /\ Untouched

-----------------------------------------------------------------------------
(* handle_connection starts by copying the store, one lock per protocol.    *)
SnapshotSocks(c) ==
  /\ Go(c, "snapshot", "snapshot2")
  /\ snapshot' = [snapshot EXCEPT ![c]["socks5"] = store.users["socks5"]]
  /\ UNCHANGED <<http, sinceAccept, gaugeVars>> /\ Settled /\ Untouched

(* Mutant: the VLESS users are those of the start, not those of the store. *)
SnapshotVless_AtStart(c) ==
  /\ Go(c, "snapshot2", "sniff")
  /\ snapshot' = [snapshot EXCEPT ![c]["vless"] = Users]
  /\ UNCHANGED <<http, sinceAccept, gaugeVars>> /\ Settled /\ Untouched

(* With two protocols the first byte decides; a single one needs no byte.   *)
SnapshotVless(c) ==
  /\ snapshot' = [snapshot EXCEPT ![c]["vless"] = store.users["vless"]]
  /\ \/ /\ Protocols = AllProtocols
        /\ Go(c, "snapshot2", "sniff")
        /\ proto' = proto
     \/ /\ Protocols # AllProtocols
        /\ Go(c, "snapshot2", "handshake")
        /\ \E p \in Protocols : proto' = [proto EXCEPT ![c] = p]
  /\ UNCHANGED <<http, sinceAccept, gaugeVars, user, cmd>> /\ Untouched

(* The client's first byte names a protocol.  It is compared with the flags *)
(* of the start, not with those of the store.                               *)
Sniff(c) ==
  /\ Go(c, "sniff", "handshake")
  /\ \E p \in Protocols : proto' = [proto EXCEPT ![c] = p]
  /\ UNCHANGED <<http, snapshot, sinceAccept, gaugeVars, user, cmd>> /\ Untouched

(* The client closes before its first byte, or the byte is unknown. *)
SniffFail(c) == Move(c, "sniff", "ended")

(* The handshake succeeds for a user of the session's snapshot. *)
HandshakeOk(c) ==
  /\ Go(c, "handshake", "dispatch")
  /\ \E u \in snapshot[c][proto[c]] : user' = [user EXCEPT ![c] = u]
  /\ \E k \in Commands(proto[c]) : cmd' = [cmd EXCEPT ![c] = k]
  /\ UNCHANGED <<http, snapshot, sinceAccept, gaugeVars, proto>> /\ Untouched

(* The client shows no valid credential: the limiter counts the failure. *)
HandshakeRefused(c) ==
  /\ Go(c, "handshake", "ended")
  /\ Ban!Fail(PeerOf[c])
  /\ UNCHANGED <<http, snapshot, sinceAccept, gaugeVars, gateVars, storeVars, stopVars>>
  /\ Settled

(* A malformed handshake, a closed connection or the ten-second timeout. *)
HandshakeFail(c) == Move(c, "handshake", "ended")

(* Mutant: the policy is asked after connection_opened. *)
PolicyRefuses_AfterOpened(c) ==
  /\ cmd[c] \notin {"bind", "udp_associate"}
  /\ Go(c, "dispatch", "ended")
  /\ gauge' = gauge + 1
  /\ UNCHANGED <<lost, http, snapshot, sinceAccept>> /\ Settled /\ Untouched

(* The outbound policy refuses the literal target of a relay. *)
PolicyRefuses(c) ==
  /\ cmd[c] \notin {"bind", "udp_associate"}
  /\ Move(c, "dispatch", "ended")

(* connection_opened: BIND, UDP ASSOCIATE and mux go straight to their      *)
(* relay, the others connect to their target first.                         *)
OpenRelay(c) ==
  /\ Go(c, "dispatch",
        IF cmd[c] \in {"bind", "udp_associate", "mux"} THEN "relay" ELSE "connect")
  /\ gauge' = gauge + 1
  /\ UNCHANGED <<lost, http, snapshot, sinceAccept>> /\ Settled /\ Untouched

ConnectOk(c) ==
  Move(c, "connect", IF proto[c] = "socks5" THEN "reply" ELSE "relay")

(* Mutant: a failed connect is tried again, without a limit. *)
ConnectFail_Retries(c) ==
  /\ Go(c, "connect", "dispatch")
  /\ gauge' = gauge - 1
  /\ UNCHANGED <<lost, http, snapshot, sinceAccept>> /\ Settled /\ Untouched

(* The connect failed or timed out: connection_failed. *)
ConnectFail(c) ==
  /\ Go(c, "connect", "ended")
  /\ gauge' = gauge - 1
  /\ UNCHANGED <<lost, http, snapshot, sinceAccept>> /\ Settled /\ Untouched

ReplyOk(c) == Move(c, "reply", "relay")

(* The SOCKS5 reply cannot be written: the session returns at once. *)
ReplyFail(c) ==
  /\ lost < MaxLost /\ lost' = lost + 1
  /\ Go(c, "reply", "ended")
  /\ UNCHANGED <<gauge, http, snapshot, sinceAccept>> /\ Settled /\ Untouched

(* finish_relay: connection_closed or connection_failed. *)
RelayEnds(c) ==
  /\ Go(c, "relay", "ended")
  /\ gauge' = gauge - 1
  /\ UNCHANGED <<lost, http, snapshot, sinceAccept>> /\ Settled /\ Untouched

(* The session task returns and drops its permit. *)
Finish(c) ==
  /\ Go(c, "ended", "absent")
  /\ Release(c)
  /\ proto' = [proto EXCEPT ![c] = NoOne]
  /\ user' = [user EXCEPT ![c] = NoOne]
  /\ cmd' = [cmd EXCEPT ![c] = NoOne]
  /\ snapshot' = [snapshot EXCEPT ![c] = NoUsers]
  /\ sinceAccept' = [sinceAccept EXCEPT ![c] = Nothing]
  /\ UNCHANGED <<http, gaugeVars, banVars, storeVars, stopVars>>

-----------------------------------------------------------------------------
(* The store changes; the history of the running sessions takes note. *)
SetStore(new) ==
  /\ ~exited
  /\ edits < MaxEdits /\ edits' = edits + 1
  /\ new # store /\ store' = new
  /\ sinceAccept' = [c \in Conns |->
       IF stage[c] \in Outside THEN sinceAccept[c]
       ELSE [users |-> [p \in AllProtocols |->
                          sinceAccept[c].users[p] \cup new.users[p]],
             enabled |-> sinceAccept[c].enabled \cup new.enabled]]
  /\ UNCHANGED <<gateVars, banVars, stopVars, gaugeVars, stage, hand, http, snapshot>>
  /\ Settled

(* gRPC API: add or remove one user of one protocol. *)
AddUser(p, u) ==
  u \notin store.users[p] /\ SetStore([store EXCEPT !.users[p] = @ \cup {u}])

RemoveUser(p, u) ==
  u \in store.users[p] /\ SetStore([store EXCEPT !.users[p] = @ \ {u}])

(* SIGHUP: users and flags are replaced by those of the file. *)
ReloadFromProtocol ==
  \E us \in [AllProtocols -> SUBSET Users], on \in SUBSET AllProtocols \ {{}} :
    SetStore([users |-> us, enabled |-> on])

(* Time ends bans. *)
BansEnd(over) ==
  /\ ~exited
  /\ Ban!BansEnd(over)
  /\ UNCHANGED <<gateVars, storeVars, stopVars, gaugeVars, sessionVars>>

-----------------------------------------------------------------------------
(* SIGTERM or Ctrl-C: run sends true on the watch channel. *)
Signal ==
  /\ CanStop /\ ~signalled /\ ~exited
  /\ signalled' = TRUE
  /\ UNCHANGED <<gateVars, banVars, sessionVars, storeVars, gaugeVars, stopped, exited>>

(* An accept loop sees the signal at its next poll and returns. *)
LoopStops(l) ==
  /\ ~exited /\ signalled /\ l \notin stopped /\ hand[l] = NoOne
  /\ stopped' = stopped \cup {l}
  /\ UNCHANGED <<gateVars, banVars, sessionVars, storeVars, gaugeVars, signalled, exited>>

(* run returns when the server task is joined or after five seconds; the    *)
(* runtime then drops every task that is left.                              *)
Exit ==
  /\ signalled /\ ~exited
  /\ exited' = TRUE
  /\ UNCHANGED <<gateVars, banVars, sessionVars, storeVars, gaugeVars, signalled, stopped>>

AcceptLoop(l) ==
  \/ \E c \in Conns : Accept(l, c)
  \/ AskGate(l)
  \/ LoopStops(l)

SessionTask(c) ==
  \/ TransportOk(c) \/ TransportFail(c) \/ RealityFallback(c) \/ FallbackEnds(c)
  \/ XhttpUpgraded(c) \/ XhttpPostHandled(c) \/ HttpEnds(c)
  \/ SnapshotSocks(c) \/ SnapshotVless(c) \/ Sniff(c) \/ SniffFail(c)
  \/ HandshakeOk(c) \/ HandshakeRefused(c) \/ HandshakeFail(c)
  \/ PolicyRefuses(c) \/ OpenRelay(c)
  \/ ConnectOk(c) \/ ConnectFail(c) \/ ReplyOk(c) \/ ReplyFail(c)
  \/ RelayEnds(c) \/ Finish(c)

Next ==
  \/ \E c \in Conns : Arrive(c) \/ SessionTask(c)
  \/ \E l \in Loops : AcceptLoop(l)
  \/ \E p \in AllProtocols, u \in Users : AddUser(p, u) \/ RemoveUser(p, u)
  \/ ReloadFromProtocol
  \/ \E over \in SUBSET IPs : BansEnd(over)
  \/ Signal
  \/ Exit

Spec == Init /\ [][Next]_vars

(* Steps the server takes by itself or that a timer of its own forces: the  *)
(* ten seconds of the handshake, the connect timeout and, with REALITY,     *)
(* the five seconds of its hello.  Nothing is assumed of the client: not    *)
(* its first byte, not a TLS or HTTP message, not the end of its relay.     *)
Fairness ==
  \A c \in Conns :
    /\ WF_vars(SnapshotSocks(c)) /\ WF_vars(SnapshotVless(c))
    /\ WF_vars(HandshakeOk(c) \/ HandshakeRefused(c) \/ HandshakeFail(c))
    /\ WF_vars(PolicyRefuses(c) \/ OpenRelay(c))
    /\ WF_vars(ConnectOk(c) \/ ConnectFail(c))
    /\ WF_vars(ReplyOk(c) \/ ReplyFail(c))
    /\ WF_vars(Transport = "reality"
                 /\ (TransportOk(c) \/ TransportFail(c) \/ RealityFallback(c)))
    /\ WF_vars(Finish(c))

FairSpec == Spec /\ Fairness

-----------------------------------------------------------------------------
(* Type correctness of the server's own variables. *)
TypeOK ==
  /\ GateTypeOK
  /\ Ban!BanTypeOK
  /\ stage \in [Conns -> Stages]
  /\ hand \in [Loops -> Conns \cup {NoOne}]
  /\ http \in SUBSET Conns
  /\ proto \in [Conns -> AllProtocols \cup {NoOne}]
  /\ gauge \in Nat /\ lost \in 0 .. MaxLost
  /\ signalled \in BOOLEAN /\ exited \in BOOLEAN
  /\ stopped \in SUBSET Loops

(* A connection holds a permit exactly while its session task lives: every  *)
(* early return of the task gives the slot back, none gives it back early   *)
(* and a refused connection never has one.                                  *)
SlotPerSession == permits = {c \in Conns : stage[c] \notin Outside}

(* The gauge is the number of sessions between connection_opened and the    *)
(* end of their relay, except that each SOCKS5 reply that could not be      *)
(* written leaves it one too high for good.                                 *)
GaugeCountsSessions ==
  gauge = Cardinality({c \in Conns : stage[c] \in Opened}) + lost

(* A session speaks for a user that was in the store at some moment of the  *)
(* session: someone removed before the connection was accepted, and not     *)
(* added again, never gets in, whatever changes hit the store in between.   *)
IdentityWasValid ==
  \A c \in Conns : user[c] # NoOne => user[c] \in sinceAccept[c].users[proto[c]]

SetUpStages == Negotiating \cup {"dispatch", "connect", "reply"}

(* Every session leaves its set-up phase, however silent the client is.     *)
(* docs/PROTOCOLS.md and README.md promise a limit on all of negotiation.   *)
SetUpEnds == \A c \in Conns : stage[c] \in SetUpStages ~> stage[c] \notin SetUpStages

(* A client that disconnects before its XHTTP upgrade ends its session.     *)
(* XhttpError has a variant for it, accept_xhttp an arm that returns it.    *)
DisconnectedEnds ==
  \A c \in Conns : (stage[c] = "xhttp" /\ c \notin http) ~> stage[c] # "xhttp"

(* The gauge counts the sessions between connection_opened and their end,   *)
(* so it is zero when no session is left.  The code refutes it: see README. *)
GaugeReturnsToZero == (\A c \in Conns : stage[c] = "absent") => gauge = 0

(* No relay is cut by a shutdown.  The code refutes it: see README. *)
ShutdownSparesRelays == [][exited' # exited => \A c \in Conns : stage[c] # "relay"]_vars

(* A protocol disabled by SIGHUP before the connection was accepted, and    *)
(* not enabled again, serves nobody.  The code refutes it: see README.      *)
DisabledProtocolServesNobody ==
  \A c \in Conns : user[c] # NoOne => proto[c] \in sinceAccept[c].enabled

(* The limit counts every inbound connection the server is still serving.   *)
(* The code refutes it: see README.                                         *)
LimitCoversConnections ==
  Limited => Cardinality(permits \cup http) <= MaxConnections
=============================================================================
