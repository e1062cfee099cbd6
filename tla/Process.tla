------------------------------ MODULE Process -------------------------------
(***************************************************************************)
(* The skadicore process (skadi-server/src/main.rs) from its start to its  *)
(* end: check-config, export-awg-client, the server (run) and the client,  *)
(* with the start-up of run_server_with_store and of skadi_client::run,    *)
(* the daemons they supervise, the TUN task, signals and the exit.         *)
(*                                                                         *)
(* Init ranges over the configurations Files gives for each command; the   *)
(* environment may make any call fail that depends on it.  The program is  *)
(* built with panic = "abort": a panic in any task ends the process.       *)
(***************************************************************************)
EXTENDS ClientConfig, Sidecar, TunRouting

CONSTANTS ServerFiles,     \* server configurations to start from
          ClientFiles      \* client configurations to start from

(* A file that parses gives every field of every section one of its values. *)
HasSections(c, sections) ==
  \A s \in DOMAIN sections : \A f \in DOMAIN sections[s] : c[s][f] \in sections[s][f]

ASSUME FilesAssumption ==
  /\ \A c \in ServerFiles : HasSections(c, Sections)
  /\ \A c \in ClientFiles : HasSections(c, ClientSections)

VARIABLES command,         \* the subcommand
          conf,            \* the contents of its configuration file
          main,            \* the main task
          result,          \* what the process returned
          srv,             \* the server task: the stage of its start-up, then its life;
                           \* "client" when the client's inbounds are started
          why,             \* why the server task or the runner failed
          tasks,           \* helper tasks that are running
          session          \* one proxied session

vars == <<side, tun, shutdown, command, conf, main, result, srv, why, tasks, session>>

Commands == {"check-config", "export-awg-client", "run", "client"}

ProcessTypeOK ==
  /\ command \in Commands
  /\ main \in {"load", "spawned", "wait", "running", "sidecar", "stopping", "exited"}
  /\ result \in {"none", "ok", "error", "panic", "killed"}
  /\ srv \in {"none", "bind", "outbound", "inbound", "xhttp", "api", "metrics", "awg",
              "hysteria2", "tuic", "accept", "serving", "draining", "ended", "failed", "client"}
  /\ why \in {"none", "config", "environment"}
  /\ tasks \subseteq {"api", "metrics", "socks5"}
  /\ session \in {"none", "active", "done", "cut"}
  /\ side \in [Sidecars -> SideType] /\ tun \in TunType /\ shutdown \in BOOLEAN

Init ==
  /\ command \in Commands
  /\ conf \in IF command = "client" THEN ClientFiles ELSE ServerFiles
  /\ main = "load" /\ result = "none" /\ srv = "none" /\ why = "none"
  /\ tasks = {} /\ session = "none" /\ shutdown = FALSE
  /\ side = [s \in Sidecars |-> NoSide]
  /\ tun \in {[NoTun EXCEPT !.device = d] : d \in {"none", "other"}}
  /\ command # "client" => tun = NoTun

Exits(r) == main' = "exited" /\ result' = r

Task(next) == srv' = next /\ UNCHANGED <<main, result, why>>

ServerFails(reason) == srv' = "failed" /\ why' = reason /\ UNCHANGED <<main, result>>

Panics == Exits("panic") /\ UNCHANGED <<srv, why>>

(* A stage of the start-up that reaches nothing outside the process. *)
Stage(at, ok, next) ==
  /\ main # "exited" /\ srv = at
  /\ IF ok THEN Task(next) ELSE ServerFails("config")

Quiet == UNCHANGED <<command, conf, shutdown, session, tun>>

(***************************************************************************)
(* The commands.                                                           *)
(***************************************************************************)
check_config ==
  /\ main = "load" /\ command = "check-config"
  /\ Exits(IF validate(conf) THEN "ok" ELSE "error")
  /\ UNCHANGED <<srv, why, tasks, side>> /\ Quiet

(* Of the server's section only its own key, from which the public key is   *)
(* derived, and the obfuscation go into the client's file.                  *)
export_awg_client_conf(c) ==
  /\ awg_server_config(c)
  /\ c.awg.private_key \notin {"bad", "placeholder"}
  /\ build_amnezia_settings(c.awg.obfuscation)

(* The peer asked for may not exist or have a bad address, the client's key *)
(* or the endpoint in the arguments may be bad, the file may not be written.*)
ExportAwgClient ==
  /\ main = "load" /\ command = "export-awg-client"
  /\ \/ validate(conf) /\ export_awg_client_conf(conf) /\ Exits("ok")
     \/ Exits("error")
  /\ UNCHANGED <<srv, why, tasks, side>> /\ Quiet

run_server ==
  /\ main = "load" /\ command = "run"
  /\ IF validate(conf)
     THEN main' = "spawned" /\ srv' = "bind" /\ UNCHANGED result
     ELSE Exits("error") /\ UNCHANGED srv
  /\ UNCHANGED <<why, tasks, side>> /\ Quiet

(***************************************************************************)
(* run_server_with_store, stage by stage.                                  *)
(***************************************************************************)
bind_listeners ==
  /\ main # "exited" /\ srv = "bind"
  /\ Task("outbound") \/ ServerFails("environment")
  /\ UNCHANGED <<tasks, side>> /\ Quiet

(* Without a ca_file the system may have no roots. *)
BuildOutbound ==
  /\ main # "exited" /\ srv = "outbound"
  /\ \/ OutboundPanics(conf) /\ Panics
     \/ ~OutboundPanics(conf) /\ Stage("outbound", outbound_tcp_transport(conf), "inbound")
     \/ /\ ~OutboundPanics(conf)
        /\ conf.outbound_tls.enabled /\ conf.outbound_tls.ca_file = "none"
        /\ ServerFails("environment")
  /\ UNCHANGED <<tasks, side>> /\ Quiet

(* The certificate fetched for REALITY is best effort. *)
BuildInbound ==
  /\ main # "exited" /\ srv = "inbound"
  /\ IF conf.reality.enabled /\ RealityPanics(conf) THEN Panics
     ELSE Stage("inbound", CASE conf.reality.enabled -> RealityTransport_new(conf)
                             [] conf.tls.enabled -> TlsTransport_new(conf)
                             [] OTHER -> TRUE, "xhttp")
  /\ UNCHANGED <<tasks, side>> /\ Quiet

BuildXhttp ==
  /\ Stage("xhttp", conf.xhttp.enabled => xhttp_config(conf), "api")
  /\ UNCHANGED <<tasks, side>> /\ Quiet

SpawnApi ==
  /\ Stage("api", TRUE, "metrics")
  /\ tasks' = IF conf.api.enabled THEN tasks \cup {"api"} ELSE tasks
  /\ UNCHANGED side /\ Quiet

(* The recorder of the process may not be installed. *)
SpawnMetrics ==
  /\ main # "exited" /\ srv = "metrics"
  /\ \/ /\ Task("awg")
        /\ tasks' = IF conf.metrics.enabled THEN tasks \cup {"metrics"} ELSE tasks
     \/ conf.metrics.enabled /\ ServerFails("environment") /\ UNCHANGED tasks
  /\ UNCHANGED side /\ Quiet

SpawnSidecar(s, ok, next) ==
  /\ Stage(s, conf[s].enabled => ok, next)
  /\ side' = IF conf[s].enabled /\ ok THEN [side EXCEPT ![s].pc = "start"] ELSE side
  /\ UNCHANGED tasks /\ Quiet

SpawnAwg == SpawnSidecar("awg", awg_server_config(conf), "hysteria2")

SpawnHysteria2 == SpawnSidecar("hysteria2", hysteria2_server_config(conf), "tuic")

SpawnTuic == SpawnSidecar("tuic", tuic_server_config(conf), "accept")

SpawnAcceptLoops ==
  /\ Stage("accept", TRUE, IF enabled_protocols(conf) = {} THEN "draining" ELSE "serving")
  /\ UNCHANGED <<tasks, side>> /\ Quiet

(* accept_loop: sessions are tasks of their own. *)
AcceptSession ==
  /\ main # "exited" /\ srv = "serving" /\ session = "none"
  /\ session' = "active"
  /\ UNCHANGED <<side, tun, shutdown, command, conf, main, result, srv, why, tasks>>

AcceptLoopsEnd ==
  /\ main # "exited" /\ srv = "serving" /\ shutdown
  /\ Task("draining") /\ UNCHANGED <<tasks, side>> /\ Quiet

(* The handles are awaited one after the other. *)
AwaitTasks ==
  /\ main # "exited" /\ srv = "draining" /\ tasks = {}
  /\ \A s \in {"awg", "hysteria2", "tuic"} : side[s].pc \in {"off", "over", "failed"}
  /\ Task("ended") /\ UNCHANGED <<tasks, side>> /\ Quiet

SessionEnds ==
  /\ main # "exited" /\ session = "active" /\ session' = "done"
  /\ UNCHANGED <<side, tun, shutdown, command, conf, main, result, srv, why, tasks>>

(***************************************************************************)
(* Helper tasks.  Their errors are logged and end only the task.           *)
(***************************************************************************)
run_api_server ==
  /\ main # "exited" /\ "api" \in tasks
  /\ \/ ApiPanics(conf) /\ Panics /\ UNCHANGED tasks
     \/ ~ApiPanics(conf) /\ tasks' = tasks \ {"api"} /\ UNCHANGED <<main, result, srv, why>>
  /\ UNCHANGED side /\ Quiet

run_metrics_server ==
  /\ main # "exited" /\ "metrics" \in tasks
  /\ tasks' = tasks \ {"metrics"} /\ UNCHANGED <<main, result, srv, why, side>> /\ Quiet

SidecarStep(A) ==
  /\ main # "exited" /\ A
  /\ UNCHANGED <<tun, shutdown, command, conf, main, result, srv, why, tasks, session>>

ServerSidecar ==
  SidecarStep(\/ AwgManager_start(render_server_conf(conf), conf.awg.nat)
              \/ Hysteria2Manager_start \/ TuicManager_start
              \/ AwgManager_run \/ Hysteria2Manager_run \/ TuicManager_run)

ClientSidecar ==
  SidecarStep(\/ AwgClientManager_start(render_client_conf(conf))
              \/ Hysteria2ClientManager_start \/ TuicClientManager_start
              \/ AwgClientManager_run \/ Hysteria2ClientManager_run \/ TuicClientManager_run)

ChildDies == SidecarStep(\E s \in Sidecars : ChildExits(s))

(***************************************************************************)
(* Signals and the end of the server process.                              *)
(***************************************************************************)
InstallSignals ==
  /\ main = "spawned" /\ main' = "wait"
  /\ UNCHANGED <<side, tun, shutdown, command, conf, result, srv, why, tasks, session>>

Signal ==
  /\ main = "wait" /\ main' = "stopping" /\ shutdown' = TRUE
  /\ UNCHANGED <<side, tun, command, conf, result, srv, why, tasks, session>>

(* What is left when the runtime is dropped: tasks end at their await       *)
(* points, with the managers they own; a session that is active is cut.     *)
DropRuntime ==
  /\ side' = [s \in Sidecars |-> IF side[s].pc = "run" THEN Stopped(side[s]) ELSE side[s]]
  /\ tun' = TunAborted(tun)
  /\ session' = IF session = "active" THEN "cut" ELSE session
  /\ tasks' = {}

(* run(): at most five seconds for the server task, whose result is         *)
(* discarded; then main returns and the runtime waits for blocking calls.   *)
StopServer ==
  /\ main = "stopping" /\ command = "run"
  /\ \A s \in Sidecars : ~Blocking(s)
  /\ DropRuntime /\ Exits("ok")
  /\ UNCHANGED <<shutdown, command, conf, srv, why>>

(* A signal the process has no handler for (SIGTERM before the server has   *)
(* installed its own, or at any time in the client) ends it on the spot.    *)
Terminate ==
  /\ main \in {"spawned", "running", "sidecar"}
  /\ Exits("killed") /\ session' = IF session = "active" THEN "cut" ELSE session
  /\ UNCHANGED <<side, tun, shutdown, command, conf, srv, why, tasks>>

(***************************************************************************)
(* The client.                                                             *)
(***************************************************************************)
SidecarOf(c) ==
  CASE c.awg.present -> "awg_client"
    [] c.hysteria2.present -> "hysteria2_client"
    [] c.tuic.present -> "tuic_client"

run_client ==
  /\ main = "load" /\ command = "client"
  /\ IF validate_client(conf)
     THEN /\ main' = IF conf.remote.present THEN "running" ELSE "sidecar"
          /\ side' = IF conf.remote.present THEN side
                     ELSE [side EXCEPT ![SidecarOf(conf)].pc = "start"]
          /\ UNCHANGED result
     ELSE Exits("error") /\ UNCHANGED side
  /\ UNCHANGED <<srv, why, tasks>> /\ Quiet

(* Outbound::from_config, then one task per inbound. *)
StartInbounds ==
  /\ main = "running" /\ srv = "none"
  /\ \/ /\ Outbound_from_config(conf)
        /\ srv' = "client" /\ UNCHANGED <<main, result, why>>
        /\ tasks' = IF conf.client.listen = "none" THEN {} ELSE {"socks5"}
        /\ tun' = IF conf.tun.enabled THEN [tun EXCEPT !.pc = "resolve"] ELSE tun
     \/ /\ \/ ~Outbound_from_config(conf) /\ why' = "config"
           \/ conf.remote_tls.enabled /\ why' = "environment"
        /\ Exits("error") /\ UNCHANGED <<srv, tasks, tun>>
  /\ UNCHANGED <<side, shutdown, command, conf, session>>

(* A failed bind or accept ends the SOCKS5 task, and nobody looks. *)
Socks5TaskEnds ==
  /\ main # "exited" /\ "socks5" \in tasks /\ tasks' = tasks \ {"socks5"}
  /\ UNCHANGED <<main, result, srv, why, side>> /\ Quiet

TunStep ==
  /\ main # "exited"
  /\ \/ ResolveProxy(DnsIntercept_from_config(conf.tun), conf.tun.auto,
                     conf.tun.address = "v4")
     \/ AddBypass \/ AddDefault \/ AddRule
     \/ CreateDevice(create_device(conf.tun))
     \/ TunStops
  /\ UNCHANGED <<side, shutdown, command, conf, main, result, srv, why, tasks, session>>

CtrlC ==
  /\ command = "client" /\ main \in {"running", "sidecar"} /\ ~shutdown
  /\ shutdown' = TRUE
  /\ UNCHANGED <<side, tun, command, conf, main, result, srv, why, tasks, session>>

(* run(): the tasks are aborted and the process ends. *)
StopClient ==
  /\ main = "running" /\ shutdown /\ srv = "client" /\ ~TunBlocking
  /\ DropRuntime /\ Exits("ok")
  /\ UNCHANGED <<shutdown, command, conf, srv, why>>

(* run_awg_client and its two siblings return what the manager returned. *)
SidecarReturns ==
  /\ main = "sidecar"
  /\ LET m == side[SidecarOf(conf)] IN
     /\ m.pc \in {"over", "failed"}
     /\ IF m.pc = "over" /\ shutdown THEN Exits("ok") ELSE Exits("error")
     /\ why' = m.why
  /\ UNCHANGED <<side, tun, shutdown, command, conf, srv, tasks, session>>

Exited == main = "exited" /\ UNCHANGED vars

ServerStart ==
  \/ bind_listeners \/ BuildOutbound \/ BuildInbound \/ BuildXhttp \/ SpawnApi
  \/ SpawnMetrics \/ SpawnAwg \/ SpawnHysteria2 \/ SpawnTuic \/ SpawnAcceptLoops

Next ==
  \/ check_config \/ ExportAwgClient \/ run_server \/ run_client
  \/ ServerStart \/ AcceptSession \/ SessionEnds \/ AcceptLoopsEnd \/ AwaitTasks
  \/ run_api_server \/ run_metrics_server \/ ServerSidecar \/ ClientSidecar \/ ChildDies
  \/ InstallSignals \/ Signal \/ StopServer \/ Terminate
  \/ StartInbounds \/ Socks5TaskEnds \/ TunStep \/ CtrlC \/ StopClient \/ SidecarReturns
  \/ Exited

Spec == Init /\ [][Next]_vars

(* The scheduler runs every task that can move, and the commands and        *)
(* blocking calls of start() and apply() return.  Nothing is said of the    *)
(* sessions, the API and the metrics task, the children and the signals.    *)
FairSpec ==
  /\ Spec
  /\ WF_vars(ServerSidecar) /\ WF_vars(ClientSidecar) /\ WF_vars(TunStep)
  /\ WF_vars(StartInbounds) /\ WF_vars(StopServer) /\ WF_vars(StopClient)
  /\ WF_vars(SidecarReturns)

(***************************************************************************)
(* Properties.                                                             *)
(***************************************************************************)
(* What validate() does not look at: the contents of certificate files, a   *)
(* server name that is an IP address, and the AWG fields left aside for     *)
(* placeholder keys or not looked at.                                       *)
NotValidated(c) ==
  \/ c.outbound_tls.enabled
       /\ "garbage" \in {c.outbound_tls.ca_file, c.outbound_tls.cert, c.outbound_tls.key}
  \/ c.tls.enabled
       /\ ("garbage" \in {c.tls.cert, c.tls.key, c.tls.certificates}
            \/ c.tls.certificates = "ip_name")
  \/ c.awg.enabled
       /\ ("placeholder" \in {c.awg.private_key, c.awg.peers} \/ c.awg.nat = "no_subnet")

ClientNotValidated(c) ==
  \/ c.remote_tls.enabled /\ c.remote_tls.ca_file \in {"missing", "garbage"}
  \/ c.remote_reality.enabled /\ c.remote_reality.server_name = "bad"
  \/ c.awg.present
       /\ "bad" \in {c.awg.private_key, c.awg.server_public_key, c.awg.address,
                     c.awg.allowed_ips, c.awg.obfuscation}
  \/ c.tun.enabled /\ "v6" \in {c.tun.address, c.tun.gateway, c.tun.netmask}

(* A configuration that validate() accepts brings the process up: the       *)
(* expect() and unwrap() calls of the start-up never panic, and no stage,   *)
(* no daemon and not the TUN task fails for a reason that lies in the       *)
(* configuration, except the ones validate() does not look at.  (The API    *)
(* task may end on a TLS file it cannot read; the process goes on.)         *)
CheckedConfigStarts ==
  /\ result # "panic"
  /\ "config" \in {why, tun.why} \cup {side[s].why : s \in Sidecars} =>
       IF command = "client" THEN ClientNotValidated(conf) ELSE NotValidated(conf)

(* A process that ends by itself leaves nothing behind, except after a      *)
(* start that failed half-way: the child that awg-go has become and its     *)
(* configuration file, or the routes set before a command of apply failed.  *)
(* The NAT of the server's AWG is never taken back (stop() does not): a     *)
(* manager that has run leaves ip_forward and the MASQUERADE rule behind if *)
(* and only if the configuration asks for NAT, one that failed half-way     *)
(* through apply_nat leaves ip_forward alone.                               *)
LeftoversExplained ==
  main = "exited" /\ result \in {"ok", "error"} =>
    /\ \A s \in Sidecars :
         /\ side[s].child = "alive" => side[s].pc = "failed" /\ s \in {"awg", "awg_client"}
         /\ side[s].file => side[s].pc = "failed"
         /\ side[s].nat # "none" => s = "awg" /\ conf.awg.nat = "on"
         /\ side[s].nat = "forward" => side[s].pc = "failed"
         /\ side[s].nat = "rule" <=> s = "awg" /\ side[s].pc = "over" /\ conf.awg.nat = "on"
    /\ tun.routes # {} \/ tun.table \/ tun.rule => tun.pc = "failed" /\ tun.why # "config"

(* After a signal the process comes to its end, whatever its tasks do.      *)
ShutdownEnds == shutdown ~> main = "exited"

(* A daemon that dies while it is supervised is noticed: its manager cleans *)
(* up, and a client that depends on it ends.                                *)
DeadChildIsNoticed ==
  \A s \in Sidecars :
    side[s].pc = "run" /\ side[s].child = "dead" ~>
      /\ (side[s].pc = "over" /\ ~side[s].file) \/ main = "exited"
      /\ command = "client" => main = "exited"

(* README.md:325, docs/ARCHITECTURE.md: once the shutdown signal has been   *)
(* sent to the accept loops, active sessions run to their end.              *)
SessionsFinish == [][(shutdown /\ session = "active") => session' # "cut"]_vars

(* docs/CONFIGURATION.md: with auto the default route through the TUN is    *)
(* installed; the task does not fail for want of the device it creates.     *)
AutoRoutingWorks == tun.why # "no_device"

(* docs/CONFIGURATION.md: when the client stops, rules and table are taken  *)
(* back.  The code refutes it after an apply that failed half-way, and for  *)
(* SIGTERM, which the client does not handle: see README.                   *)
RoutesAreUndone == main = "exited" => tun.routes = {} /\ ~tun.table /\ ~tun.rule
=============================================================================
