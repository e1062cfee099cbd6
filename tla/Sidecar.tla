------------------------------ MODULE Sidecar -------------------------------
(***************************************************************************)
(* The managers of the external daemons (awg, hysteria2 and tuic, server   *)
(* and client side): each writes a configuration file, spawns a child,     *)
(* waits until it seems to be up, watches it, and stops it.                *)
(*                                                                         *)
(* start() blocks: it holds no await point, so a shutdown or the end of    *)
(* the process waits until it has returned.  A std::process::Child that is *)
(* dropped is not killed; only stop(), which Drop calls once the manager   *)
(* exists, kills it and removes the file.                                  *)
(***************************************************************************)
EXTENDS Naturals, ShutdownSignal

VARIABLE side

Sidecars ==
  {"awg", "hysteria2", "tuic", "awg_client", "hysteria2_client", "tuic_client"}

(* file: the configuration file exists; nat: what apply_nat has changed on  *)
(* the host: nothing, ip_forward, or ip_forward and the MASQUERADE rule.    *)
SideType ==
  [pc : {"off", "start", "wait", "setconf", "up", "nat", "run", "over", "failed"},
   child : {"none", "alive", "dead"}, file : BOOLEAN, nat : {"none", "forward", "rule"},
   why : {"none", "config", "environment"}]

NoSide == [pc |-> "off", child |-> "none", file |-> FALSE, nat |-> "none", why |-> "none"]

Blocking(s) == side[s].pc \in {"start", "wait", "setconf", "up", "nat"}

Fails(s, why) == side' = [side EXCEPT ![s].pc = "failed", ![s].why = why]

Continues(s, pc) == side' = [side EXCEPT ![s].pc = pc]

(***************************************************************************)
(* Steps of start().                                                       *)
(***************************************************************************)
(* The daemon, or a tool it needs, is not there: not where the section says *)
(* it is, and not on the PATH.                                              *)
find_awg(s) == side[s].pc = "start" /\ Fails(s, "environment")

find_hysteria2(s) == side[s].pc = "start" /\ Fails(s, "environment")

find_tuic(s) == side[s].pc = "start" /\ Fails(s, "environment")

(* Render the configuration, write it, spawn. *)
Launch(s, renders) ==
  /\ side[s].pc = "start"
  /\ \/ ~renders /\ Fails(s, "config")
     \/ renders /\ Fails(s, "environment")
     \/ /\ renders
        /\ side' = [side EXCEPT ![s].pc = "failed", ![s].why = "environment",
                                ![s].file = TRUE]
     \/ /\ renders
        /\ side' = [side EXCEPT ![s].pc = "wait", ![s].child = "alive", ![s].file = TRUE]

(* The socket may be there from an earlier daemon; it is looked at first. *)
wait_for_socket(s) ==
  /\ side[s].pc = "wait"
  /\ \/ Continues(s, "setconf")
     \/ side[s].child = "dead" /\ Fails(s, "environment")
     \/ side' = [side EXCEPT ![s].pc = "failed", ![s].why = "environment",
                             ![s].child = "dead"]

wait_for_process(s) ==
  /\ side[s].pc = "wait"
  /\ IF side[s].child = "dead" THEN Fails(s, "environment") ELSE Continues(s, "run")

tuic_wait_for_process(s) == wait_for_process(s)

apply_setconf(s) ==
  side[s].pc = "setconf" /\ (Continues(s, "up") \/ Fails(s, "environment"))

bring_up_interface(s, next) ==
  side[s].pc = "up" /\ (Continues(s, next) \/ Fails(s, "environment"))

(* nat: the rule wanted, "off", "no_subnet" or "on".  ip_forward is set     *)
(* first; then the interface may not be found, or iptables may fail.        *)
apply_nat(s, nat) ==
  /\ side[s].pc = "nat"
  /\ CASE nat = "off" -> Continues(s, "run")
       [] nat = "no_subnet" -> Fails(s, "config")
       [] nat = "on" -> \/ Fails(s, "environment")
                        \/ side' = [side EXCEPT ![s].pc = "failed",
                                                ![s].why = "environment",
                                                ![s].nat = "forward"]
                        \/ side' = [side EXCEPT ![s].pc = "run", ![s].nat = "rule"]

(***************************************************************************)
(* A running manager.                                                      *)
(***************************************************************************)
(* Mutant: stop() kills the child and forgets the file. *)
Stopped_KeepsFile(m) == [m EXCEPT !.pc = "over", !.child = "dead"]

(* stop(): the NAT stays. *)
Stopped(m) == [m EXCEPT !.pc = "over", !.child = "dead", !.file = FALSE]

(* Mutant: the loop only polls the child. *)
RunUntilShutdown_Deaf(s) ==
  /\ side[s].pc = "run" /\ side[s].child = "dead"
  /\ side' = [side EXCEPT ![s] = Stopped(@)]

(* Mutant: the loop only waits for the shutdown. *)
RunUntilShutdown_Blind(s) ==
  /\ side[s].pc = "run" /\ shutdown
  /\ side' = [side EXCEPT ![s] = Stopped(@)]

(* Stops at a shutdown, or when the child is found dead; both ways the     *)
(* manager is dropped and stop() runs.                                     *)
RunUntilShutdown(s) ==
  /\ side[s].pc = "run"
  /\ shutdown \/ side[s].child = "dead"
  /\ side' = [side EXCEPT ![s] = Stopped(@)]

ChildExits(s) ==
  /\ side[s].child = "alive" /\ side[s].pc \in {"wait", "setconf", "up", "nat", "run"}
  /\ side' = [side EXCEPT ![s].child = "dead"]

(***************************************************************************)
(* The six managers.                                                       *)
(***************************************************************************)
AwgManager_start(renders, nat) ==
  \/ find_awg("awg") \/ Launch("awg", renders) \/ wait_for_socket("awg") \/ apply_setconf("awg")
  \/ bring_up_interface("awg", "nat") \/ apply_nat("awg", nat)

AwgManager_run == RunUntilShutdown("awg")

AwgClientManager_start(renders) ==
  \/ find_awg("awg_client") \/ Launch("awg_client", renders)
  \/ wait_for_socket("awg_client") \/ apply_setconf("awg_client")
  \/ bring_up_interface("awg_client", "run")

AwgClientManager_run == RunUntilShutdown("awg_client")

(* The renderers of hysteria2 and tuic never fail. *)
Hysteria2Manager_start ==
  find_hysteria2("hysteria2") \/ Launch("hysteria2", TRUE) \/ wait_for_process("hysteria2")

Hysteria2Manager_run == RunUntilShutdown("hysteria2")

Hysteria2ClientManager_start ==
  \/ find_hysteria2("hysteria2_client") \/ Launch("hysteria2_client", TRUE)
  \/ wait_for_process("hysteria2_client")

Hysteria2ClientManager_run == RunUntilShutdown("hysteria2_client")

TuicManager_start ==
  find_tuic("tuic") \/ Launch("tuic", TRUE) \/ tuic_wait_for_process("tuic")

TuicManager_run == RunUntilShutdown("tuic")

TuicClientManager_start ==
  find_tuic("tuic_client") \/ Launch("tuic_client", TRUE) \/ tuic_wait_for_process("tuic_client")

TuicClientManager_run == RunUntilShutdown("tuic_client")
=============================================================================
