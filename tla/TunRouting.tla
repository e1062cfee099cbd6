----------------------------- MODULE TunRouting -----------------------------
(***************************************************************************)
(* The set-up and the end of the client's TUN task (tun/mod.rs, run) with  *)
(* its policy routing (tun/routing.rs): bypass routes, a default route in  *)
(* a table of its own, and a rule, put in place by ip commands before the  *)
(* device is created and taken back by a guard that exists only once all   *)
(* of them have succeeded.                                                 *)
(***************************************************************************)
EXTENDS Naturals, ShutdownSignal

CONSTANT Bypass            \* destinations that must not go through the TUN

VARIABLE tun

(* device: "none", "other" (made by somebody else before), "own". *)
TunType ==
  [pc : {"off", "resolve", "bypass", "default", "rule", "device", "running", "stopped",
         "failed"},
   routes : SUBSET Bypass, table : BOOLEAN, rule : BOOLEAN, guard : BOOLEAN,
   device : {"none", "other", "own"}, why : {"none", "config", "environment", "no_device"}]

NoTun ==
  [pc |-> "off", routes |-> {}, table |-> FALSE, rule |-> FALSE, guard |-> FALSE,
   device |-> "none", why |-> "none"]

TunBlocking == tun.pc \in {"bypass", "default", "rule"}

(* The guard, if there is one, is dropped with the task. *)
Reverted(t) ==
  IF t.guard THEN [t EXCEPT !.routes = {}, !.table = FALSE, !.rule = FALSE, !.guard = FALSE]
  ELSE t

TunFails(why) == tun' = [Reverted(tun) EXCEPT !.pc = "failed", !.why = why]

(* DnsIntercept::from_config, then the name of the proxy. *)
ResolveProxy(dnsOk, auto, addressOk) ==
  /\ tun.pc = "resolve"
  /\ \/ ~dnsOk /\ TunFails("config")
     \/ dnsOk /\ TunFails("environment")
     \/ dnsOk /\ ~auto /\ tun' = [tun EXCEPT !.pc = "device"]
     \/ dnsOk /\ auto /\ ~addressOk /\ TunFails("config")
     \/ dnsOk /\ auto /\ addressOk /\ tun' = [tun EXCEPT !.pc = "bypass"]

AddBypass ==
  /\ tun.pc = "bypass"
  /\ \/ \E d \in Bypass \ tun.routes : tun' = [tun EXCEPT !.routes = @ \cup {d}]
     \/ tun.routes = Bypass /\ tun' = [tun EXCEPT !.pc = "default"]
     \/ tun.routes # Bypass /\ TunFails("environment")

(* ip route replace default dev <name>: the device has to exist. *)
AddDefault ==
  /\ tun.pc = "default"
  /\ \/ tun.device # "none" /\ tun' = [tun EXCEPT !.pc = "rule", !.table = TRUE]
     \/ tun.device = "none" /\ TunFails("no_device")
     \/ TunFails("environment")

AddRule ==
  /\ tun.pc = "rule"
  /\ \/ tun' = [tun EXCEPT !.pc = "device", !.rule = TRUE, !.guard = TRUE]
     \/ TunFails("environment")

CreateDevice(addressesOk) ==
  /\ tun.pc = "device"
  /\ \/ ~addressesOk /\ TunFails("config")
     \/ addressesOk /\ TunFails("environment")
     \/ addressesOk /\ tun' = [tun EXCEPT !.pc = "running", !.device = "own"]

(* The loop at the end of run(): revert on shutdown. *)
TunStops ==
  /\ tun.pc = "running" /\ shutdown
  /\ tun' = [Reverted(tun) EXCEPT !.pc = "stopped"]

(* The runner aborts the task at an await point; the guard is dropped. *)
TunAborted(t) ==
  IF t.pc \in {"resolve", "device", "running"} THEN [Reverted(t) EXCEPT !.pc = "stopped"] ELSE t
=============================================================================
