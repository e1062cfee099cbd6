------------------------------- MODULE AuthBan -------------------------------
(***************************************************************************)
(* What the per-address limiter of failed logins promises its callers, the *)
(* accept loop (is_blocked) and the session (record_failure), with time    *)
(* left out: an address collects failures, the MaxFailures-th bans it, and *)
(* a ban ends only because its time is over.  AuthRateLimiter refines it.  *)
(***************************************************************************)
EXTENDS Naturals

CONSTANTS
  IPs,         \* peer addresses
  MaxFailures  \* failures within one window that lead to a ban

VARIABLES
  fails,   \* failures counted against each address since its last ban
  banned   \* addresses whose connections are dropped on accept

banVars == <<fails, banned>>

BanInit ==
  /\ fails = [ip \in IPs |-> 0]
  /\ banned = {}

(* A failed login of ip.  The count it adds to is the current one, or zero  *)
(* when the counting window has run out unnoticed.                          *)
Fail(ip) ==
  \E base \in {fails[ip], 0} :
    IF base + 1 < MaxFailures
    THEN /\ fails' = [fails EXCEPT ![ip] = base + 1]
         /\ banned' = banned
    ELSE /\ fails' = [fails EXCEPT ![ip] = 0]
         /\ banned' = banned \cup {ip}

(* Time passes and the bans of the addresses in over are served. *)
BansEnd(over) ==
  /\ over # {} /\ over \subseteq banned
  /\ banned' = banned \ over
  /\ fails' = fails

BanNext ==
  \/ \E ip \in IPs : Fail(ip)
  \/ \E over \in SUBSET IPs : BansEnd(over)

BanSpec == BanInit /\ [][BanNext]_banVars

(* The failure counts stay below the threshold and only addresses are       *)
(* banned.                                                                  *)
BanTypeOK ==
  /\ fails \in [IPs -> 0 .. MaxFailures - 1]
  /\ banned \in SUBSET IPs
=============================================================================
