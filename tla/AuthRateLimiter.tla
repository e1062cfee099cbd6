--------------------------- MODULE AuthRateLimiter ---------------------------
(***************************************************************************)
(* The per-address limiter of failed logins with its clock                 *)
(* (auth_rate_limit.rs).  One mutex guards the table, so each call is one  *)
(* step; what is hard is what the calls find after time has passed between *)
(* them: windows and bans that ran out, and entries already swept away.    *)
(***************************************************************************)
EXTENDS Naturals, FiniteSetsExt

CONSTANTS
  IPs,          \* peer addresses
  MaxFailures,  \* failures within one window that lead to a ban
  Window,       \* window_secs
  BanBase,      \* ban_base_secs
  BanMax,       \* ban_max_secs
  MaxTime,      \* bound of the model: the clock stops here
  MaxLevel      \* bound of the model: no ban above this level

(* validate() refuses a section with a zero in it. *)
ASSUME LimiterAssumption ==
  /\ MaxFailures \in Nat \ {0} /\ Window \in Nat \ {0}
  /\ BanBase \in Nat \ {0} /\ BanMax \in Nat \ {0}
  /\ MaxTime \in Nat /\ MaxLevel \in Nat

(* Arithmetic the proofs use: the multipliers of a ban are positive and     *)
(* grow with the level.                                                     *)
ASSUME PowersOfTwo ==
  \A m \in 0 .. 10 : 2 ^ m \in Nat \ {0} /\ \A n \in 0 .. m : 2 ^ n <= 2 ^ m

VARIABLES
  now,      \* Instant::now()
  states,   \* the HashMap: a function on the addresses it holds
  lastBan   \* history: when each address was last banned and for how long

vars == <<now, states, lastBan>>

(* blocked_until = None; no instant is before it. *)
NoBan == 0

(* The history of an address that was never banned. *)
Never == [at |-> 0, long |-> 0]

IpState == [failures : 0 .. MaxFailures - 1, window_start : Nat, blocked_until : Nat,
            ban_level : Nat]

Fresh == [failures |-> 0, window_start |-> now, blocked_until |-> NoBan, ban_level |-> 0]

Init ==
  /\ now = 1
  /\ states = [ip \in {} |-> Fresh]
  /\ lastBan = [ip \in IPs |-> Never]

(* Mutant: the sweep forgets the ban, looking at the window only. *)
Kept_WindowOnly(st) ==
  \/ now - st.window_start < Window
  \/ st.failures > 0

(* Mutant: the sweep drops an entry with its window, failures and all. *)
Kept_ForgetFailures(st) ==
  \/ now - st.window_start < Window
  \/ now < st.blocked_until

(* cleanup_expired: an entry survives while its window or its ban lasts or  *)
(* while it holds failures.                                                 *)
Kept(st) ==
  \/ now - st.window_start < Window
  \/ now < st.blocked_until
  \/ st.failures > 0

Swept == [ip \in {i \in DOMAIN states : Kept(states[i])} |-> states[ip]]

(* is_blocked(ip): sweep, then clear a ban that is over.  Its answer is     *)
(* Blocked(ip).                                                             *)
is_blocked(ip) ==
  /\ states' = [i \in DOMAIN Swept |->
                  IF i = ip /\ Swept[i].blocked_until <= now
                  THEN [Swept[i] EXCEPT !.blocked_until = NoBan]
                  ELSE Swept[i]]
  /\ UNCHANGED <<now, lastBan>>

(* Mutant: the multiplier shrinks with the level. *)
BanLength_Shrinking(level) == Min({BanBase * (2 ^ (IF level > 1 THEN 0 ELSE 1)), BanMax})

BanLength(level) == Min({BanBase * (2 ^ Min({level, 10})), BanMax})

(* The entry of ip that record_failure works on: the one that survived the  *)
(* sweep or a new one, its window restarted if it ran out.                  *)
Counting(ip) ==
  LET st == IF ip \in DOMAIN Swept THEN Swept[ip] ELSE Fresh
  IN  IF now - st.window_start >= Window
      THEN [st EXCEPT !.window_start = now, !.failures = 0]
      ELSE st

(* record_failure(ip). *)
record_failure(ip) ==
  LET st == Counting(ip)
      ban == BanLength(st.ban_level + 1)
      put(e) == states' = [i \in DOMAIN Swept \cup {ip} |->
                             IF i = ip THEN e ELSE Swept[i]]
  IN  /\ st.ban_level < MaxLevel
      /\ now' = now
      /\ IF st.failures + 1 < MaxFailures
         THEN /\ put([st EXCEPT !.failures = @ + 1])
              /\ lastBan' = lastBan
         ELSE /\ put([failures |-> 0, window_start |-> now,
                      blocked_until |-> now + ban, ban_level |-> st.ban_level + 1])
              /\ lastBan' = [lastBan EXCEPT ![ip] = [at |-> now, long |-> ban]]

Tick ==
  /\ now < MaxTime
  /\ now' = now + 1
  /\ UNCHANGED <<states, lastBan>>

Next ==
  \/ \E ip \in IPs : is_blocked(ip) \/ record_failure(ip)
  \/ Tick

Spec == Init /\ [][Next]_vars

-----------------------------------------------------------------------------
(* What is_blocked answers for ip. *)
Blocked(ip) == ip \in DOMAIN states /\ now < states[ip].blocked_until

(* The refinement mapping to AuthBan. *)
AbsFails == [ip \in IPs |-> IF ip \in DOMAIN states THEN states[ip].failures ELSE 0]

AbsBanned == {ip \in IPs : Blocked(ip)}

Ban == INSTANCE AuthBan WITH fails <- AbsFails, banned <- AbsBanned

(* The limiter implements AuthBan: neither a sweep nor a window that ran    *)
(* out bans an address early, forgets failures between two calls or skips   *)
(* the ban the threshold asks for.                                          *)
ImplementsAuthBan == Ban!BanSpec

(* Type correctness of the table and of the ban history; between two calls  *)
(* the failures of an address stay below the threshold.                     *)
TypeOK ==
  /\ now \in 1 .. MaxTime
  /\ DOMAIN states \subseteq IPs
  /\ \A ip \in DOMAIN states : states[ip] \in IpState
  /\ lastBan \in [IPs -> [at : Nat, long : Nat]]

(* No ban reaches further than ban_max from now, however many levels the    *)
(* address has climbed.                                                     *)
BansAreBounded == \A ip \in DOMAIN states : states[ip].blocked_until <= now + BanMax

(* A running ban is lifted by time alone: no call of any address, its sweep *)
(* included, ends it early, and a further failure never shortens it.        *)
BanOutlastsCalls ==
  [][\A ip \in IPs : (Blocked(ip) /\ now' = now) =>
       /\ Blocked(ip)'
       /\ states'[ip].blocked_until >= states[ip].blocked_until]_vars

(* An address banned again within a window of its last ban, or while that   *)
(* ban still runs, is banned for at least as long as before.                *)
PersistentOffenderEscalates ==
  [][\A ip \in IPs :
       LET old == lastBan[ip] new == lastBan'[ip]
       IN  (/\ old # Never /\ new.at = now /\ new # old
            /\ now - old.at < Window \/ now < old.at + old.long)
           => new.long >= old.long]_vars

(* ban_base_secs is the length of the first ban of an address.              *)
(* docs/CONFIGURATION.md:114.  The code refutes it: see README.             *)
FirstBanLastsBase ==
  [][\A ip \in IPs : (lastBan[ip] = Never /\ lastBan'[ip] # Never)
       => lastBan'[ip].long = BanBase]_vars
=============================================================================
