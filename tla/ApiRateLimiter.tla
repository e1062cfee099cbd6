--------------------------- MODULE ApiRateLimiter ---------------------------
(***************************************************************************)
(* The limiter of the gRPC API (api/rate_limit.rs) and the interceptor     *)
(* that asks it before it looks at the token (api/mod.rs): a fixed window  *)
(* over all RPCs of the process, which starts with the first call after    *)
(* the last one ran out.  One mutex guards it, so a call is one step.      *)
(***************************************************************************)
EXTENDS Naturals, Sequences

CONSTANTS
  RpcLimits,   \* values of api.rate_limit_per_sec; 0 is none
  RpcWindow,   \* one second, in ticks
  MaxClock,    \* bound of the model: the clock stops here
  MaxCalls     \* bound of the model: calls let through

ASSUME ApiAssumption ==
  /\ RpcLimits \subseteq Nat
  /\ RpcWindow \in Nat \ {0}
  /\ MaxClock \in Nat /\ MaxCalls \in Nat

VARIABLES
  limit,    \* rate_limit_per_sec
  clock,    \* Instant::now()
  start,    \* WindowState, and
  count,    \*   its count
  passed,   \* history: when each call let through came
  answered  \* the answer to the last call of this tick

apiVars == <<limit, clock, start, count, passed, answered>>

ApiInit ==
  /\ limit \in RpcLimits
  /\ clock = 0 /\ start = 0 /\ count = 0
  /\ passed = <<>>
  /\ answered = "none"

check_auth(valid) == IF valid THEN "ok" ELSE "unauthenticated"

LetThrough(valid) ==
  /\ passed' = Append(passed, clock)
  /\ answered' = check_auth(valid)

(* Mutant: a window that ran out starts anew, its count does not. *)
check_KeepsCount(valid) ==
  /\ start' = IF clock - start >= RpcWindow THEN clock ELSE start
  /\ IF count >= limit
     THEN answered' = "exhausted" /\ UNCHANGED <<count, passed>>
     ELSE count' = count + 1 /\ LetThrough(valid)

check(valid) ==
  LET over == clock - start >= RpcWindow
      n == IF over THEN 0 ELSE count
  IN  /\ start' = IF over THEN clock ELSE start
      /\ IF n >= limit
         THEN count' = n /\ answered' = "exhausted" /\ UNCHANGED passed
         ELSE count' = n + 1 /\ LetThrough(valid)

(* An RPC; without a limit there is no limiter to ask. *)
Rpc(valid) ==
  /\ Len(passed) < MaxCalls
  /\ IF limit = 0 THEN LetThrough(valid) /\ UNCHANGED <<start, count>> ELSE check(valid)
  /\ UNCHANGED <<limit, clock>>

ApiTick ==
  /\ clock < MaxClock
  /\ clock' = clock + 1
  /\ answered' = "none"
  /\ UNCHANGED <<limit, start, count, passed>>

ApiNext == ApiTick \/ \E valid \in BOOLEAN : Rpc(valid)

ApiSpec == ApiInit /\ [][ApiNext]_apiVars

-----------------------------------------------------------------------------
(***************************************************************************)
(* Wherever its windows fall, the limiter lets at most twice the limit     *)
(* through in any second: a second lies between a call and the one that    *)
(* comes so many calls later.  It refuses a call only when the limit was   *)
(* used up within the last second.                                         *)
(***************************************************************************)
RpcsAreLimited ==
  /\ limit # 0 =>
       \A i \in 1 .. Len(passed) :
         i + 2 * limit <= Len(passed) => passed[i + 2 * limit] >= passed[i] + RpcWindow
  /\ answered = "exhausted" =>
       /\ limit # 0 /\ limit <= Len(passed)
       /\ passed[Len(passed) - limit + 1] + RpcWindow > clock

(* docs/CONFIGURATION.md: rate_limit_per_sec is the most RPCs in a second.  *)
(* The code refutes it where a second spans two windows: see README.        *)
AtMostLimitPerSecond ==
  limit # 0 =>
    \A i \in 1 .. Len(passed) :
      i + limit <= Len(passed) => passed[i + limit] >= passed[i] + RpcWindow
=============================================================================
