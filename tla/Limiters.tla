------------------------------ MODULE Limiters ------------------------------
(***************************************************************************)
(* The two limiters of the server, each behind a mutex of its own and with *)
(* nothing in common but the clock of the machine: the one of failed       *)
(* logins (AuthRateLimiter) and the one of the gRPC API (ApiRateLimiter).  *)
(* A behaviour runs one of them.                                           *)
(***************************************************************************)
EXTENDS AuthRateLimiter, ApiRateLimiter

VARIABLE limiter   \* the one that runs

limiterVars == <<limiter, vars, apiVars>>

LimitersInit == limiter \in {"auth", "api"} /\ Init /\ ApiInit

LimitersNext ==
  \/ limiter = "auth" /\ Next /\ UNCHANGED <<limiter, apiVars>>
  \/ limiter = "api" /\ ApiNext /\ UNCHANGED <<limiter, vars>>

LimitersSpec == LimitersInit /\ [][LimitersNext]_limiterVars
=============================================================================
