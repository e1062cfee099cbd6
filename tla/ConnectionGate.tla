--------------------------- MODULE ConnectionGate ---------------------------
(***************************************************************************)
(* The limit on simultaneous inbound sessions (connection_gate.rs).  Every *)
(* accept loop shares one atomic counter; try_acquire is a load followed   *)
(* by a compare-and-swap loop, and the permit gives its slot back when it  *)
(* is dropped.  Each step below is one access to the atomic, so accept     *)
(* loops of several listeners and sessions that end interleave freely.     *)
(***************************************************************************)
EXTENDS Naturals, FiniteSets

CONSTANTS
  Loops,          \* accept loops, one per listening address
  Conns,          \* client connections that ask for a slot
  Limited,        \* FALSE: max_connections is not configured
  MaxConnections  \* the configured limit (validated to be at least 1)

ASSUME GateAssumption ==
  /\ IsFiniteSet(Conns)
  /\ Limited \in BOOLEAN
  /\ MaxConnections \in Nat \ {0}

VARIABLES
  active,   \* the shared AtomicU32
  permits,  \* connections whose ConnectionPermit is alive
  attempt   \* what each accept loop's try_acquire is doing

gateVars == <<active, permits, attempt>>

(* An accept loop outside try_acquire. *)
Resting == [pc |-> "idle"]

(* A try_acquire for c that has read the counter and will try to swap it.   *)
Swapping(c, seen) == [pc |-> "swap", conn |-> c, current |-> seen]

Attempts == {Resting} \cup [pc : {"swap"}, conn : Conns, current : Nat]

(* Connections some accept loop is trying to admit. *)
Asking == {c \in Conns : \E l \in Loops :
             attempt[l].pc = "swap" /\ attempt[l].conn = c}

GateInit ==
  /\ active = 0
  /\ permits = {}
  /\ attempt = [l \in Loops |-> Resting]

(* Mutant: the limit test is off by one (<= for <). *)
AfterRead_OffByOne(l, c, seen) ==
  attempt' = [attempt EXCEPT ![l] =
                IF seen <= MaxConnections THEN Swapping(c, seen) ELSE Resting]

(* After reading the counter as seen: give up when the limit is reached,    *)
(* otherwise go on to the swap.                                             *)
AfterRead(l, c, seen) ==
  attempt' = [attempt EXCEPT ![l] =
                IF seen < MaxConnections THEN Swapping(c, seen) ELSE Resting]

(* try_acquire for c.  With a limit its first step is the load of the       *)
(* counter; without one it hands out a permit that counts nothing.          *)
TryAcquire(l, c) ==
  /\ attempt[l] = Resting
  /\ c \notin permits \cup Asking
  /\ active' = active
  /\ IF Limited
     THEN AfterRead(l, c, active) /\ permits' = permits
     ELSE permits' = permits \cup {c} /\ attempt' = attempt

(* The compare-and-swap finds the value it expects: the slot is taken. *)
SwapOk(l) ==
  /\ attempt[l].pc = "swap"
  /\ active = attempt[l].current
  /\ active' = attempt[l].current + 1
  /\ permits' = permits \cup {attempt[l].conn}
  /\ attempt' = [attempt EXCEPT ![l] = Resting]

(* Another loop or a released permit changed the counter: retry with the    *)
(* value found, or give up if that value is the limit.                      *)
SwapRetry(l) ==
  /\ attempt[l].pc = "swap"
  /\ active # attempt[l].current
  /\ AfterRead(l, attempt[l].conn, active)
  /\ UNCHANGED <<active, permits>>

(* Drop of the permit of c. *)
Release(c) ==
  /\ c \in permits
  /\ permits' = permits \ {c}
  /\ active' = IF Limited THEN active - 1 ELSE active
  /\ UNCHANGED attempt

GateNext ==
  \/ \E l \in Loops, c \in Conns : TryAcquire(l, c)
  \/ \E l \in Loops : SwapOk(l) \/ SwapRetry(l)
  \/ \E c \in Conns : Release(c)

GateSpec == GateInit /\ [][GateNext]_gateVars

-----------------------------------------------------------------------------
(* Type correctness of the counter, the live permits and the attempts. *)
GateTypeOK ==
  /\ active \in Nat
  /\ permits \in SUBSET Conns
  /\ attempt \in [Loops -> Attempts]

(* The counter is the number of live permits: no slot is lost when two      *)
(* loops swap at once, and none is returned twice.                          *)
PermitsCounted == Limited => active = Cardinality(permits)

(* No more than max_connections permits are alive, whatever the loops that  *)
(* read the counter before the others took their slots go on to do.         *)
AtMostMax == Limited => Cardinality(permits) <= MaxConnections
=============================================================================
