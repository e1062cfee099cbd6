---------------------------- MODULE ServerProofs ----------------------------
(***************************************************************************)
(* The gate of the sessions, and the server that admits, authenticates and *)
(* counts them, for any number of accept loops, connections and users and  *)
(* any configuration.                                                      *)
(***************************************************************************)
EXTENDS Server, FiniteSetTheorems, TLAPS

-----------------------------------------------------------------------------
(***************************************************************************)
(* The session limit holds for any number of accept loops, any finite set  *)
(* of connections and any limit.  AtMostMax is not inductive: a loop that  *)
(* read the counter below the limit may swap much later.  The invariant    *)
(* therefore also says that a pending swap expects a value below the       *)
(* limit, that its connection has no permit yet, and that two loops never  *)
(* admit the same connection.                                              *)
(***************************************************************************)
(* Every pending swap expects a counter value below the limit and is for a  *)
(* connection that holds no permit.                                         *)
PendingBelowMax ==
  \A l \in Loops : attempt[l].pc = "swap" =>
    /\ attempt[l].current < MaxConnections
    /\ attempt[l].conn \notin permits

(* Two accept loops never try to admit the same connection. *)
DistinctConns ==
  \A l, m \in Loops :
    (l # m /\ attempt[l].pc = "swap" /\ attempt[m].pc = "swap")
      => attempt[l].conn # attempt[m].conn

(* The inductive invariant. *)
GateInv ==
  /\ GateTypeOK
  /\ PermitsCounted
  /\ AtMostMax
  /\ PendingBelowMax
  /\ DistinctConns

(* The set of live permits is finite, and one permit more or less changes   *)
(* its size by one.                                                         *)
LEMMA PermitArithmetic ==
  ASSUME GateTypeOK, NEW c \in Conns
  PROVE  /\ IsFiniteSet(permits)
         /\ Cardinality(permits) \in Nat
         /\ c \notin permits =>
              Cardinality(permits \cup {c}) = Cardinality(permits) + 1
         /\ c \in permits =>
              /\ Cardinality(permits \ {c}) = Cardinality(permits) - 1
              /\ Cardinality(permits) > 0
<1>1. IsFiniteSet(permits)
  BY GateAssumption, FS_Subset, Zenon DEF GateTypeOK
<1>2. Cardinality(permits) \in Nat
  BY <1>1, FS_CardinalityType, Zenon
<1>3. c \notin permits =>
        Cardinality(permits \cup {c}) = Cardinality(permits) + 1
  BY <1>1, FS_AddElement, Zenon
<1>4. c \in permits => Cardinality(permits \ {c}) = Cardinality(permits) - 1
  BY <1>1, FS_RemoveElement, Zenon
<1>5. c \in permits => Cardinality(permits) > 0
  <2>1. IsFiniteSet(permits \ {c})
    BY <1>1, FS_Subset, Zenon
  <2>2. Cardinality(permits \ {c}) \in Nat
    BY <2>1, FS_CardinalityType, Zenon
  <2>. QED BY <1>2, <1>4, <2>2
<1>. QED BY <1>1, <1>2, <1>3, <1>4, <1>5, Zenon

(* What an attempt is: resting, or a swap for a connection. *)
LEMMA AttemptShape ==
  ASSUME GateTypeOK, NEW l \in Loops
  PROVE  /\ attempt[l] = Resting => attempt[l].pc = "idle"
         /\ attempt[l].pc = "swap" =>
              attempt[l].conn \in Conns /\ attempt[l].current \in Nat
BY DEF GateTypeOK, Attempts, Resting

(* The initial state satisfies the inductive invariant. *)
LEMMA GateInitInv == GateInit => GateInv
<1>. SUFFICES ASSUME GateInit PROVE GateInv
  OBVIOUS
<1>1. Cardinality(permits) = 0
  BY FS_EmptySet, Zenon DEF GateInit
<1>2. GateTypeOK
  BY Zenon DEF GateInit, GateTypeOK, Attempts
<1>3. PendingBelowMax /\ DistinctConns
  BY Zenon DEF GateInit, PendingBelowMax, DistinctConns, Resting
<1>. QED
  BY <1>1, <1>2, <1>3, GateAssumption DEF GateInit, GateInv, PermitsCounted, AtMostMax

(* Reading the counter on behalf of a connection nobody else admits keeps   *)
(* the invariant: the swap it may lead to expects a value below the limit.  *)
LEMMA AfterReadInv ==
  ASSUME GateInv, NEW l \in Loops, NEW c \in Conns,
         c \notin permits,
         \A m \in Loops : (m # l /\ attempt[m].pc = "swap") => attempt[m].conn # c,
         AfterRead(l, c, active), UNCHANGED <<active, permits>>
  PROVE  GateInv'
<1>1. GateTypeOK'
  BY Zenon DEF GateInv, GateTypeOK, AfterRead, Swapping, Attempts, Resting
<1>2. \A m \in Loops \ {l} : attempt'[m] = attempt[m]
  BY Zenon DEF GateInv, GateTypeOK, AfterRead
<1>3. attempt'[l].pc = "swap" =>
        attempt'[l].conn = c /\ attempt'[l].current < MaxConnections
  BY Zenon DEF GateInv, GateTypeOK, AfterRead, Swapping, Resting
<1>4. PendingBelowMax'
  BY <1>2, <1>3, Zenon DEF GateInv, PendingBelowMax
<1>5. DistinctConns'
  BY <1>2, <1>3 DEF GateInv, DistinctConns
<1>. QED
  BY <1>1, <1>4, <1>5, Zenon DEF GateInv, PermitsCounted, AtMostMax

(* Every step keeps the inductive invariant. *)
LEMMA GateStepInv == GateInv /\ [GateNext]_gateVars => GateInv'
<1>. SUFFICES ASSUME GateInv, [GateNext]_gateVars PROVE GateInv'
  OBVIOUS
<1>1. ASSUME NEW l \in Loops, NEW c \in Conns, TryAcquire(l, c) PROVE GateInv'
  <2>. c \notin permits
    BY <1>1, Zenon DEF TryAcquire
  <2>. \A m \in Loops : attempt[m].pc = "swap" => attempt[m].conn # c
    BY <1>1, Zenon DEF TryAcquire, Asking
  <2>1. CASE Limited
    <3>1. AfterRead(l, c, active) /\ UNCHANGED <<active, permits>>
      BY <1>1, <2>1, Zenon DEF TryAcquire
    <3>. QED BY <3>1, AfterReadInv, Zenon
  <2>2. CASE ~Limited
    <3>1. permits' = permits \cup {c} /\ UNCHANGED <<active, attempt>>
      BY <1>1, <2>2, Zenon DEF TryAcquire
    <3>. QED
      BY <3>1, <2>2, Zenon DEF GateInv, GateTypeOK, PermitsCounted, AtMostMax,
                        PendingBelowMax, DistinctConns
  <2>. QED BY <2>1, <2>2, GateAssumption, Zenon
<1>2. ASSUME NEW l \in Loops, SwapOk(l) PROVE GateInv'
  <2>. DEFINE c == attempt[l].conn
  <2>1. /\ c \in Conns /\ c \notin permits
        /\ attempt[l].current \in Nat
        /\ attempt[l].current < MaxConnections
    BY <1>2, AttemptShape, Zenon DEF SwapOk, GateInv, PendingBelowMax
  <2>2. /\ active = attempt[l].current /\ active' = active + 1
        /\ permits' = permits \cup {c}
        /\ attempt' = [attempt EXCEPT ![l] = Resting]
    BY <1>2, Zenon DEF SwapOk
  <2>3. Cardinality(permits') = Cardinality(permits) + 1
    BY <2>1, <2>2, PermitArithmetic, Zenon DEF GateInv
  <2>4. GateTypeOK'
    BY <2>1, <2>2 DEF GateInv, GateTypeOK, Attempts
  <2>5. PermitsCounted' /\ AtMostMax'
    BY <2>1, <2>2, <2>3, GateAssumption DEF GateInv, PermitsCounted, AtMostMax
  <2>6. attempt'[l] = Resting /\ \A m \in Loops \ {l} : attempt'[m] = attempt[m]
    BY <2>2, Zenon DEF GateInv, GateTypeOK
  <2>7. \A m \in Loops \ {l} : attempt[m].pc = "swap" => attempt[m].conn # c
    BY <1>2, Zenon DEF GateInv, DistinctConns, SwapOk
  <2>8. PendingBelowMax'
    BY <2>2, <2>6, <2>7 DEF GateInv, PendingBelowMax, Resting
  <2>9. DistinctConns'
    BY <2>6 DEF GateInv, DistinctConns, Resting
  <2>. QED BY <2>4, <2>5, <2>8, <2>9, Zenon DEF GateInv
<1>3. ASSUME NEW l \in Loops, SwapRetry(l) PROVE GateInv'
  <2>1. attempt[l].conn \in Conns /\ attempt[l].conn \notin permits
    BY <1>3, AttemptShape, Zenon DEF SwapRetry, GateInv, PendingBelowMax
  <2>2. \A m \in Loops : (m # l /\ attempt[m].pc = "swap")
                            => attempt[m].conn # attempt[l].conn
    BY <1>3, Zenon DEF SwapRetry, GateInv, DistinctConns
  <2>3. AfterRead(l, attempt[l].conn, active) /\ UNCHANGED <<active, permits>>
    BY <1>3, Zenon DEF SwapRetry
  <2>. QED BY <2>1, <2>2, <2>3, AfterReadInv, Zenon
<1>4. ASSUME NEW c \in Conns, Release(c) PROVE GateInv'
  <2>1. /\ Cardinality(permits') = Cardinality(permits) - 1
        /\ Cardinality(permits) > 0 /\ Cardinality(permits) \in Nat
    BY <1>4, PermitArithmetic, Zenon DEF Release, GateInv
  <2>2. GateTypeOK'
    BY <1>4, <2>1 DEF Release, GateInv, GateTypeOK, PermitsCounted
  <2>3. PermitsCounted' /\ AtMostMax'
    BY <1>4, <2>1, GateAssumption DEF Release, GateInv, PermitsCounted, AtMostMax
  <2>4. PendingBelowMax' /\ DistinctConns'
    BY <1>4, Zenon DEF Release, GateInv, PendingBelowMax, DistinctConns
  <2>. QED BY <2>2, <2>3, <2>4, Zenon DEF GateInv
<1>5. CASE UNCHANGED gateVars
  BY <1>5, Zenon DEF gateVars, GateInv, GateTypeOK, PermitsCounted, AtMostMax,
              PendingBelowMax, DistinctConns
<1>. QED BY <1>1, <1>2, <1>3, <1>4, <1>5, Zenon DEF GateNext

(* The counter, the permits and the attempts keep their types. *)
THEOREM GateTypeCorrect == GateSpec => []GateTypeOK
<1>1. GateInv => GateTypeOK
  BY Zenon DEF GateInv
<1>. QED BY <1>1, GateInitInv, GateStepInv, PTL DEF GateSpec

(* The shared counter always equals the number of live permits, so slots    *)
(* are neither lost nor returned twice (try_acquire and Drop).              *)
THEOREM PermitsAreCounted == GateSpec => []PermitsCounted
<1>1. GateInv => PermitsCounted
  BY Zenon DEF GateInv
<1>. QED BY <1>1, GateInitInv, GateStepInv, PTL DEF GateSpec

(* max_connections is never exceeded, however the accept loops interleave   *)
(* with one another and with sessions that end.                             *)
THEOREM LimitHolds == GateSpec => []AtMostMax
<1>1. GateInv => AtMostMax
  BY Zenon DEF GateInv
<1>. QED BY <1>1, GateInitInv, GateStepInv, PTL DEF GateSpec

-----------------------------------------------------------------------------
(***************************************************************************)
(* The server holds its session limit, gives every session task exactly    *)
(* one slot and counts its open sessions, and an identity it relays for    *)
(* was valid when it was looked up.  The server is first shown to use the  *)
(* gate only as ConnectionGate describes, so that the gate's inductive     *)
(* invariant carries over.  SlotPerSession needs to know, on top of it,    *)
(* whose connection an accept loop is asking the gate for.                 *)
(***************************************************************************)
(* The stages and the hands of the accept loops keep their types. *)
StageType ==
  /\ stage \in [Conns -> Stages]
  /\ hand \in [Loops -> Conns \cup {NoOne}]

(* A connection in the hand of an accept loop is one it has accepted and no *)
(* other loop has, and a loop asks the gate for the connection in its hand. *)
HandsAreAccepted ==
  /\ \A l \in Loops : hand[l] # NoOne => stage[hand[l]] = "accepted"
  /\ \A l, m \in Loops : (l # m /\ hand[l] # NoOne) => hand[l] # hand[m]
  /\ \A l \in Loops : attempt[l].pc = "swap" => attempt[l].conn = hand[l]

(* The inductive invariant. *)
SlotInv ==
  /\ GateInv
  /\ StageType
  /\ HandsAreAccepted
  /\ SlotPerSession

Inside == Stages \ Outside

(* The stages a session task starts in. *)
LEMMA FirstStages ==
  /\ AfterTransport \in Inside
  /\ FirstStage \in Inside
BY ServerAssumption, Zenon DEF AfterTransport, FirstStage, Inside, Stages, Outside,
  Negotiating

(* A step of a session task that goes on leaves slots and hands alone. *)
LEMMA InsideStep ==
  ASSUME SlotInv, NEW c \in Conns, NEW from \in Inside, NEW to \in Inside,
         Go(c, from, to), UNCHANGED gateVars
  PROVE  SlotInv'
<1>1. stage[c] = from /\ stage' = [stage EXCEPT ![c] = to] /\ hand' = hand
  BY Zenon DEF Go
<1>2. GateInv'
  BY GateStepInv, Zenon DEF SlotInv
<1>3. StageType'
  BY <1>1, Zenon DEF SlotInv, StageType, Inside
<1>4. stage[c] \notin Outside /\ stage'[c] \notin Outside
  BY <1>1, Zenon DEF SlotInv, StageType, Inside
<1>5. \A d \in Conns \ {c} : stage'[d] = stage[d]
  BY <1>1, Zenon DEF SlotInv, StageType
<1>6. SlotPerSession'
  BY <1>4, <1>5 DEF SlotInv, SlotPerSession, gateVars
<1>7. HandsAreAccepted'
  <2>1. \A l \in Loops : hand[l] # NoOne => hand[l] \in Conns /\ hand[l] # c
    BY <1>4, Zenon DEF SlotInv, StageType, HandsAreAccepted, Outside
  <2>. QED BY <1>1, <1>5, <2>1, Zenon DEF SlotInv, HandsAreAccepted, gateVars
<1>. QED BY <1>2, <1>3, <1>6, <1>7, Zenon DEF SlotInv

(* Steps that touch neither the stages nor the gate. *)
LEMMA OutsideStep ==
  ASSUME SlotInv, UNCHANGED <<gateVars, stage, hand>>
  PROVE  SlotInv'
<1>1. GateInv'
  BY GateStepInv, Zenon DEF SlotInv
<1>. QED
  BY <1>1, Zenon DEF SlotInv, StageType, HandsAreAccepted, SlotPerSession, gateVars

(* A connection arrives, or is accepted or dropped by an accept loop: it    *)
(* has no slot before or after.                                             *)
LEMMA ArriveStep ==
  ASSUME SlotInv, NEW c \in Conns, Arrive(c)
  PROVE  SlotInv'
<1>1. /\ stage[c] = "absent" /\ stage' = [stage EXCEPT ![c] = "backlog"]
      /\ hand' = hand /\ UNCHANGED gateVars
  BY Zenon DEF Arrive, Move, Go, Untouched
<1>2. GateInv'
  BY <1>1, GateStepInv, Zenon DEF SlotInv
<1>3. StageType'
  BY <1>1, Zenon DEF SlotInv, StageType, Stages, Outside
<1>4. \A d \in Conns \ {c} : stage'[d] = stage[d]
  BY <1>1, Zenon DEF SlotInv, StageType
<1>5. stage'[c] = "backlog"
  BY <1>1, Zenon DEF SlotInv, StageType
<1>6. SlotPerSession'
  BY <1>1, <1>4, <1>5, Zenon DEF SlotInv, SlotPerSession, Outside, gateVars
<1>7. HandsAreAccepted'
  <2>1. \A l \in Loops : hand[l] # NoOne => hand[l] \in Conns /\ hand[l] # c
    BY <1>1, Zenon DEF SlotInv, StageType, HandsAreAccepted
  <2>. QED BY <1>1, <1>4, <2>1, Zenon DEF SlotInv, HandsAreAccepted, gateVars
<1>. QED BY <1>2, <1>3, <1>6, <1>7, Zenon DEF SlotInv

LEMMA AcceptStep ==
  ASSUME SlotInv, NEW l \in Loops, NEW c \in Conns, Accept(l, c)
  PROVE  SlotInv'
<1>1. hand[l] = NoOne /\ stage[c] = "backlog" /\ UNCHANGED gateVars
  BY Zenon DEF Accept, Untouched
<1>2. GateInv'
  BY <1>1, GateStepInv, Zenon DEF SlotInv
<1>3. \/ /\ stage' = [stage EXCEPT ![c] = "absent"] /\ hand' = hand
      \/ /\ stage' = [stage EXCEPT ![c] = "accepted"]
         /\ hand' = [hand EXCEPT ![l] = c]
  BY Zenon DEF Accept
<1>4. StageType'
  BY <1>3, Zenon DEF SlotInv, StageType, Stages, Outside
<1>5. \A d \in Conns \ {c} : stage'[d] = stage[d]
  BY <1>3, Zenon DEF SlotInv, StageType
<1>6. stage'[c] \in {"absent", "accepted"}
  BY <1>3, Zenon DEF SlotInv, StageType
<1>7. SlotPerSession'
  BY <1>1, <1>5, <1>6, Zenon DEF SlotInv, SlotPerSession, Outside, gateVars
<1>8. HandsAreAccepted'
  <2>1. \A m \in Loops : hand[m] # NoOne => hand[m] \in Conns /\ hand[m] # c
    BY <1>1 DEF SlotInv, StageType, HandsAreAccepted
  <2>2. CASE stage' = [stage EXCEPT ![c] = "absent"] /\ hand' = hand
    BY <1>1, <1>5, <2>1, <2>2, Zenon DEF SlotInv, HandsAreAccepted, gateVars
  <2>3. CASE /\ stage' = [stage EXCEPT ![c] = "accepted"]
             /\ hand' = [hand EXCEPT ![l] = c]
    <3>1. hand'[l] = c /\ \A m \in Loops \ {l} : hand'[m] = hand[m]
      BY <2>3, Zenon DEF SlotInv, StageType
    <3>2. stage'[c] = "accepted"
      BY <2>3, Zenon DEF SlotInv, StageType
    <3>3. attempt[l].pc # "swap"
      <4>1. attempt[l].pc = "swap" => attempt[l].conn \in Conns
        BY AttemptShape, Zenon DEF SlotInv, GateInv
      <4>. QED
        BY <4>1, <1>1, ServerAssumption, Zenon DEF SlotInv, HandsAreAccepted, NoOne
    <3>. QED
      BY <1>1, <1>5, <2>1, <3>1, <3>2, <3>3 DEF SlotInv, HandsAreAccepted, gateVars
  <2>. QED BY <1>3, <2>2, <2>3, Zenon
<1>. QED BY <1>2, <1>4, <1>7, <1>8, Zenon DEF SlotInv

(* What the gate does for the loop that asks: it hands out the slot of the  *)
(* connection in its hand, refuses it, or is not done yet.                  *)
LEMMA GateAnswers ==
  ASSUME SlotInv, NEW l \in Loops, hand[l] # NoOne,
         TryAcquire(l, hand[l]) \/ SwapOk(l) \/ SwapRetry(l)
  PROVE  /\ GateNext
         /\ hand[l] \in Conns /\ hand[l] \notin permits
         /\ permits' \in {permits, permits \cup {hand[l]}}
         /\ permits' = permits \cup {hand[l]} => attempt'[l] = Resting
         /\ attempt'[l].pc = "swap" => attempt'[l].conn = hand[l]
         /\ attempt'[l] # Resting => attempt'[l].pc = "swap"
         /\ \A m \in Loops \ {l} : attempt'[m] = attempt[m]
<1>. DEFINE c == hand[l]
<1>1. c \in Conns
  BY Zenon DEF SlotInv, StageType
<1>2. c \notin permits
  BY <1>1, Zenon DEF SlotInv, HandsAreAccepted, SlotPerSession, Outside
<1>3. GateNext
  BY <1>1, Zenon DEF GateNext
<1>4. CASE TryAcquire(l, c)
  <2>1. CASE Limited
    <3>1. AfterRead(l, c, active) /\ permits' = permits /\ attempt[l] = Resting
      BY <1>4, <2>1, Zenon DEF TryAcquire
    <3>2. /\ attempt'[l] \in {Swapping(c, active), Resting}
          /\ \A m \in Loops \ {l} : attempt'[m] = attempt[m]
      BY <3>1, Zenon DEF AfterRead, SlotInv, GateInv, GateTypeOK
    <3>. QED BY <1>1, <1>2, <1>3, <3>1, <3>2 DEF Swapping, Resting
  <2>2. CASE ~Limited
    <3>1. permits' = permits \cup {c} /\ attempt' = attempt /\ attempt[l] = Resting
      BY <1>4, <2>2, Zenon DEF TryAcquire
    <3>. QED BY <1>1, <1>2, <1>3, <3>1 DEF Resting
  <2>. QED BY <2>1, <2>2, Zenon
<1>5. CASE SwapOk(l)
  <2>1. attempt[l].conn = c /\ permits' = permits \cup {c}
    BY <1>5, Zenon DEF SwapOk, SlotInv, HandsAreAccepted
  <2>2. attempt'[l] = Resting /\ \A m \in Loops \ {l} : attempt'[m] = attempt[m]
    BY <1>5, Zenon DEF SwapOk, SlotInv, GateInv, GateTypeOK
  <2>. QED BY <1>1, <1>2, <1>3, <2>1, <2>2 DEF Resting
<1>6. CASE SwapRetry(l)
  <2>1. attempt[l].conn = c /\ permits' = permits
    BY <1>6, Zenon DEF SwapRetry, SlotInv, HandsAreAccepted
  <2>2. /\ attempt'[l] \in {Swapping(c, active), Resting}
        /\ \A m \in Loops \ {l} : attempt'[m] = attempt[m]
    BY <1>6, <2>1, Zenon DEF SwapRetry, AfterRead, SlotInv, GateInv, GateTypeOK
  <2>. QED BY <1>1, <1>2, <1>3, <2>1, <2>2 DEF Swapping, Resting
<1>. QED BY <1>4, <1>5, <1>6, Zenon

(* An admitted connection gets its slot and its task in the same step, a    *)
(* refused one gets neither.                                                *)
LEMMA AskGateStep ==
  ASSUME SlotInv, NEW l \in Loops, AskGate(l)
  PROVE  SlotInv'
<1>. DEFINE c == hand[l]
<1>1. /\ hand[l] # NoOne
      /\ TryAcquire(l, hand[l]) \/ SwapOk(l) \/ SwapRetry(l)
      /\ Answered(l)
  BY Zenon DEF AskGate
<1>2. /\ GateNext
      /\ c \in Conns /\ c \notin permits
      /\ permits' \in {permits, permits \cup {c}}
      /\ permits' = permits \cup {c} => attempt'[l] = Resting
      /\ attempt'[l].pc = "swap" => attempt'[l].conn = c
      /\ attempt'[l] # Resting => attempt'[l].pc = "swap"
      /\ \A m \in Loops \ {l} : attempt'[m] = attempt[m]
  BY <1>1, GateAnswers, Zenon
<1>3. GateInv'
  BY <1>2, GateStepInv, Zenon DEF SlotInv
<1>4. CASE /\ c \in permits'
           /\ stage' = [stage EXCEPT ![c] = FirstStage]
           /\ hand' = [hand EXCEPT ![l] = NoOne]
  <2>1. permits' = permits \cup {c} /\ attempt'[l] = Resting
    BY <1>2, <1>4, Zenon
  <2>2. StageType'
    BY <1>2, <1>4, FirstStages, Zenon DEF SlotInv, StageType, Inside
  <2>3. stage'[c] \notin Outside /\ \A d \in Conns \ {c} : stage'[d] = stage[d]
    BY <1>2, <1>4, FirstStages, Zenon DEF SlotInv, StageType, Inside
  <2>4. SlotPerSession'
    BY <1>2, <2>1, <2>3, Zenon DEF SlotInv, SlotPerSession
  <2>5. hand'[l] = NoOne /\ \A m \in Loops \ {l} : hand'[m] = hand[m]
    BY <1>4, Zenon DEF SlotInv, StageType
  <2>6. \A m \in Loops \ {l} : hand[m] # NoOne => hand[m] \in Conns \ {c}
    BY <1>1, Zenon DEF SlotInv, StageType, HandsAreAccepted
  <2>7. HandsAreAccepted'
    BY <1>2, <2>1, <2>3, <2>5, <2>6 DEF SlotInv, HandsAreAccepted, Resting
  <2>. QED BY <1>3, <2>2, <2>4, <2>7, Zenon DEF SlotInv
<1>5. CASE /\ c \notin permits' /\ attempt'[l] = Resting
           /\ stage' = [stage EXCEPT ![c] = "absent"]
           /\ hand' = [hand EXCEPT ![l] = NoOne]
  <2>1. permits' = permits
    BY <1>2, <1>5, Zenon
  <2>2. StageType'
    BY <1>2, <1>5, Zenon DEF SlotInv, StageType, Stages, Outside
  <2>3. stage'[c] = "absent" /\ \A d \in Conns \ {c} : stage'[d] = stage[d]
    BY <1>2, <1>5, Zenon DEF SlotInv, StageType
  <2>4. SlotPerSession'
    BY <1>2, <2>1, <2>3, Zenon DEF SlotInv, SlotPerSession, Outside
  <2>5. hand'[l] = NoOne /\ \A m \in Loops \ {l} : hand'[m] = hand[m]
    BY <1>5, Zenon DEF SlotInv, StageType
  <2>6. \A m \in Loops \ {l} : hand[m] # NoOne => hand[m] \in Conns \ {c}
    BY <1>1, Zenon DEF SlotInv, StageType, HandsAreAccepted
  <2>7. HandsAreAccepted'
    BY <1>2, <1>5, <2>3, <2>5, <2>6, SMTT(30) DEF SlotInv, HandsAreAccepted, Resting
  <2>. QED BY <1>3, <2>2, <2>4, <2>7, Zenon DEF SlotInv
<1>6. CASE attempt'[l] # Resting /\ UNCHANGED <<stage, hand>>
  <2>1. permits' = permits
    BY <1>2, <1>6, Zenon
  <2>. QED
    BY <1>2, <1>3, <1>6, <2>1, Zenon DEF SlotInv, StageType, HandsAreAccepted,
      SlotPerSession
<1>. QED BY <1>1, <1>4, <1>5, <1>6, Zenon DEF Answered

(* The end of a session task gives its slot back. *)
LEMMA FinishStep ==
  ASSUME SlotInv, NEW c \in Conns, Finish(c)
  PROVE  SlotInv'
<1>1. /\ stage[c] = "ended" /\ stage' = [stage EXCEPT ![c] = "absent"]
      /\ hand' = hand /\ Release(c)
  BY Zenon DEF Finish, Go
<1>2. permits' = permits \ {c} /\ attempt' = attempt
  BY <1>1, Zenon DEF Release
<1>3. GateInv'
  BY <1>1, GateStepInv, Zenon DEF SlotInv, GateNext
<1>4. StageType'
  BY <1>1, Zenon DEF SlotInv, StageType, Stages, Outside
<1>5. stage'[c] = "absent" /\ \A d \in Conns \ {c} : stage'[d] = stage[d]
  BY <1>1, Zenon DEF SlotInv, StageType
<1>6. SlotPerSession'
  BY <1>2, <1>5, Zenon DEF SlotInv, SlotPerSession, Outside
<1>7. HandsAreAccepted'
  <2>1. \A l \in Loops : hand[l] # NoOne => hand[l] \in Conns /\ hand[l] # c
    BY <1>1, Zenon DEF SlotInv, StageType, HandsAreAccepted
  <2>. QED BY <1>1, <1>2, <1>5, <2>1 DEF SlotInv, HandsAreAccepted
<1>. QED BY <1>3, <1>4, <1>6, <1>7, Zenon DEF SlotInv

(* Every step of a session task keeps the invariant. *)
LEMMA SessionStep ==
  ASSUME SlotInv, NEW c \in Conns, SessionTask(c)
  PROVE  SlotInv'
<1>1. CASE TransportFail(c)
  BY <1>1, InsideStep, FirstStages, Zenon
     DEF TransportFail, Move, Go, Untouched, Inside, Stages, Outside,
     Negotiating, Opened
<1>2. CASE RealityFallback(c)
  BY <1>2, InsideStep, FirstStages, Zenon
     DEF RealityFallback, Move, Go, Untouched, Inside, Stages, Outside,
     Negotiating, Opened
<1>3. CASE FallbackEnds(c)
  BY <1>3, InsideStep, FirstStages, Zenon
     DEF FallbackEnds, Move, Go, Untouched, Inside, Stages, Outside,
     Negotiating, Opened
<1>4. CASE XhttpUpgraded(c)
  BY <1>4, InsideStep, FirstStages, Zenon
     DEF XhttpUpgraded, Move, Go, Untouched, Inside, Stages, Outside,
     Negotiating, Opened
<1>5. CASE XhttpPostHandled(c)
  BY <1>5, InsideStep, FirstStages, Zenon
     DEF XhttpPostHandled, Move, Go, Untouched, Inside, Stages, Outside,
     Negotiating, Opened
<1>6. CASE SniffFail(c)
  BY <1>6, InsideStep, FirstStages, Zenon
     DEF SniffFail, Move, Go, Untouched, Inside, Stages, Outside,
     Negotiating, Opened
<1>7. CASE HandshakeFail(c)
  BY <1>7, InsideStep, FirstStages, Zenon
     DEF HandshakeFail, Move, Go, Untouched, Inside, Stages, Outside,
     Negotiating, Opened
<1>8. CASE PolicyRefuses(c)
  BY <1>8, InsideStep, FirstStages, Zenon
     DEF PolicyRefuses, Move, Go, Untouched, Inside, Stages, Outside,
     Negotiating, Opened
<1>9. CASE ConnectOk(c)
  BY <1>9, InsideStep, FirstStages, Zenon
     DEF ConnectOk, Move, Go, Untouched, Inside, Stages, Outside,
     Negotiating, Opened
<1>10. CASE ReplyOk(c)
  BY <1>10, InsideStep, FirstStages, Zenon
     DEF ReplyOk, Move, Go, Untouched, Inside, Stages, Outside,
     Negotiating, Opened
<1>11. CASE TransportOk(c)
  BY <1>11, InsideStep, FirstStages, Zenon DEF TransportOk, Go, Untouched, Inside,
    Stages, Outside,
     Negotiating, Opened
<1>12. CASE SnapshotSocks(c)
  BY <1>12, InsideStep, FirstStages, Zenon
     DEF SnapshotSocks, Go, Untouched, Inside, Stages, Outside,
     Negotiating, Opened
<1>13. CASE SnapshotVless(c)
  BY <1>13, InsideStep, FirstStages, Zenon DEF SnapshotVless, Go, Untouched, Inside,
    Stages, Outside,
     Negotiating, Opened
<1>14. CASE Sniff(c)
  BY <1>14, InsideStep, FirstStages, Zenon DEF Sniff, Go, Untouched, Inside, Stages,
    Outside,
     Negotiating, Opened
<1>15. CASE HandshakeOk(c)
  BY <1>15, InsideStep, FirstStages, Zenon DEF HandshakeOk, Go, Untouched, Inside,
    Stages, Outside,
     Negotiating, Opened
<1>16. CASE HandshakeRefused(c)
  BY <1>16, InsideStep, FirstStages, Zenon
     DEF HandshakeRefused, Go, Untouched, Inside, Stages, Outside,
     Negotiating, Opened
<1>17. CASE OpenRelay(c)
  BY <1>17, InsideStep, FirstStages, Zenon DEF OpenRelay, Go, Untouched, Inside, Stages,
    Outside,
     Negotiating, Opened
<1>18. CASE ConnectFail(c)
  BY <1>18, InsideStep, FirstStages, Zenon DEF ConnectFail, Go, Untouched, Inside,
    Stages, Outside,
     Negotiating, Opened
<1>19. CASE ReplyFail(c)
  BY <1>19, InsideStep, FirstStages, Zenon DEF ReplyFail, Go, Untouched, Inside, Stages,
    Outside,
     Negotiating, Opened
<1>20. CASE RelayEnds(c)
  BY <1>20, InsideStep, FirstStages, Zenon DEF RelayEnds, Go, Untouched, Inside, Stages,
    Outside,
     Negotiating, Opened
<1>21. CASE HttpEnds(c)
  BY <1>21, OutsideStep, Zenon DEF HttpEnds, Untouched
<1>22. CASE Finish(c)
  BY <1>22, FinishStep, Zenon
<1>. QED
  BY <1>1, <1>2, <1>3, <1>4, <1>5, <1>6, <1>7, <1>8, <1>9, <1>10,
     <1>11, <1>12, <1>13, <1>14, <1>15, <1>16, <1>17, <1>18, <1>19,
     <1>20, <1>21, <1>22, Zenon DEF SessionTask

(* The initial state satisfies the invariant. *)
LEMMA SlotInitInv == Init => SlotInv
<1>. SUFFICES ASSUME Init PROVE SlotInv
  OBVIOUS
<1>1. GateInv
  BY GateInitInv, Zenon DEF Init
<1>2. StageType
  BY Zenon DEF Init, StageType, Stages, Outside
<1>3. SlotPerSession
  BY Zenon DEF Init, GateInit, SlotPerSession, Outside
<1>4. HandsAreAccepted
  BY Zenon DEF Init, GateInit, HandsAreAccepted, Resting
<1>. QED BY <1>1, <1>2, <1>3, <1>4, Zenon DEF SlotInv

(* Every step of the server keeps the invariant. *)
LEMMA SlotStepInv == SlotInv /\ [Next]_vars => SlotInv'
<1>. SUFFICES ASSUME SlotInv, [Next]_vars PROVE SlotInv'
  OBVIOUS
<1>1. ASSUME NEW c \in Conns, Arrive(c) PROVE SlotInv'
  BY <1>1, ArriveStep, Zenon
<1>2. ASSUME NEW c \in Conns, SessionTask(c) PROVE SlotInv'
  BY <1>2, SessionStep, Zenon
<1>3. ASSUME NEW l \in Loops, AcceptLoop(l) PROVE SlotInv'
  <2>1. ASSUME NEW c \in Conns, Accept(l, c) PROVE SlotInv'
    BY <2>1, AcceptStep, Zenon
  <2>2. CASE AskGate(l)
    BY <2>2, AskGateStep, Zenon
  <2>3. CASE LoopStops(l)
    BY <2>3, OutsideStep, Zenon DEF LoopStops, sessionVars
  <2>. QED BY <1>3, <2>1, <2>2, <2>3, Zenon DEF AcceptLoop
<1>4. ASSUME NEW new, SetStore(new) PROVE SlotInv'
  BY <1>4, OutsideStep, Zenon DEF SetStore
<1>5. ASSUME NEW p \in AllProtocols, NEW u \in Users, AddUser(p, u) \/ RemoveUser(p, u)
      PROVE  SlotInv'
  BY <1>4, <1>5, Zenon DEF AddUser, RemoveUser
<1>6. CASE ReloadFromProtocol
  BY <1>4, <1>6, Zenon DEF ReloadFromProtocol
<1>7. ASSUME NEW over \in SUBSET IPs, BansEnd(over) PROVE SlotInv'
  BY <1>7, OutsideStep, Zenon DEF BansEnd, sessionVars
<1>8. CASE Signal
  BY <1>8, OutsideStep, Zenon DEF Signal, sessionVars
<1>9. CASE Exit
  BY <1>9, OutsideStep, Zenon DEF Exit, sessionVars
<1>10. CASE UNCHANGED vars
  BY <1>10, OutsideStep, Zenon DEF vars, sessionVars
<1>. QED BY <1>1, <1>2, <1>3, <1>5, <1>6, <1>7, <1>8, <1>9, <1>10, Zenon DEF Next

(* The server never serves more sessions than max_connections allows: the   *)
(* accept loops use the gate as its specification says.                     *)
THEOREM ServerKeepsLimit == Spec => []AtMostMax
<1>1. SlotInv => AtMostMax
  BY Zenon DEF SlotInv, GateInv
<1>. QED BY <1>1, SlotInitInv, SlotStepInv, PTL DEF Spec

(* A permit lives exactly as long as the session task it was given to:      *)
(* every early return of accept_loop, serve_inbound and handle_connection   *)
(* gives the slot back, and none gives it back while the task goes on.      *)
THEOREM SlotsFollowSessions == Spec => []SlotPerSession
<1>1. SlotInv => SlotPerSession
  BY Zenon DEF SlotInv
<1>. QED BY <1>1, SlotInitInv, SlotStepInv, PTL DEF Spec

-----------------------------------------------------------------------------
(* The gauge.  Sessions between connection_opened and the end of their      *)
(* relay, and how their number changes when one connection changes stage.   *)
OpenSessions == {c \in Conns : stage[c] \in Opened}

LEMMA OpenCount ==
  ASSUME StageType, NEW c \in Conns, NEW to, stage' = [stage EXCEPT ![c] = to]
  PROVE  /\ Cardinality(OpenSessions) \in Nat
         /\ (stage[c] \in Opened <=> to \in Opened) => OpenSessions' = OpenSessions
         /\ (stage[c] \notin Opened /\ to \in Opened) =>
              Cardinality(OpenSessions') = Cardinality(OpenSessions) + 1
         /\ (stage[c] \in Opened /\ to \notin Opened) =>
              Cardinality(OpenSessions') = Cardinality(OpenSessions) - 1
<1>1. IsFiniteSet(OpenSessions)
  BY GateAssumption, FS_Subset, Zenon DEF OpenSessions
<1>2. Cardinality(OpenSessions) \in Nat
  BY <1>1, FS_CardinalityType, Zenon
<1>3. stage'[c] = to /\ \A d \in Conns \ {c} : stage'[d] = stage[d]
  BY Zenon DEF StageType
<1>4. (stage[c] \in Opened <=> to \in Opened) => OpenSessions' = OpenSessions
  BY <1>3, Zenon DEF OpenSessions
<1>5. ASSUME stage[c] \notin Opened, to \in Opened
      PROVE  Cardinality(OpenSessions') = Cardinality(OpenSessions) + 1
  <2>1. OpenSessions' = OpenSessions \cup {c} /\ c \notin OpenSessions
    BY <1>3, <1>5, Zenon DEF OpenSessions
  <2>. QED BY <1>1, <2>1, FS_AddElement, Zenon
<1>6. ASSUME stage[c] \in Opened, to \notin Opened
      PROVE  Cardinality(OpenSessions') = Cardinality(OpenSessions) - 1
  <2>1. OpenSessions' = OpenSessions \ {c} /\ c \in OpenSessions
    BY <1>3, <1>6, Zenon DEF OpenSessions
  <2>. QED BY <1>1, <2>1, FS_RemoveElement, Zenon
<1>. QED BY <1>2, <1>4, <1>5, <1>6, Zenon

(* The inductive invariant of the gauge. *)
GaugeInv ==
  /\ SlotInv
  /\ lost \in Nat
  /\ GaugeCountsSessions

(* A step that opens and closes no session and leaves the gauge alone. *)
LEMMA QuietStep ==
  ASSUME GaugeInv, SlotInv', NEW c \in Conns, NEW to,
         stage' = [stage EXCEPT ![c] = to],
         stage[c] \in Opened <=> to \in Opened, UNCHANGED gaugeVars
  PROVE  GaugeInv'
<1>1. OpenSessions' = OpenSessions
  BY OpenCount, ZenonT(30) DEF GaugeInv, SlotInv
<1>2. gauge' = gauge /\ lost' = lost
  BY Zenon DEF gaugeVars
<1>. QED BY <1>1, <1>2, Zenon DEF GaugeInv, GaugeCountsSessions, OpenSessions

LEMMA StillStep ==
  ASSUME GaugeInv, SlotInv', UNCHANGED <<stage, gaugeVars>>
  PROVE  GaugeInv'
BY Zenon DEF GaugeInv, GaugeCountsSessions, gaugeVars

(* Every step of a session task keeps the gauge right. *)
LEMMA SessionGauge ==
  ASSUME GaugeInv, SlotInv', NEW c \in Conns, SessionTask(c)
  PROVE  GaugeInv'
<1>1. CASE TransportFail(c)
  BY <1>1, QuietStep, Zenon DEF TransportFail, Move, Go, Opened, AfterTransport
<1>2. CASE RealityFallback(c)
  BY <1>2, QuietStep, Zenon DEF RealityFallback, Move, Go, Opened, AfterTransport
<1>3. CASE FallbackEnds(c)
  BY <1>3, QuietStep, Zenon DEF FallbackEnds, Move, Go, Opened, AfterTransport
<1>4. CASE XhttpUpgraded(c)
  BY <1>4, QuietStep, Zenon DEF XhttpUpgraded, Move, Go, Opened, AfterTransport
<1>5. CASE XhttpPostHandled(c)
  BY <1>5, QuietStep, Zenon DEF XhttpPostHandled, Move, Go, Opened, AfterTransport
<1>6. CASE SniffFail(c)
  BY <1>6, QuietStep, Zenon DEF SniffFail, Move, Go, Opened, AfterTransport
<1>7. CASE HandshakeFail(c)
  BY <1>7, QuietStep, Zenon DEF HandshakeFail, Move, Go, Opened, AfterTransport
<1>8. CASE PolicyRefuses(c)
  BY <1>8, QuietStep, Zenon DEF PolicyRefuses, Move, Go, Opened, AfterTransport
<1>9. CASE ConnectOk(c)
  BY <1>9, QuietStep, Zenon DEF ConnectOk, Move, Go, Opened, AfterTransport
<1>10. CASE ReplyOk(c)
  BY <1>10, QuietStep, Zenon DEF ReplyOk, Move, Go, Opened, AfterTransport
<1>11. CASE TransportOk(c)
  BY <1>11, QuietStep, Zenon DEF TransportOk, Go, Opened, AfterTransport
<1>12. CASE SnapshotSocks(c)
  BY <1>12, QuietStep, Zenon DEF SnapshotSocks, Go, Opened, AfterTransport
<1>13. CASE SnapshotVless(c)
  BY <1>13, QuietStep, Zenon DEF SnapshotVless, Go, Opened, AfterTransport
<1>14. CASE Sniff(c)
  BY <1>14, QuietStep, Zenon DEF Sniff, Go, Opened, AfterTransport
<1>15. CASE HandshakeOk(c)
  BY <1>15, QuietStep, Zenon DEF HandshakeOk, Go, Opened, AfterTransport
<1>16. CASE HandshakeRefused(c)
  BY <1>16, QuietStep, Zenon DEF HandshakeRefused, Go, Opened, AfterTransport
<1>17. CASE Finish(c)
  BY <1>17, QuietStep, Zenon DEF Finish, Go, Opened, AfterTransport
<1>18. CASE HttpEnds(c)
  BY <1>18, StillStep, Zenon DEF HttpEnds
<1>19. CASE OpenRelay(c)
  <2>1. /\ stage[c] = "dispatch" /\ gauge' = gauge + 1 /\ lost' = lost
        /\ \E to \in Opened : stage' = [stage EXCEPT ![c] = to]
    BY <1>19, Zenon DEF OpenRelay, Go, Opened
  <2>2. "dispatch" \notin Opened /\ StageType
    BY Zenon DEF Opened, GaugeInv, SlotInv
  <2>3. /\ Cardinality(OpenSessions') = Cardinality(OpenSessions) + 1
        /\ Cardinality(OpenSessions) \in Nat
    BY <2>1, <2>2, OpenCount, Zenon
  <2>. QED BY <2>1, <2>3 DEF GaugeInv, GaugeCountsSessions, OpenSessions
<1>20. CASE ConnectFail(c)
  <2>1. /\ stage[c] \in Opened /\ gauge' = gauge - 1 /\ lost' = lost
        /\ stage' = [stage EXCEPT ![c] = "ended"]
    BY <1>20, Zenon DEF ConnectFail, Go, Opened
  <2>2. "ended" \notin Opened /\ StageType
    BY Zenon DEF Opened, GaugeInv, SlotInv
  <2>3. /\ Cardinality(OpenSessions') = Cardinality(OpenSessions) - 1
        /\ Cardinality(OpenSessions) \in Nat
    BY <2>1, <2>2, OpenCount, Zenon
  <2>. QED BY <2>1, <2>3 DEF GaugeInv, GaugeCountsSessions, OpenSessions
<1>21. CASE RelayEnds(c)
  <2>1. /\ stage[c] \in Opened /\ gauge' = gauge - 1 /\ lost' = lost
        /\ stage' = [stage EXCEPT ![c] = "ended"]
    BY <1>21, Zenon DEF RelayEnds, Go, Opened
  <2>2. "ended" \notin Opened /\ StageType
    BY Zenon DEF Opened, GaugeInv, SlotInv
  <2>3. /\ Cardinality(OpenSessions') = Cardinality(OpenSessions) - 1
        /\ Cardinality(OpenSessions) \in Nat
    BY <2>1, <2>2, OpenCount, Zenon
  <2>. QED BY <2>1, <2>3 DEF GaugeInv, GaugeCountsSessions, OpenSessions
<1>22. CASE ReplyFail(c)
  <2>1. /\ stage[c] \in Opened /\ gauge' = gauge /\ lost' = lost + 1
        /\ stage' = [stage EXCEPT ![c] = "ended"]
    BY <1>22, Zenon DEF ReplyFail, Go, Opened
  <2>2. "ended" \notin Opened /\ StageType
    BY Zenon DEF Opened, GaugeInv, SlotInv
  <2>3. /\ Cardinality(OpenSessions') = Cardinality(OpenSessions) - 1
        /\ Cardinality(OpenSessions) \in Nat
    BY <2>1, <2>2, OpenCount, Zenon
  <2>. QED BY <2>1, <2>3 DEF GaugeInv, GaugeCountsSessions, OpenSessions
<1>. QED
  BY <1>1, <1>2, <1>3, <1>4, <1>5, <1>6, <1>7, <1>8, <1>9, <1>10,
     <1>11, <1>12, <1>13, <1>14, <1>15, <1>16, <1>17, <1>18, <1>19,
     <1>20, <1>21, <1>22, SMTT(30) DEF SessionTask

(* Init and every step of the server keep the gauge right. *)
LEMMA GaugeInitInv == Init => GaugeInv
<1>. SUFFICES ASSUME Init PROVE GaugeInv
  OBVIOUS
<1>1. {c \in Conns : stage[c] \in Opened} = {}
  BY Zenon DEF Init, Opened
<1>. QED
  BY <1>1, SlotInitInv, FS_EmptySet, SMTT(30) DEF Init, GaugeInv, GaugeCountsSessions

LEMMA GaugeStepInv == GaugeInv /\ [Next]_vars => GaugeInv'
<1>. SUFFICES ASSUME GaugeInv, [Next]_vars PROVE GaugeInv'
  OBVIOUS
<1>. SlotInv'
  BY SlotStepInv, Zenon DEF GaugeInv
<1>1. ASSUME NEW c \in Conns, Arrive(c) PROVE GaugeInv'
  BY <1>1, QuietStep, Zenon DEF Arrive, Move, Go, Opened
<1>2. ASSUME NEW c \in Conns, SessionTask(c) PROVE GaugeInv'
  BY <1>2, SessionGauge, Zenon
<1>3. ASSUME NEW l \in Loops, NEW c \in Conns, Accept(l, c) PROVE GaugeInv'
  BY <1>3, QuietStep, Zenon DEF Accept, Opened
<1>4. ASSUME NEW l \in Loops, AskGate(l) PROVE GaugeInv'
  <2>1. hand[l] \in Conns /\ stage[hand[l]] = "accepted"
    BY <1>4, Zenon DEF AskGate, GaugeInv, SlotInv, StageType, HandsAreAccepted
  <2>2. UNCHANGED gaugeVars /\ Answered(l)
    BY <1>4, Zenon DEF AskGate
  <2>3. FirstStage \notin Opened
    BY Zenon DEF FirstStage, AfterTransport, Opened
  <2>4. \/ \E to \in {FirstStage, "absent"} : stage' = [stage EXCEPT ![hand[l]] = to]
        \/ UNCHANGED stage
    BY <2>2, Zenon DEF Answered
  <2>. QED BY <2>1, <2>2, <2>3, <2>4, QuietStep, StillStep, Zenon DEF Opened
<1>5. ASSUME NEW l \in Loops, LoopStops(l) PROVE GaugeInv'
  BY <1>5, StillStep, Zenon DEF LoopStops, sessionVars
<1>6. ASSUME NEW new, SetStore(new) PROVE GaugeInv'
  BY <1>6, StillStep, Zenon DEF SetStore
<1>7. ASSUME NEW p \in AllProtocols, NEW u \in Users, AddUser(p, u) \/ RemoveUser(p, u)
      PROVE  GaugeInv'
  BY <1>6, <1>7, Zenon DEF AddUser, RemoveUser
<1>8. CASE ReloadFromProtocol
  BY <1>6, <1>8, Zenon DEF ReloadFromProtocol
<1>9. ASSUME NEW over \in SUBSET IPs, BansEnd(over) PROVE GaugeInv'
  BY <1>9, StillStep, Zenon DEF BansEnd, sessionVars
<1>10. CASE Signal
  BY <1>10, StillStep, Zenon DEF Signal, sessionVars
<1>11. CASE Exit
  BY <1>11, StillStep, Zenon DEF Exit, sessionVars
<1>12. CASE UNCHANGED vars
  BY <1>12, StillStep, Zenon DEF vars, sessionVars
<1>. QED
  BY <1>1, <1>2, <1>3, <1>4, <1>5, <1>7, <1>8, <1>9, <1>10, <1>11, <1>12, Zenon
     DEF Next, AcceptLoop

(* skadicore_active_connections is the number of open sessions plus one for *)
(* each SOCKS5 reply that could not be written: every other return of       *)
(* handle_connection after connection_opened counts exactly once.           *)
THEOREM GaugeIsRight == Spec => []GaugeCountsSessions
<1>1. GaugeInv => GaugeCountsSessions
  BY Zenon DEF GaugeInv
<1>. QED BY <1>1, GaugeInitInv, GaugeStepInv, PTL DEF Spec
-----------------------------------------------------------------------------
(* Identities.  Users and flags of the store, or of what a session has seen *)
(* of it.                                                                   *)
Views == [users : [AllProtocols -> SUBSET Users], enabled : SUBSET AllProtocols]

IdentityTypes ==
  /\ store \in Views
  /\ sinceAccept \in [Conns -> Views]
  /\ snapshot \in [Conns -> [AllProtocols -> SUBSET Users]]
  /\ user \in [Conns -> Users \cup {NoOne}]
  /\ proto \in [Conns -> AllProtocols \cup {NoOne}]

(* What holds of a connection at stage st that speaks for u by protocol p,  *)
(* with a copy of the users of each protocol: a session has seen the users  *)
(* now in the store, those of its copy and the one it speaks for; it speaks *)
(* for nobody before its handshake, and knows its protocol by then.         *)
Identified(st, u, p, copy, seen, now) ==
  /\ st \in Outside => \A q \in AllProtocols : copy[q] = {}
  /\ st \in Outside \cup Negotiating => u = NoOne
  /\ st = "handshake" => p \in AllProtocols
  /\ st \notin Outside => \A q \in AllProtocols : now[q] \subseteq seen[q]
  /\ \A q \in AllProtocols : copy[q] \subseteq seen[q]
  /\ u # NoOne => p \in AllProtocols /\ u \in seen[p]

IdentityOf(c) ==
  Identified(stage[c], user[c], proto[c], snapshot[c], sinceAccept[c].users, store.users)

(* The inductive invariant. *)
IdentityInv ==
  /\ SlotInv
  /\ IdentityTypes
  /\ \A c \in Conns : IdentityOf(c)

(* Steps of a connection that settle nothing about its identity. *)
Forward(from, to) ==
  \/ from \in Outside /\ to \in Outside
  \/ /\ from \notin Outside /\ to \notin Outside
     /\ to \in Negotiating => from \in Negotiating /\ to # "handshake"

LEMMA ForwardStep ==
  ASSUME IdentityInv, SlotInv', NEW c \in Conns, NEW to,
         stage' = [stage EXCEPT ![c] = to], Forward(stage[c], to),
         UNCHANGED <<user, proto, snapshot, sinceAccept, store>>
  PROVE  IdentityInv'
<1>1. IdentityTypes'
  BY Zenon DEF IdentityInv, IdentityTypes
<1>2. stage'[c] = to /\ \A d \in Conns \ {c} : stage'[d] = stage[d]
  BY Zenon DEF IdentityInv, SlotInv, StageType
<1>3. ASSUME NEW u, NEW p, NEW copy, NEW seen, NEW now,
             Identified(stage[c], u, p, copy, seen, now)
      PROVE  Identified(to, u, p, copy, seen, now)
  BY <1>3, Zenon DEF Identified, Forward, Outside, Negotiating
<1>4. ASSUME NEW d \in Conns PROVE IdentityOf(d)'
  <2>1. IdentityOf(d)
    BY Zenon DEF IdentityInv
  <2>2. CASE d = c
    <3>1. Identified(to, user[c], proto[c], snapshot[c], sinceAccept[c].users, store.users)
      BY <1>3, <2>1, <2>2, Zenon DEF IdentityOf
    <3>. QED BY <1>2, <2>2, <3>1, ZenonT(30) DEF IdentityOf
  <2>3. CASE d # c
    BY <1>2, <2>1, <2>3, Zenon DEF IdentityOf
  <2>. QED BY <2>2, <2>3, Zenon
<1>. QED BY <1>1, <1>4, Zenon DEF IdentityInv

LEMMA SameIdentities ==
  ASSUME IdentityInv, SlotInv',
         UNCHANGED <<stage, user, proto, snapshot, sinceAccept, store>>
  PROVE  IdentityInv'
BY Zenon DEF IdentityInv, IdentityTypes, IdentityOf

(* The store is copied, one protocol after the other, and the protocol of   *)
(* the session is settled.                                                  *)
LEMMA SnapshotStep ==
  ASSUME IdentityInv, SlotInv', NEW c \in Conns,
         SnapshotSocks(c) \/ SnapshotVless(c) \/ Sniff(c)
  PROVE  IdentityInv'
<1>1. /\ stage[c] \in {"snapshot", "snapshot2", "sniff"}
      /\ \E to \in {"snapshot2", "sniff", "handshake"} : stage' = [stage EXCEPT ![c] = to]
      /\ UNCHANGED <<user, sinceAccept, store>>
  BY Zenon DEF SnapshotSocks, SnapshotVless, Sniff, Go, Settled, Untouched, storeVars
<1>2. \/ proto' = proto /\ stage'[c] # "handshake"
      \/ \E p \in AllProtocols : proto' = [proto EXCEPT ![c] = p]
  BY <1>1, ServerAssumption, Zenon DEF SnapshotSocks, SnapshotVless, Sniff, Go, Settled,
    AllProtocols,
     IdentityInv, SlotInv, StageType
<1>3. \/ snapshot' = snapshot
      \/ \E q \in AllProtocols : snapshot' = [snapshot EXCEPT ![c][q] = store.users[q]]
  BY Zenon DEF SnapshotSocks, SnapshotVless, Sniff, AllProtocols
<1>4. IdentityTypes'
  <2>1. proto' \in [Conns -> AllProtocols \cup {NoOne}]
    BY <1>2, Zenon DEF IdentityInv, IdentityTypes
  <2>2. store.users \in [AllProtocols -> SUBSET Users]
    BY Zenon DEF IdentityInv, IdentityTypes, Views
  <2>3. snapshot' \in [Conns -> [AllProtocols -> SUBSET Users]]
    <3>1. ASSUME NEW q \in AllProtocols,
                 snapshot' = [snapshot EXCEPT ![c] = [@ EXCEPT ![q] = store.users[q]]]
          PROVE  snapshot' \in [Conns -> [AllProtocols -> SUBSET Users]]
      <4>1. [snapshot[c] EXCEPT ![q] = store.users[q]] \in [AllProtocols -> SUBSET Users]
        BY <2>2, Zenon DEF IdentityInv, IdentityTypes
      <4>. QED BY <3>1, <4>1, Zenon DEF IdentityInv, IdentityTypes
    <3>. QED BY <1>3, <3>1, Zenon DEF IdentityInv, IdentityTypes
  <2>. QED BY <1>1, <2>1, <2>3, Zenon DEF IdentityInv, IdentityTypes
<1>5. /\ stage'[c] \in {"snapshot2", "sniff", "handshake"}
      /\ (proto'[c] = proto[c] /\ stage'[c] # "handshake") \/ proto'[c] \in AllProtocols
      /\ \A q \in AllProtocols : snapshot'[c][q] \in {snapshot[c][q], store.users[q]}
  <2>1. stage'[c] \in {"snapshot2", "sniff", "handshake"}
    BY <1>1, Zenon DEF IdentityInv, SlotInv, StageType
  <2>2. (proto'[c] = proto[c] /\ stage'[c] # "handshake") \/ proto'[c] \in AllProtocols
    BY <1>2, Zenon DEF IdentityInv, IdentityTypes
  <2>3. ASSUME NEW q \in AllProtocols
        PROVE  snapshot'[c][q] \in {snapshot[c][q], store.users[q]}
    <3>1. snapshot \in [Conns -> [AllProtocols -> SUBSET Users]]
      BY Zenon DEF IdentityInv, IdentityTypes
    <3>2. ASSUME NEW p \in AllProtocols,
                 snapshot' = [snapshot EXCEPT ![c] = [@ EXCEPT ![p] = store.users[p]]]
          PROVE  snapshot'[c][q] \in {snapshot[c][q], store.users[q]}
      <4>1. snapshot'[c] = [snapshot[c] EXCEPT ![p] = store.users[p]]
        BY <3>1, <3>2, Zenon
      <4>. QED BY <3>1, <4>1, Zenon
    <3>. QED BY <1>3, <3>2, Zenon
  <2>. QED BY <2>1, <2>2, <2>3, Zenon
<1>6. \A d \in Conns \ {c} :
        stage'[d] = stage[d] /\ proto'[d] = proto[d] /\ snapshot'[d] = snapshot[d]
  BY <1>1, <1>2, <1>3, Zenon DEF IdentityInv, IdentityTypes, SlotInv, StageType
<1>7. IdentityOf(c)'
  <2>1. IdentityOf(c)
    BY Zenon DEF IdentityInv
  <2>. QED BY <1>1, <1>5, <2>1, Zenon DEF IdentityOf, Identified, Outside, Negotiating
<1>8. ASSUME NEW d \in Conns \ {c} PROVE IdentityOf(d)'
  BY <1>1, <1>6, Zenon DEF IdentityInv, IdentityOf
<1>. QED BY <1>4, <1>7, <1>8, Zenon DEF IdentityInv

(* The handshake picks a user of the copy. *)
LEMMA HandshakeStep ==
  ASSUME IdentityInv, SlotInv', NEW c \in Conns, HandshakeOk(c)
  PROVE  IdentityInv'
<1>1. /\ stage[c] = "handshake" /\ stage' = [stage EXCEPT ![c] = "dispatch"]
      /\ UNCHANGED <<proto, snapshot, sinceAccept, store>>
  BY Zenon DEF HandshakeOk, Go, Untouched, storeVars
<1>2. PICK u \in snapshot[c][proto[c]] : user' = [user EXCEPT ![c] = u]
  BY Zenon DEF HandshakeOk
<1>3. IdentityOf(c) /\ proto[c] \in AllProtocols
  BY <1>1, Zenon DEF IdentityInv, IdentityOf, Identified
<1>4. u \in Users
  BY <1>3 DEF IdentityInv, IdentityTypes
<1>5. IdentityTypes'
  <2>1. user' \in [Conns -> Users \cup {NoOne}]
    BY <1>2, <1>4, Zenon DEF IdentityInv, IdentityTypes
  <2>. QED BY <1>1, <2>1, Zenon DEF IdentityInv, IdentityTypes
<1>6. /\ stage'[c] = "dispatch" /\ user'[c] = u
      /\ \A d \in Conns \ {c} : stage'[d] = stage[d] /\ user'[d] = user[d]
  BY <1>1, <1>2, Zenon DEF IdentityInv, IdentityTypes, SlotInv, StageType
<1>7. IdentityOf(c)'
  BY <1>1, <1>3, <1>6, Zenon DEF IdentityOf, Identified, Outside, Negotiating
<1>8. ASSUME NEW d \in Conns \ {c} PROVE IdentityOf(d)'
  BY <1>1, <1>6, Zenon DEF IdentityInv, IdentityOf
<1>. QED BY <1>5, <1>7, <1>8, Zenon DEF IdentityInv

(* The end of a session task: its connection is as new. *)
LEMMA FinishForgets ==
  ASSUME IdentityInv, SlotInv', NEW c \in Conns, Finish(c)
  PROVE  IdentityInv'
<1>1. /\ stage' = [stage EXCEPT ![c] = "absent"]
      /\ user' = [user EXCEPT ![c] = NoOne] /\ proto' = [proto EXCEPT ![c] = NoOne]
      /\ snapshot' = [snapshot EXCEPT ![c] = NoUsers]
      /\ sinceAccept' = [sinceAccept EXCEPT ![c] = Nothing]
      /\ store' = store
  BY Zenon DEF Finish, Go, storeVars
<1>2. NoUsers \in [AllProtocols -> SUBSET Users] /\ Nothing \in Views /\ Nothing.users = NoUsers
  BY Zenon DEF NoUsers, Nothing, Views
<1>3. IdentityTypes'
  BY <1>1, <1>2, Zenon DEF IdentityInv, IdentityTypes
<1>4. /\ stage'[c] = "absent" /\ user'[c] = NoOne /\ proto'[c] = NoOne
      /\ snapshot'[c] = NoUsers /\ sinceAccept'[c] = Nothing
  BY <1>1, Zenon DEF IdentityInv, IdentityTypes, SlotInv, StageType
<1>5. ASSUME NEW d \in Conns \ {c} PROVE IdentityOf(d)'
  <2>1. /\ stage'[d] = stage[d] /\ user'[d] = user[d] /\ proto'[d] = proto[d]
        /\ snapshot'[d] = snapshot[d] /\ sinceAccept'[d] = sinceAccept[d]
    BY <1>1, Zenon DEF IdentityInv, IdentityTypes, SlotInv, StageType
  <2>. QED BY <1>1, <2>1, Zenon DEF IdentityInv, IdentityOf
<1>6. IdentityOf(c)'
  <2>1. \A q \in AllProtocols : NoUsers[q] = {}
    BY Zenon DEF NoUsers
  <2>. QED BY <1>2, <1>4, <2>1, Zenon DEF IdentityOf, Identified, Outside
<1>. QED BY <1>3, <1>5, <1>6, Zenon DEF IdentityInv

(* Every step of a session task. *)
LEMMA SessionIdentity ==
  ASSUME IdentityInv, SlotInv', NEW c \in Conns, SessionTask(c)
  PROVE  IdentityInv'
<1>1. CASE TransportFail(c) \/ RealityFallback(c) \/ FallbackEnds(c)
  BY <1>1, ForwardStep, Zenon DEF TransportFail, RealityFallback, FallbackEnds, Move,
    Go, Settled,
     Untouched, storeVars, Forward, Outside, Negotiating
<1>2. CASE XhttpUpgraded(c) \/ XhttpPostHandled(c)
  BY <1>2, ForwardStep, Zenon DEF XhttpUpgraded, XhttpPostHandled, Move, Go,
     Settled, Untouched, storeVars, Forward, Outside, Negotiating
<1>3. CASE SniffFail(c) \/ HandshakeFail(c) \/ HandshakeRefused(c)
  BY <1>3, ForwardStep, Zenon DEF SniffFail, HandshakeFail, HandshakeRefused, Move, Go,
    Settled,
     Untouched, storeVars, Forward, Outside, Negotiating
<1>4. CASE PolicyRefuses(c) \/ OpenRelay(c) \/ ConnectOk(c) \/ ReplyOk(c)
  BY <1>4, ForwardStep, Zenon DEF PolicyRefuses, OpenRelay, ConnectOk, ReplyOk, Move,
    Go, Settled,
     Untouched, storeVars, Forward, Outside, Negotiating
<1>5. CASE ConnectFail(c) \/ ReplyFail(c) \/ RelayEnds(c)
  BY <1>5, ForwardStep, Zenon DEF ConnectFail, ReplyFail, RelayEnds, Go, Settled,
    Untouched,
     storeVars, Forward, Outside, Negotiating
<1>6. CASE TransportOk(c)
  BY <1>6, ForwardStep, Zenon DEF TransportOk, AfterTransport, Go, Settled, Untouched,
    storeVars,
     Forward, Outside, Negotiating
<1>7. CASE HttpEnds(c)
  BY <1>7, SameIdentities, Zenon DEF HttpEnds, Settled, Untouched, storeVars
<1>8. CASE SnapshotSocks(c) \/ SnapshotVless(c) \/ Sniff(c)
  BY <1>8, SnapshotStep, Zenon
<1>9. CASE HandshakeOk(c)
  BY <1>9, HandshakeStep, Zenon
<1>10. CASE Finish(c)
  BY <1>10, FinishForgets, Zenon
<1>. QED
  BY <1>1, <1>2, <1>3, <1>4, <1>5, <1>6, <1>7, <1>8, <1>9, <1>10, ZenonT(30)
    DEF SessionTask

(* The gate admits a connection, whose session has seen the store so far. *)
LEMMA AdmittedStep ==
  ASSUME IdentityInv, SlotInv', NEW l \in Loops, AskGate(l)
  PROVE  IdentityInv'
<1>1. PICK c \in Conns : c = hand[l] /\ stage[c] = "accepted"
  BY Zenon DEF AskGate, IdentityInv, SlotInv, StageType, HandsAreAccepted
<1>2. UNCHANGED <<user, proto, snapshot, store>> /\ Answered(l)
  BY Zenon DEF AskGate, Settled, storeVars
<1>3. CASE /\ stage' = [stage EXCEPT ![c] = FirstStage]
           /\ sinceAccept' = [sinceAccept EXCEPT ![c] = store]
  <2>1. IdentityTypes'
    BY <1>2, <1>3, Zenon DEF IdentityInv, IdentityTypes
  <2>2. FirstStage \in Negotiating \ {"handshake"}
    BY Zenon DEF FirstStage, AfterTransport, Negotiating
  <2>3. stage'[c] = FirstStage /\ sinceAccept'[c] = store
    BY <1>1, <1>3, Zenon DEF IdentityInv, IdentityTypes, SlotInv, StageType
  <2>4. IdentityOf(c)'
    <3>1. IdentityOf(c)
      BY <1>1, Zenon DEF IdentityInv
    <3>. QED BY <1>1, <1>2, <2>2, <2>3, <3>1, Zenon DEF IdentityOf, Identified, Outside
  <2>5. ASSUME NEW d \in Conns \ {c} PROVE IdentityOf(d)'
    <3>1. stage'[d] = stage[d] /\ sinceAccept'[d] = sinceAccept[d]
      BY <1>1, <1>3, Zenon DEF IdentityInv, IdentityTypes, SlotInv, StageType
    <3>. QED BY <1>2, <3>1, Zenon DEF IdentityInv, IdentityOf
  <2>. QED BY <2>1, <2>4, <2>5, Zenon DEF IdentityInv
<1>4. CASE stage' = [stage EXCEPT ![c] = "absent"] /\ UNCHANGED sinceAccept
  BY <1>1, <1>2, <1>4, ForwardStep, Zenon DEF Forward, Outside
<1>5. CASE UNCHANGED <<stage, sinceAccept>>
  BY <1>2, <1>5, SameIdentities, Zenon
<1>. QED BY <1>1, <1>2, <1>3, <1>4, <1>5, Zenon DEF Answered

(* The store changes, and every running session has seen the new one. *)
LEMMA StoreStep ==
  ASSUME IdentityInv, SlotInv', NEW new \in Views, SetStore(new)
  PROVE  IdentityInv'
<1>1. store' = new /\ UNCHANGED <<stage, user, proto, snapshot>>
  BY Zenon DEF SetStore, Settled
<1>. DEFINE Wider(c) == [users |-> [p \in AllProtocols |->
                                      sinceAccept[c].users[p] \cup new.users[p]],
                         enabled |-> sinceAccept[c].enabled \cup new.enabled]
<1>2. sinceAccept' = [c \in Conns |->
        IF stage[c] \in Outside THEN sinceAccept[c] ELSE Wider(c)]
  BY Zenon DEF SetStore
<1>3. ASSUME NEW c \in Conns
      PROVE  /\ Wider(c) \in Views
             /\ \A p \in AllProtocols :
                  Wider(c).users[p] = sinceAccept[c].users[p] \cup new.users[p]
  BY SMTT(30) DEF IdentityInv, IdentityTypes, Views
<1>. HIDE DEF Wider
<1>4. IdentityTypes'
  BY <1>1, <1>2, <1>3, Zenon DEF IdentityInv, IdentityTypes
<1>5. ASSUME NEW c \in Conns PROVE IdentityOf(c)'
  <2>1. IdentityOf(c)
    BY Zenon DEF IdentityInv
  <2>2. CASE stage[c] \in Outside
    <3>1. sinceAccept'[c] = sinceAccept[c]
      BY <1>2, <2>2, Zenon
    <3>. QED BY <1>1, <2>1, <2>2, <3>1, Zenon DEF IdentityOf, Identified
  <2>3. CASE stage[c] \notin Outside
    <3>1. sinceAccept'[c] = Wider(c)
      BY <1>2, <2>3, Zenon
    <3>2. \A q \in AllProtocols : /\ sinceAccept[c].users[q] \subseteq sinceAccept'[c].users[q]
                                  /\ new.users[q] \subseteq sinceAccept'[c].users[q]
      BY <1>3, <3>1, Zenon
    <3>3. user[c] # NoOne => proto[c] \in AllProtocols
      BY <2>1, Zenon DEF IdentityOf, Identified
    <3>. QED BY <1>1, <2>1, <2>3, <3>2, <3>3, Zenon DEF IdentityOf, Identified
  <2>. QED BY <2>2, <2>3, Zenon
<1>. QED BY <1>4, <1>5, Zenon DEF IdentityInv

(* The initial state, and every step of the server. *)
LEMMA IdentityInitInv == Init => IdentityInv
<1>. SUFFICES ASSUME Init PROVE IdentityInv
  BY Zenon
<1>1. NoUsers \in [AllProtocols -> SUBSET Users] /\ Nothing \in Views /\ Nothing.users = NoUsers
  BY Zenon DEF NoUsers, Nothing, Views
<1>2. store \in Views
  BY ServerAssumption, Zenon DEF Init, Views, AllProtocols
<1>3. IdentityTypes
  BY <1>1, <1>2, Zenon DEF Init, IdentityTypes
<1>4. ASSUME NEW c \in Conns PROVE IdentityOf(c)
  <2>1. /\ stage[c] = "absent" /\ user[c] = NoOne
        /\ snapshot[c] = NoUsers /\ sinceAccept[c] = Nothing
    BY Zenon DEF Init
  <2>2. \A q \in AllProtocols : NoUsers[q] = {}
    BY Zenon DEF NoUsers
  <2>. QED BY <1>1, <2>1, <2>2, Zenon DEF IdentityOf, Identified, Outside
<1>. QED BY <1>3, <1>4, SlotInitInv, Zenon DEF IdentityInv

LEMMA IdentityStepInv == IdentityInv /\ [Next]_vars => IdentityInv'
<1>. SUFFICES ASSUME IdentityInv, [Next]_vars PROVE IdentityInv'
  OBVIOUS
<1>. SlotInv'
  BY SlotStepInv, Zenon DEF IdentityInv
<1>1. ASSUME NEW c \in Conns, Arrive(c) PROVE IdentityInv'
  BY <1>1, ForwardStep, Zenon DEF Arrive, Move, Go, Settled, Untouched, storeVars,
    Forward, Outside
<1>2. ASSUME NEW c \in Conns, SessionTask(c) PROVE IdentityInv'
  BY <1>2, SessionIdentity, Zenon
<1>3. ASSUME NEW l \in Loops, NEW c \in Conns, Accept(l, c) PROVE IdentityInv'
  BY <1>3, ForwardStep, Zenon DEF Accept, Settled, Untouched, storeVars, Forward, Outside
<1>4. ASSUME NEW l \in Loops, AskGate(l) PROVE IdentityInv'
  BY <1>4, AdmittedStep, Zenon
<1>5. ASSUME NEW l \in Loops, LoopStops(l) PROVE IdentityInv'
  BY <1>5, SameIdentities, Zenon DEF LoopStops, sessionVars, storeVars
<1>6. ASSUME NEW p \in AllProtocols, NEW u \in Users, AddUser(p, u) \/ RemoveUser(p, u)
      PROVE  IdentityInv'
  <2>1. store \in Views
    BY Zenon DEF IdentityInv, IdentityTypes
  <2>2. ASSUME NEW us \in SUBSET Users PROVE [store EXCEPT !.users[p] = us] \in Views
    BY <2>1, Zenon DEF Views
  <2>3. store.users[p] \cup {u} \in SUBSET Users /\ store.users[p] \ {u} \in SUBSET Users
    BY <2>1, Zenon DEF Views
  <2>. QED BY <1>6, <2>2, <2>3, StoreStep, Zenon DEF AddUser, RemoveUser
<1>7. CASE ReloadFromProtocol
  <2>1. ASSUME NEW us \in [AllProtocols -> SUBSET Users], NEW on \in SUBSET AllProtocols
        PROVE  [users |-> us, enabled |-> on] \in Views
    BY Zenon DEF Views
  <2>. QED BY <1>7, <2>1, StoreStep, Zenon DEF ReloadFromProtocol
<1>8. ASSUME NEW over \in SUBSET IPs, BansEnd(over) PROVE IdentityInv'
  BY <1>8, SameIdentities, Zenon DEF BansEnd, sessionVars, storeVars
<1>9. CASE Signal
  BY <1>9, SameIdentities, Zenon DEF Signal, sessionVars, storeVars
<1>10. CASE Exit
  BY <1>10, SameIdentities, Zenon DEF Exit, sessionVars, storeVars
<1>11. CASE UNCHANGED vars
  BY <1>11, SameIdentities, Zenon DEF vars, sessionVars, storeVars
<1>. QED
  BY <1>1, <1>2, <1>3, <1>4, <1>5, <1>6, <1>7, <1>8, <1>9, <1>10, <1>11, Zenon
    DEF Next, AcceptLoop

(* A session never speaks for a user who was in the store at no moment of   *)
(* the session, although handle_connection works on copies that it takes    *)
(* one protocol at a time while SIGHUP and the API change the store.        *)
THEOREM IdentitiesWereValid == Spec => []IdentityWasValid
<1>1. IdentityInv => IdentityWasValid
  BY Zenon DEF IdentityInv, IdentityOf, Identified, IdentityWasValid
<1>. QED BY <1>1, IdentityInitInv, IdentityStepInv, PTL DEF Spec
=============================================================================
