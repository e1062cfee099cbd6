-------------------------------- MODULE Xudp --------------------------------
(***************************************************************************)
(* XUDP: the process-wide registry of cone sockets by GlobalID             *)
(* (skadi-transport/src/xudp.rs) and the mux connections that use it       *)
(* (mux.rs, handle_xudp_frame and the end of the relay).  A mux has at     *)
(* most one cone and one task that reads its socket.  Each access to the   *)
(* registry is one step, for the registry's lock is held throughout it;    *)
(* the state Initializing, which a hit leaves before it unlocks, is never  *)
(* seen by anyone.                                                         *)
(***************************************************************************)
EXTENDS Naturals, FiniteSets

CONSTANTS
  Muxes,     \* mux connections, each served by one task
  Ids,       \* GlobalIDs
  MaxCones   \* bound of the model: cones one mux opens, one after the other

VARIABLES
  entries,    \* the registry: what each GlobalID maps to
  cone,       \* the cone of each mux
  cones,      \* cones each mux has opened so far; they number its readers
  stage,      \* where the task of each mux stands
  running,    \* reader tasks that have neither ended nor been aborted
  broken,     \* history: readers that ended by themselves
  contested   \* history: a GlobalID was used by two muxes at a time

coneVars == <<entries, cone, cones, stage, running, broken, contested>>

NoId == "no id"
NoEntry == [socket |-> <<>>, status |-> "absent", due |-> FALSE, reader |-> {}]
NoCone == [socket |-> <<>>, id |-> NoId, started |-> FALSE]

(* A reader task: whose it is, and the how-manieth.  A socket is named      *)
(* after the cone that bound it.                                            *)
Tasks == Muxes \X (1 .. MaxCones)
Task(m) == <<m, cones[m]>>

InRegistry(g) == entries[g].status # "absent"

Open(m) == cone[m] # NoCone

ConeInit ==
  /\ entries = [g \in Ids |-> NoEntry]
  /\ cone = [m \in Muxes |-> NoCone]
  /\ cones = [m \in Muxes |-> 0]
  /\ stage = [m \in Muxes |-> "frame"]
  /\ running = {} /\ broken = {}
  /\ contested = FALSE

Go(m, from, to) == stage[m] = from /\ stage' = [stage EXCEPT ![m] = to]

(* Mutant: a hit leaves the entry to the clean-up it was due for. *)
Acquired_KeepsExpiry(g, s) ==
  IF InRegistry(g)
  THEN [entries[g] EXCEPT !.reader = {}]
  ELSE [NoEntry EXCEPT !.socket = s, !.status = "active"]

(* The registry after g is acquired by a cone that would bind socket s: a   *)
(* hit aborts the reader it knows of and keeps the socket.                  *)
Acquired(g, s) ==
  IF InRegistry(g)
  THEN [entries[g] EXCEPT !.status = "active", !.due = FALSE, !.reader = {}]
  ELSE [NoEntry EXCEPT !.socket = s, !.status = "active"]

-----------------------------------------------------------------------------
(* ensure_xudp_cone without a cone: bind a socket, or take the registry's. *)
OpenCone(m, g) ==
  /\ ~Open(m) /\ cones[m] < MaxCones
  /\ cones' = [cones EXCEPT ![m] = @ + 1]
  /\ \/ /\ g = NoId
        /\ cone' = [cone EXCEPT ![m] = [NoCone EXCEPT !.socket = Task(m)']]
        /\ UNCHANGED <<entries, running, contested>>
     \/ /\ g # NoId
        /\ entries' = [entries EXCEPT ![g] = Acquired(g, Task(m)')]
        /\ running' = running \ entries[g].reader
        /\ cone' = [cone EXCEPT ![m] =
             [socket |-> entries'[g].socket, id |-> g, started |-> FALSE]]
        /\ contested' = (contested \/ \E o \in Muxes \ {m} :
                           cone[o].id = g /\ stage[o] # "gone")

(* ensure_xudp_cone with a cone: a GlobalID of the frame replaces the       *)
(* cone's, without a look at the registry.                                  *)
RenameCone(m, g) ==
  /\ Open(m)
  /\ cone' = [cone EXCEPT ![m].id = IF g = NoId THEN @ ELSE g]
  /\ contested' = (contested \/ cone'[m].id # cone[m].id)
  /\ UNCHANGED <<entries, cones, running>>

(* A New frame for XUDP, with or without a GlobalID. *)
NewXudp(m, g) ==
  /\ Go(m, "frame", "send")
  /\ OpenCone(m, g) \/ RenameCone(m, g)
  /\ UNCHANGED broken

(* A Keep frame with a target; it opens a cone of its own when none is left. *)
KeepXudp(m) ==
  /\ Go(m, "frame", "send")
  /\ OpenCone(m, NoId) \/ RenameCone(m, NoId)
  /\ UNCHANGED broken

(* xudp_send: resolve the target and send the payload. *)
Send(m) ==
  /\ Go(m, "send", "start")
  /\ UNCHANGED <<entries, cone, cones, running, broken, contested>>

(* start_xudp_reader_if_needed: spawn the reader unless the cone has one. *)
StartReader(m) ==
  \/ /\ cone[m].started
     /\ Go(m, "start", "frame")
     /\ UNCHANGED <<entries, cone, cones, running, broken, contested>>
  \/ /\ ~cone[m].started
     /\ Go(m, "start", IF cone[m].id = NoId THEN "frame" ELSE "register")
     /\ cone' = [cone EXCEPT ![m].started = TRUE]
     /\ running' = running \cup {Task(m)}
     /\ UNCHANGED <<entries, cones, broken, contested>>

(* Mutant: the registry is not told of the reader. *)
RegisterReader_Forgotten(m) ==
  /\ Go(m, "register", "frame")
  /\ UNCHANGED <<entries, cone, cones, running, broken, contested>>

(* register_reader: the registry, if it still knows the id, can abort it. *)
RegisterReader(m) ==
  LET g == cone[m].id IN
  /\ Go(m, "register", "frame")
  /\ entries' = IF InRegistry(g)
                THEN [entries EXCEPT ![g].reader = {Task(m)}] ELSE entries
  /\ UNCHANGED <<cone, cones, running, broken, contested>>

(* An End frame, or the end of the client's stream: the cone is taken and   *)
(* its reader aborted; the detachment is a step of its own.                 *)
CloseCone(m, to) ==
  /\ Open(m)
  /\ Go(m, "frame", to)
  /\ running' = running \ {Task(m)}
  /\ UNCHANGED <<entries, cone, cones, broken, contested>>

EndXudp(m) == CloseCone(m, "detach")

ClientLeaves(m) ==
  \/ CloseCone(m, "close")
  \/ /\ ~Open(m)
     /\ Go(m, "frame", "gone")
     /\ UNCHANGED <<entries, cone, cones, running, broken, contested>>

(* detach: an active entry loses its reader, whoever that is, and starts    *)
(* to expire.                                                               *)
Detached(g) ==
  IF entries[g].status = "active"
  THEN [entries[g] EXCEPT !.status = "expiring", !.reader = {}]
  ELSE entries[g]

Detach(m) ==
  LET g == cone[m].id IN
  /\ Go(m, "detach", "frame") \/ Go(m, "close", "gone")
  /\ cone' = [cone EXCEPT ![m] = NoCone]
  /\ \/ /\ g = NoId
        /\ UNCHANGED <<entries, running>>
     \/ /\ g # NoId
        /\ entries' = [entries EXCEPT ![g] = Detached(g)]
        /\ running' = running \ (entries[g].reader \ entries'[g].reader)
  /\ UNCHANGED <<cones, broken, contested>>

(* A deadline, a broken frame, a failed bind, resolve or send: the relay    *)
(* returns at once and leaves reader and registry as they are.              *)
Abandon(m) ==
  /\ Go(m, "frame", "gone") \/ Go(m, "send", "gone")
  /\ UNCHANGED <<entries, cone, cones, running, broken, contested>>

(* recv_from fails, or the client's connection cannot be written to. *)
ReaderBreaks(t) ==
  /\ t \in running
  /\ running' = running \ {t}
  /\ broken' = broken \cup {t}
  /\ UNCHANGED <<entries, cone, cones, stage, contested>>

(* An expiring entry reaches its sixty seconds. *)
BecomeDue(g) ==
  /\ entries[g].status = "expiring" /\ ~entries[g].due
  /\ entries' = [entries EXCEPT ![g].due = TRUE]
  /\ UNCHANGED <<cone, cones, stage, running, broken, contested>>

Expired == {g \in Ids : entries[g].status = "expiring" /\ entries[g].due}

(* cleanup_expired, once a minute. *)
Cleanup ==
  /\ Expired # {}
  /\ running' = running \ UNION {entries[g].reader : g \in Expired}
  /\ entries' = [g \in Ids |-> IF g \in Expired THEN NoEntry ELSE entries[g]]
  /\ UNCHANGED <<cone, cones, stage, broken, contested>>

MuxTask(m) ==
  \/ \E g \in Ids \cup {NoId} : NewXudp(m, g)
  \/ KeepXudp(m) \/ Send(m) \/ StartReader(m) \/ RegisterReader(m)
  \/ EndXudp(m) \/ ClientLeaves(m) \/ Detach(m) \/ Abandon(m)

ConeNext ==
  \/ \E m \in Muxes : MuxTask(m)
  \/ \E t \in Tasks : ReaderBreaks(t)
  \/ \E g \in Ids : BecomeDue(g)
  \/ Cleanup

ConeSpec == ConeInit /\ [][ConeNext]_coneVars

(* The server goes on with the frame it has, entries reach their expiry and *)
(* the clean-up runs; no frame, no datagram and no error is assumed.        *)
ConeFairness ==
  /\ \A m \in Muxes :
       /\ WF_coneVars(Send(m) \/ (stage[m] = "send" /\ Abandon(m)))
       /\ WF_coneVars(StartReader(m)) /\ WF_coneVars(RegisterReader(m))
       /\ WF_coneVars(Detach(m))
  /\ \A g \in Ids : WF_coneVars(BecomeDue(g))
  /\ WF_coneVars(Cleanup)

ConeFairSpec == ConeSpec /\ ConeFairness

-----------------------------------------------------------------------------
Sockets == Tasks \cup {<<>>}

(* Type correctness of registry, cones and readers. *)
ConeTypeOK ==
  /\ entries \in [Ids -> [socket : Sockets, due : BOOLEAN, reader : SUBSET Tasks,
                          status : {"absent", "active", "expiring"}]]
  /\ cone \in [Muxes -> [socket : Sockets, id : Ids \cup {NoId}, started : BOOLEAN]]
  /\ cones \in [Muxes -> 0 .. MaxCones]
  /\ stage \in [Muxes -> {"frame", "send", "start", "register", "detach", "close",
                         "gone"}]
  /\ running \subseteq Tasks /\ broken \subseteq Tasks
  /\ contested \in BOOLEAN

(* Muxes that go on using their cone. *)
Live(m) == Open(m) /\ stage[m] \notin {"detach", "close", "gone"}

SocketOf(t) == cone[t[1]].socket

(* A mux that is the only one to use its GlobalID at a time keeps what it   *)
(* got: the registry holds its socket, does not let it expire, and its      *)
(* reader runs unless it failed, however the muxes that had the GlobalID    *)
(* before have ended and whenever the clean-up runs.                        *)
SoleUserIsServed ==
  ~contested =>
    \A m \in Muxes : Live(m) =>
      /\ cone[m].id # NoId => /\ entries[cone[m].id].socket = cone[m].socket
                              /\ entries[cone[m].id].status = "active"
      /\ cone[m].started => Task(m) \in running \cup broken

(* Two readers that take turns at one socket would each get a part of its   *)
(* datagrams.  A reader that lost its mux without being aborted is stopped  *)
(* by the hit of the next mux before that one starts its own.               *)
SoleReader ==
  ~contested =>
    \A s, t \in running : SocketOf(s) = SocketOf(t) => s = t

(* docs/PROTOCOLS.md: a hit aborts the reader.  So no two readers share a   *)
(* socket, whichever muxes use it.  The code refutes it: see README.        *)
HitAbortsReader ==
  \A s, t \in running : SocketOf(s) = SocketOf(t) => s = t

(* detach takes a mux off its own cone: a mux whose reader has been         *)
(* registered loses it to a failure or to a later hit, never to the End     *)
(* frame of a mux whose cone it took over.  The code refutes it: see README. *)
DetachSparesOthers ==
  [][\A m, o \in Muxes :
       (m # o /\ Live(m) /\ Detach(o) /\ Task(m) \in running) =>
         Task(m) \in running']_coneVars

(* Every task has a way to end: the reader of a mux that is gone ends.      *)
(* The code refutes it: see README.                                         *)
ReadersEnd ==
  \A m \in Muxes : stage[m] = "gone" ~> \A t \in running : t[1] # m
=============================================================================
