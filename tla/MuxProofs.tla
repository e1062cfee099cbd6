----------------------------- MODULE MuxProofs ------------------------------
(***************************************************************************)
(* The server's mux, for every set of session ids, connections and         *)
(* GlobalIDs and every number of sessions and cones.                       *)
(*                                                                         *)
(* Cones.  Neither SoleUserIsServed nor SoleReader is inductive: whether a *)
(* hit stops the reader of the connection before depends on that reader    *)
(* having been registered, and this on the entry still being the one it    *)
(* was registered in.  The invariant follows the socket: which cone, which *)
(* entry and which reader belong to it.                                    *)
(*                                                                         *)
(* Sessions.  OpenIsInTable is not inductive: it lets a reader that is     *)
(* about to remove its id (at = "remove") share this id with a running     *)
(* one.  The strengthening follows a reader until it is done, and adds     *)
(* that an id has one reader that is not done, none while the loop         *)
(* connects for it.                                                        *)
(***************************************************************************)
EXTENDS MuxServer, TLAPS

-----------------------------------------------------------------------------
(* The cones (xudp.rs, and the XUDP frames of mux.rs).                      *)

Uses(m, g) == cone[m].id = g /\ g # NoId

(* Sockets and readers that cones to come will be named differently from. *)
Old(s) == \A m \in Muxes, k \in Nat : k > cones[m] => s # <<m, k>>

(* The types. *)
Sock == (Muxes \X Nat) \cup {<<>>}
Entry == [socket : Sock, due : BOOLEAN, reader : SUBSET (Muxes \X Nat),
          status : {"absent", "active", "expiring"}]
Place == {"frame", "send", "start", "register", "detach", "close", "gone"}
OneCone == [socket : Sock, id : Ids \cup {NoId}, started : BOOLEAN]

ConeTyped ==
  /\ entries \in [Ids -> Entry] /\ cone \in [Muxes -> OneCone]
  /\ cones \in [Muxes -> Nat] /\ stage \in [Muxes -> Place]
  /\ contested \in BOOLEAN

(* Where a mux stands tells what it has. *)
ConePlaces ==
  \A m \in Muxes :
    /\ stage[m] \in {"send", "start", "register", "detach", "close"} => Open(m)
    /\ stage[m] = "register" => cone[m].id # NoId

(* A reader runs for the cone its mux has now. *)
ReadersHaveCones ==
  \A t \in running : \E m \in Muxes :
    /\ t = Task(m) /\ Open(m) /\ cone[m].started
    /\ stage[m] \notin {"detach", "close"}

AllOld ==
  /\ \A m \in Muxes : Open(m) => Old(cone[m].socket)
  /\ \A g \in Ids : InRegistry(g) => Old(entries[g].socket)
  /\ \A g \in Ids : \A t \in entries[g].reader : Old(t)

(* One user of a GlobalID at a time, and the registry keeps it for them. *)
OneUser ==
  \A m, o \in Muxes, g \in Ids :
    (Uses(m, g) /\ Uses(o, g) /\ stage[m] # "gone" /\ stage[o] # "gone") => m = o

UserHasEntry ==
  \A m \in Muxes, g \in Ids :
    (Uses(m, g) /\ stage[m] # "gone") =>
      entries[g].status = "active" /\ entries[g].socket = cone[m].socket

(* An entry's socket is found under no other GlobalID, in the registry or   *)
(* in a cone.                                                               *)
SocketHasId ==
  \A g \in Ids : InRegistry(g) =>
    /\ \A h \in Ids : (InRegistry(h) /\ entries[h].socket = entries[g].socket) => g = h
    /\ \A m \in Muxes : (Open(m) /\ cone[m].socket = entries[g].socket) => Uses(m, g)

OwnSocket ==
  \A m \in Muxes : (Open(m) /\ cone[m].id = NoId) => cone[m].socket = Task(m)

(* The registry can abort the reader of an entry's socket once its mux has  *)
(* registered it, and no other reader that matters.                         *)
ReaderHasId ==
  \A m \in Muxes, g \in Ids :
    (Open(m) /\ Task(m) \in entries[g].reader) => Uses(m, g)

Registered ==
  \A m \in Muxes, g \in Ids :
    (Task(m) \in running /\ InRegistry(g) /\ entries[g].socket = cone[m].socket) =>
      stage[m] = "register" \/ Task(m) \in entries[g].reader

Served ==
  \A m \in Muxes :
    (Live(m) /\ cone[m].started) => Task(m) \in running \cup broken

(* A socket that is being read belongs to no mux that still uses it, but    *)
(* the reader's, and to no other reader.                                    *)
OwnReader ==
  \A m, o \in Muxes :
    (/\ Task(m) \in running /\ Open(o) /\ cone[m].socket = cone[o].socket
     /\ stage[o] # "gone" \/ Task(o) \in running) => m = o

Uncontested ==
  /\ ConePlaces /\ ReadersHaveCones /\ AllOld /\ OneUser /\ UserHasEntry /\ SocketHasId
  /\ OwnSocket /\ ReaderHasId /\ Registered /\ Served /\ OwnReader

ConeInv == ConeTyped /\ (~contested => Uncontested)

-----------------------------------------------------------------------------
(* The names of a step that opens and closes no cone.                       *)
LEMMA SameNames ==
  ASSUME UNCHANGED <<cone, cones>>
  PROVE  /\ \A m : Open(m)' = Open(m) /\ Task(m)' = Task(m)
         /\ \A m, g : Uses(m, g)' = Uses(m, g)
         /\ \A s : Old(s)' = Old(s)
BY Zenon DEF Open, Task, Uses, Old

(* A mux goes on to its next place, or ends, and aborts its reader when it  *)
(* closes its cone.                                                         *)
Moves(m, to) ==
  /\ stage[m] \in {"frame", "send", "start"}
  /\ to \in {"frame", "send", "start", "detach", "close", "gone"}
  /\ stage' = [stage EXCEPT ![m] = to]
  /\ to \in {"send", "start", "detach", "close"} => Open(m)
  /\ running' = IF to \in {"detach", "close"} THEN running \ {Task(m)} ELSE running
  /\ UNCHANGED <<entries, cone, cones, broken>>

(* Such a step keeps what is said of sockets and readers.                   *)
LEMMA MuxMoves ==
  ASSUME ConeTyped, Uncontested, NEW m \in Muxes, NEW to, Moves(m, to)
  PROVE  Uncontested'
<1>. USE DEF Moves
<1>1. /\ \A n : Open(n)' = Open(n) /\ Task(n)' = Task(n)
      /\ \A n, g : Uses(n, g)' = Uses(n, g)
      /\ \A s : Old(s)' = Old(s)
  BY SameNames, Zenon
<1>2. \A g : InRegistry(g)' = InRegistry(g)
  BY Zenon DEF InRegistry
<1>3. /\ stage'[m] = to
      /\ \A o \in Muxes : o # m => stage'[o] = stage[o]
      /\ \A o \in Muxes : stage'[o] # "gone" => stage[o] # "gone"
      /\ \A o \in Muxes : stage'[o] = "register" <=> stage[o] = "register"
  BY Zenon DEF ConeTyped, Entry, OneCone, Place, Sock
<1>4. running' \subseteq running
  OBVIOUS
<1>5. ConePlaces'
  BY <1>1, <1>3, Zenon DEF Uncontested, ConePlaces
<1>6. ReadersHaveCones'
  <2>. SUFFICES ASSUME NEW t \in running'
                PROVE  \E n \in Muxes : /\ t = Task(n) /\ Open(n) /\ cone[n].started
                                        /\ stage'[n] \notin {"detach", "close"}
    BY <1>1, Zenon DEF ReadersHaveCones
  <2>1. PICK n \in Muxes : /\ t = Task(n) /\ Open(n) /\ cone[n].started
                           /\ stage[n] \notin {"detach", "close"}
    BY <1>4, Zenon DEF Uncontested, ReadersHaveCones
  <2>2. n = m => to \notin {"detach", "close"}
    BY <2>1, Zenon
  <2>. QED BY <1>3, <2>1, <2>2, Zenon
<1>7. AllOld'
  BY <1>1, <1>2, Zenon DEF Uncontested, AllOld
<1>8. OneUser' /\ UserHasEntry'
  BY <1>1, <1>3, Zenon DEF Uncontested, OneUser, UserHasEntry
<1>9. SocketHasId' /\ OwnSocket' /\ ReaderHasId'
  BY <1>1, <1>2, Zenon DEF Uncontested, SocketHasId, OwnSocket, ReaderHasId
<1>10. Registered'
  BY <1>1, <1>2, <1>3, <1>4, Zenon DEF Uncontested, Registered
<1>11. Served'
  <2>. SUFFICES ASSUME NEW n \in Muxes, Live(n)', cone[n].started
                PROVE  Task(n) \in running' \cup broken
    BY <1>1, Zenon DEF Served
  <2>1. Open(n) /\ stage'[n] \notin {"detach", "close", "gone"}
    BY <1>1, Zenon DEF Live
  <2>2. stage[n] \notin {"detach", "close", "gone"}
    BY <1>3, <2>1, Zenon
  <2>3. Task(n) \in running \cup broken
    BY <2>1, <2>2, Zenon DEF Uncontested, Served, Live
  <2>4. Task(n) = Task(m) => n = m
    BY Zenon DEF Task
  <2>. QED BY <1>3, <2>1, <2>3, <2>4, Zenon
<1>12. OwnReader'
  BY <1>1, <1>3, <1>4, Zenon DEF Uncontested, OwnReader
<1>. QED BY <1>5, <1>6, <1>7, <1>8, <1>9, <1>10, <1>11, <1>12, Zenon DEF Uncontested

(* A reader fails.                                                          *)
LEMMA ReaderBreaksStep ==
  ASSUME Uncontested, NEW t, ReaderBreaks(t)
  PROVE  Uncontested'
<1>1. /\ running' = running \ {t} /\ broken' = broken \cup {t}
      /\ UNCHANGED <<entries, cone, cones, stage>>
  BY Zenon DEF ReaderBreaks
<1>2. /\ \A n : Open(n)' = Open(n) /\ Task(n)' = Task(n)
      /\ \A n, g : Uses(n, g)' = Uses(n, g)
      /\ \A s : Old(s)' = Old(s)
  BY <1>1, SameNames, Zenon
<1>3. /\ \A g : InRegistry(g)' = InRegistry(g)
      /\ \A n : Live(n)' = Live(n)
  BY <1>1, <1>2, Zenon DEF InRegistry, Live
<1>4. ConePlaces' /\ ReadersHaveCones' /\ AllOld'
  BY <1>1, <1>2, <1>3, Zenon DEF Uncontested, ConePlaces, ReadersHaveCones, AllOld
<1>5. OneUser' /\ UserHasEntry' /\ SocketHasId'
  BY <1>1, <1>2, <1>3, Zenon DEF Uncontested, OneUser, UserHasEntry, SocketHasId
<1>6. OwnSocket' /\ ReaderHasId' /\ Registered'
  BY <1>1, <1>2, <1>3, Zenon DEF Uncontested, OwnSocket, ReaderHasId, Registered
<1>7. Served' /\ OwnReader'
  BY <1>1, <1>2, <1>3, Zenon DEF Uncontested, Served, OwnReader
<1>. QED BY <1>4, <1>5, <1>6, <1>7, Zenon DEF Uncontested

(* Entries that expire are swept away with the readers they know of.        *)
LEMMA RegistryAges ==
  ASSUME Uncontested, NEW X \in SUBSET Ids,
         \A g \in X : /\ entries[g].status = "expiring"
                      /\ entries'[g].status = "absent" /\ entries'[g].reader = {},
         \A g \in Ids \ X : /\ entries'[g].status = entries[g].status
                            /\ entries'[g].socket = entries[g].socket
                            /\ entries'[g].reader = entries[g].reader,
         running' = running \ UNION {entries[g].reader : g \in X},
         UNCHANGED <<cone, cones, stage, broken>>
  PROVE  Uncontested'
<1>2. /\ \A n : Open(n)' = Open(n) /\ Task(n)' = Task(n)
      /\ \A n, g : Uses(n, g)' = Uses(n, g)
      /\ \A s : Old(s)' = Old(s)
  BY SameNames, Zenon
<1>3. /\ \A g \in Ids : InRegistry(g)' => g \notin X /\ InRegistry(g)
      /\ \A n : Live(n)' = Live(n)
  BY <1>2, Zenon DEF InRegistry, Live
<1>4. ConePlaces' /\ ReadersHaveCones' /\ AllOld'
  BY <1>2, <1>3, Zenon DEF Uncontested, ConePlaces, ReadersHaveCones, AllOld
<1>5. OneUser' /\ UserHasEntry' /\ SocketHasId'
  BY <1>2, <1>3 DEF Uncontested, OneUser, UserHasEntry, SocketHasId
<1>6. OwnSocket' /\ ReaderHasId' /\ Registered'
  BY <1>2, <1>3 DEF Uncontested, OwnSocket, ReaderHasId, Registered
<1>7. Served'
  <2>. SUFFICES ASSUME NEW n \in Muxes, Live(n), cone[n].started
                PROVE  Task(n) \in running' \cup broken
    BY <1>2, <1>3, Zenon DEF Served
  <2>1. Task(n) \in running \cup broken
    BY Zenon DEF Uncontested, Served
  <2>2. ASSUME NEW g \in X, Task(n) \in entries[g].reader PROVE FALSE
    <3>1. Uses(n, g)
      BY <2>2, Zenon DEF Uncontested, ReaderHasId, Live
    <3>2. entries[g].status = "active"
      BY <3>1, Zenon DEF Uncontested, UserHasEntry, Live
    <3>. QED BY <3>2, Zenon
  <2>. QED BY <2>1, <2>2
<1>8. OwnReader'
  BY <1>2, Zenon DEF Uncontested, OwnReader
<1>. QED BY <1>4, <1>5, <1>6, <1>7, <1>8, Zenon DEF Uncontested

(* An entry reaches its time.                                               *)
LEMMA BecomeDueStep ==
  ASSUME ConeTyped, Uncontested, NEW d \in Ids, BecomeDue(d)
  PROVE  Uncontested'
<1>1. /\ entries' = [entries EXCEPT ![d].due = TRUE]
      /\ UNCHANGED <<cone, cones, stage, running, broken>>
  BY Zenon DEF BecomeDue
<1>2. \A g \in Ids : /\ entries'[g].status = entries[g].status
                     /\ entries'[g].socket = entries[g].socket
                     /\ entries'[g].reader = entries[g].reader
  BY <1>1 DEF ConeTyped, Entry, OneCone, Place, Sock
<1>. DEFINE X == {}
<1>3. X \in SUBSET Ids /\ running' = running \ UNION {entries[g].reader : g \in X}
  BY <1>1, Zenon
<1>. QED BY <1>1, <1>2, <1>3, RegistryAges, Zenon

(* The clean-up.                                                            *)
LEMMA CleanupStep ==
  ASSUME Uncontested, Cleanup
  PROVE  Uncontested'
<1>1. /\ running' = running \ UNION {entries[g].reader : g \in Expired}
      /\ entries' = [g \in Ids |-> IF g \in Expired THEN NoEntry ELSE entries[g]]
      /\ UNCHANGED <<cone, cones, stage, broken>>
  BY Zenon DEF Cleanup
<1>2. /\ Expired \in SUBSET Ids
      /\ \A g \in Expired : entries[g].status = "expiring"
  BY Zenon DEF Expired
<1>3. NoEntry.status = "absent" /\ NoEntry.reader = {}
  BY Zenon DEF NoEntry
<1>. QED BY <1>1, <1>2, <1>3, RegistryAges, Zenon

(* A mux starts the reader of its cone: no mux that still uses its own cone *)
(* has the same socket.                                                     *)
LEMMA CurrentSockets ==
  ASSUME Uncontested, NEW m \in Muxes, NEW o \in Muxes, ConeTyped,
         Open(m), Open(o), stage[m] # "gone", stage[o] # "gone",
         cone[m].socket = cone[o].socket
  PROVE  m = o
<1>1. \A n \in Muxes : cone[n].id \in Ids \cup {NoId}
  BY Zenon DEF ConeTyped, Entry, OneCone, Place, Sock
<1>2. ASSUME NEW n \in Muxes, NEW p \in Muxes, Open(p), stage[n] # "gone",
             stage[p] # "gone", cone[n].socket = cone[p].socket, cone[n].id # NoId
      PROVE  n = p
  <2>. DEFINE g == cone[n].id
  <2>1. g \in Ids /\ Uses(n, g)
    BY <1>1, <1>2, Zenon DEF Uses
  <2>2. entries[g].status = "active" /\ entries[g].socket = cone[n].socket
    BY <1>2, <2>1, Zenon DEF Uncontested, UserHasEntry
  <2>3. InRegistry(g)
    BY <2>2, Zenon DEF InRegistry
  <2>4. Uses(p, g)
    BY <1>2, <2>1, <2>2, <2>3, Zenon DEF Uncontested, SocketHasId
  <2>. QED BY <1>2, <2>1, <2>4, Zenon DEF Uncontested, OneUser
<1>3. CASE cone[m].id = NoId /\ cone[o].id = NoId
  BY <1>3 DEF Uncontested, OwnSocket, Task
<1>. QED BY <1>2, <1>3, Zenon

LEMMA StartReaderStep ==
  ASSUME ConeTyped, Uncontested, NEW m \in Muxes, StartReader(m)
  PROVE  Uncontested'
<1>1. CASE cone[m].started
  <2>1. Moves(m, "frame")
    BY <1>1, Zenon DEF StartReader, Go, Moves
  <2>. QED BY <2>1, MuxMoves, Zenon
<1>2. CASE ~cone[m].started
  <2>. DEFINE to == IF cone[m].id = NoId THEN "frame" ELSE "register"
  <2>1. /\ stage[m] = "start" /\ stage' = [stage EXCEPT ![m] = to]
        /\ cone' = [cone EXCEPT ![m].started = TRUE]
        /\ running' = running \cup {Task(m)}
        /\ UNCHANGED <<entries, cones, broken>>
    BY <1>2, Zenon DEF StartReader, Go, Task
  <2>2. /\ \A n \in Muxes : cone'[n].socket = cone[n].socket /\ cone'[n].id = cone[n].id
        /\ \A n \in Muxes : n # m => cone'[n] = cone[n]
        /\ cone'[m].started
    BY <2>1 DEF ConeTyped, Entry, OneCone, Place, Sock
  <2>3. Open(m)
    BY <2>1, Zenon DEF Uncontested, ConePlaces
  <2>4. /\ stage'[m] = to /\ stage'[m] # "gone"
        /\ \A n \in Muxes : n # m => stage'[n] = stage[n]
        /\ \A n \in Muxes : stage'[n] # "gone" <=> stage[n] # "gone"
        /\ \A n \in Muxes : stage[n] # "register" \/ n # m
    BY <2>1, Zenon DEF ConeTyped, Entry, OneCone, Place, Sock
  <2>5. /\ \A n \in Muxes : Open(n)' = Open(n)
        /\ \A n \in Muxes : Task(n)' = Task(n)
        /\ \A n \in Muxes : \A g : Uses(n, g)' = Uses(n, g)
        /\ \A s : Old(s)' = Old(s)
        /\ \A g : InRegistry(g)' = InRegistry(g)
    <3>1. Open(m)'
      BY <2>2 DEF Open, NoCone
    <3>2. \A n \in Muxes : Open(n)' = Open(n)
      BY <2>2, <2>3, <3>1, Zenon DEF Open
    <3>. QED BY <2>1, <2>2, <3>2, Zenon DEF Task, Uses, Old, InRegistry
  <2>. HIDE DEF to
  <2>. USE <2>1, <2>2, <2>4, <2>5
  <2>6. ConePlaces'
    BY <2>3 DEF Uncontested, ConePlaces, to
  <2>7. ReadersHaveCones'
    <3>1. ASSUME NEW t \in running
          PROVE  \E n \in Muxes : /\ t = Task(n) /\ Open(n) /\ cone'[n].started
                                  /\ stage'[n] \notin {"detach", "close"}
      <4>1. PICK n \in Muxes : /\ t = Task(n) /\ Open(n) /\ cone[n].started
                               /\ stage[n] \notin {"detach", "close"}
        BY Zenon DEF Uncontested, ReadersHaveCones
      <4>2. n # m
        BY <1>2, <4>1, Zenon
      <4>. QED BY <4>1, <4>2, Zenon
    <3>2. stage'[m] \notin {"detach", "close"}
      BY DEF to
    <3>. QED BY <2>3, <3>1, <3>2 DEF ReadersHaveCones
  <2>8. AllOld'
    BY Zenon DEF Uncontested, AllOld
  <2>9. OneUser' /\ UserHasEntry'
    BY DEF Uncontested, OneUser, UserHasEntry
  <2>10. SocketHasId' /\ OwnSocket' /\ ReaderHasId'
    BY DEF Uncontested, SocketHasId, OwnSocket, ReaderHasId
  <2>11. \A n \in Muxes : Task(n) = Task(m) => n = m
    BY Zenon DEF Task
  <2>12. Registered'
    <3>. SUFFICES ASSUME NEW n \in Muxes, NEW g \in Ids, Task(n) \in running',
                         InRegistry(g), entries[g].socket = cone[n].socket
                  PROVE  stage'[n] = "register" \/ Task(n) \in entries[g].reader
      BY DEF Registered
    <3>1. CASE n = m
      <4>1. Uses(m, g)
        BY <2>3, <3>1, Zenon DEF Uncontested, SocketHasId
      <4>. QED BY <3>1, <4>1, Zenon DEF Uses, to
    <3>2. CASE n # m
      BY <2>11, <3>2, Zenon DEF Uncontested, Registered
    <3>. QED BY <3>1, <3>2, Zenon
  <2>13. Served'
    <3>. SUFFICES ASSUME NEW n \in Muxes, Live(n)', cone'[n].started
                  PROVE  Task(n) \in running' \cup broken
      BY Zenon DEF Served
    <3>1. CASE n = m
      BY <3>1, Zenon
    <3>2. CASE n # m
      BY <3>2, Zenon DEF Uncontested, Served, Live
    <3>. QED BY <3>1, <3>2, Zenon
  <2>14. OwnReader'
    <3>. SUFFICES ASSUME NEW n \in Muxes, NEW o \in Muxes, Task(n) \in running',
                         Open(o), cone[n].socket = cone[o].socket,
                         stage[o] # "gone" \/ Task(o) \in running'
                  PROVE  n = o
      BY DEF OwnReader
    <3>1. CASE n # m
      <4>1. Task(n) \in running
        BY <2>11, <3>1, Zenon
      <4>2. stage[o] # "gone" \/ Task(o) \in running
        BY <2>11, Zenon
      <4>. QED BY <4>1, <4>2, Zenon DEF Uncontested, OwnReader
    <3>2. CASE n = m /\ o # m
      <4>1. CASE Task(o) \in running
        BY <2>3, <3>2, <4>1, Zenon DEF Uncontested, OwnReader
      <4>2. CASE Task(o) \notin running
        <5>1. stage[o] # "gone"
          BY <2>11, <3>2, <4>2, Zenon
        <5>. QED BY <2>3, <3>2, <5>1, CurrentSockets, Zenon
      <4>. QED BY <4>1, <4>2, Zenon
    <3>. QED BY <3>1, <3>2, Zenon
  <2>. QED BY <2>6, <2>7, <2>8, <2>9, <2>10, <2>12, <2>13, <2>14, Zenon DEF Uncontested
<1>. QED BY <1>1, <1>2, Zenon

(* The registry learns of the reader; the one it knew of before cannot be   *)
(* reading this socket.                                                     *)
LEMMA RegisterReaderStep ==
  ASSUME ConeTyped, Uncontested, NEW m \in Muxes, RegisterReader(m)
  PROVE  Uncontested'
<1>. DEFINE u == cone[m].id
<1>1. stage[m] = "register" /\ stage' = [stage EXCEPT ![m] = "frame"]
      /\ UNCHANGED <<cone, cones, running, broken>>
  BY Zenon DEF RegisterReader, Go
<1>2. Open(m) /\ u \in Ids /\ Uses(m, u)
  BY <1>1, Zenon DEF Uncontested, ConePlaces, ConeTyped, Entry, OneCone, Place, Sock, Uses
<1>3. entries[u].status = "active" /\ entries[u].socket = cone[m].socket
  BY <1>1, <1>2, Zenon DEF Uncontested, UserHasEntry
<1>4. entries' = [entries EXCEPT ![u].reader = {Task(m)}]
  BY <1>3, Zenon DEF RegisterReader, InRegistry, Task
<1>5. /\ \A g \in Ids : /\ entries'[g].status = entries[g].status
                        /\ entries'[g].socket = entries[g].socket
      /\ \A g \in Ids : g # u => entries'[g].reader = entries[g].reader
      /\ entries'[u].reader = {Task(m)}
  BY <1>2, <1>4 DEF ConeTyped, Entry, OneCone, Place, Sock
<1>6. /\ stage'[m] = "frame"
      /\ \A n \in Muxes : n # m => stage'[n] = stage[n]
      /\ \A n \in Muxes : stage'[n] # "gone" <=> stage[n] # "gone"
  BY <1>1, Zenon DEF ConeTyped, Entry, OneCone, Place, Sock
<1>7. /\ \A n : Open(n)' = Open(n) /\ Task(n)' = Task(n)
      /\ \A n, g : Uses(n, g)' = Uses(n, g)
      /\ \A s : Old(s)' = Old(s)
  BY <1>1, SameNames, Zenon
<1>8. \A g \in Ids : InRegistry(g)' = InRegistry(g)
  BY <1>5, Zenon DEF InRegistry
<1>. HIDE DEF u
<1>9. \A n \in Muxes : Task(n) = Task(m) => n = m
  BY Zenon DEF Task
<1>. USE <1>1, <1>5, <1>6, <1>7
<1>10. ConePlaces' /\ ReadersHaveCones'
  BY <1>2, Zenon DEF Uncontested, ConePlaces, ReadersHaveCones
<1>11. AllOld'
  <2>1. Old(Task(m))
    BY DEF Old, Task, ConeTyped, Entry, OneCone, Place, Sock
  <2>. QED BY <1>8, <2>1, Zenon DEF Uncontested, AllOld
<1>12. OneUser' /\ UserHasEntry'
  BY DEF Uncontested, OneUser, UserHasEntry
<1>13. SocketHasId' /\ OwnSocket'
  BY <1>8 DEF Uncontested, SocketHasId, OwnSocket
<1>14. ReaderHasId'
  BY <1>2, <1>9, Zenon DEF Uncontested, ReaderHasId
<1>15. Registered'
  <2>. SUFFICES ASSUME NEW n \in Muxes, NEW g \in Ids, Task(n) \in running,
                       InRegistry(g), entries[g].socket = cone[n].socket
                PROVE  stage'[n] = "register" \/ Task(n) \in entries'[g].reader
    BY <1>8, Zenon DEF Registered
  <2>1. CASE g = u
    <3>1. cone[n].socket = cone[m].socket /\ stage[m] # "gone"
      BY <1>3, <2>1, Zenon DEF u
    <3>2. n = m
      BY <1>2, <3>1, Zenon DEF Uncontested, OwnReader
    <3>. QED BY <2>1, <3>2, Zenon
  <2>2. CASE g # u
    <3>1. stage[n] = "register" \/ Task(n) \in entries[g].reader
      BY Zenon DEF Uncontested, Registered
    <3>2. n # m \/ Task(n) \in entries[g].reader
      <4>1. n = m => g = u
        BY <1>2 DEF Uncontested, SocketHasId, Uses
      <4>. QED BY <2>2, <4>1, Zenon
    <3>. QED BY <2>2, <3>1, <3>2, Zenon
  <2>. QED BY <2>1, <2>2, Zenon
<1>16. Served' /\ OwnReader'
  BY Zenon DEF Uncontested, Served, OwnReader, Live
<1>. QED BY <1>10, <1>11, <1>12, <1>13, <1>14, <1>15, <1>16, Zenon DEF Uncontested

(* A mux gives up its cone: the entry it used has no other user, so that no *)
(* other mux loses its reader.                                              *)
LEMMA DetachStep ==
  ASSUME ConeTyped, Uncontested, NEW m \in Muxes, Detach(m)
  PROVE  Uncontested'
<1>. DEFINE u == cone[m].id
<1>1. /\ stage[m] \in {"detach", "close"}
      /\ \E to \in {"frame", "gone"} : stage' = [stage EXCEPT ![m] = to]
      /\ cone' = [cone EXCEPT ![m] = NoCone]
      /\ UNCHANGED <<cones, broken>>
  BY Zenon DEF Detach, Go
<1>2. PICK to \in {"frame", "gone"} : stage' = [stage EXCEPT ![m] = to]
  BY <1>1, Zenon
<1>3. /\ stage'[m] = to /\ stage'[m] \notin {"send", "start", "register", "detach", "close"}
      /\ \A n \in Muxes : n # m => stage'[n] = stage[n]
  BY <1>2, Zenon DEF ConeTyped, Entry, OneCone, Place, Sock
<1>4. /\ \A n \in Muxes : n # m => cone'[n] = cone[n]
      /\ ~Open(m)' /\ \A g : ~Uses(m, g)'
      /\ cone'[m].id = NoId
  BY <1>1, Zenon DEF ConeTyped, Entry, OneCone, Place, Sock, Open, NoCone, Uses
<1>5. /\ \A n \in Muxes : n # m => Open(n)' = Open(n)
      /\ \A n \in Muxes : n # m => \A g : Uses(n, g)' = Uses(n, g)
      /\ \A n : Task(n)' = Task(n)
      /\ \A s : Old(s)' = Old(s)
  BY <1>1, <1>4, Zenon DEF Open, Uses, Task, Old
<1>6. Task(m) \notin running
  <2>1. \A n \in Muxes : Task(n) = Task(m) => n = m
    BY Zenon DEF Task
  <2>. QED BY <1>1, <2>1, Zenon DEF Uncontested, ReadersHaveCones
<1>7. Open(m) /\ stage[m] # "gone"
  BY <1>1, Zenon DEF Uncontested, ConePlaces
<1>8. /\ \A g \in Ids : /\ entries'[g].socket = entries[g].socket
                        /\ entries'[g].reader \subseteq entries[g].reader
                        /\ InRegistry(g)' = InRegistry(g)
      /\ \A g \in Ids : ~Uses(m, g) => entries'[g] = entries[g]
      /\ running' \subseteq running
      /\ \A t \in running : t \in running' \/ \E g \in Ids : Uses(m, g) /\ t \in entries[g].reader
  <2>1. CASE u = NoId
    BY <2>1, Zenon DEF Detach, InRegistry
  <2>2. CASE u # NoId
    <3>1. u \in Ids /\ Uses(m, u)
      BY <2>2, Zenon DEF ConeTyped, Entry, OneCone, Place, Sock, Uses
    <3>2. entries[u].status = "active"
      BY <1>7, <3>1, Zenon DEF Uncontested, UserHasEntry
    <3>3. /\ entries' = [entries EXCEPT ![u] =
                           [entries[u] EXCEPT !.status = "expiring", !.reader = {}]]
          /\ running' = running \ (entries[u].reader \ entries'[u].reader)
      BY <2>2, <3>2, Zenon DEF Detach, Detached
    <3>4. /\ entries'[u].socket = entries[u].socket /\ entries'[u].status = "expiring"
          /\ entries'[u].reader = {}
          /\ \A g \in Ids : g # u => entries'[g] = entries[g]
      BY <3>1, <3>3 DEF ConeTyped, Entry, OneCone, Place, Sock
    <3>5. \A g \in Ids : InRegistry(g)' = InRegistry(g)
      BY <3>2, <3>4, Zenon DEF InRegistry
    <3>. QED BY <3>1, <3>3, <3>4, <3>5, Zenon DEF Uses
  <2>. QED BY <2>1, <2>2, Zenon
<1>9. ASSUME NEW n \in Muxes, NEW g \in Ids, Uses(m, g), Uses(n, g), stage[n] # "gone"
      PROVE  n = m
  BY <1>7, <1>9, Zenon DEF Uncontested, OneUser
<1>. HIDE DEF u
<1>. USE <1>3, <1>4, <1>5, <1>8
<1>10. ConePlaces'
  BY Zenon DEF Uncontested, ConePlaces
<1>11. ReadersHaveCones'
  <2>. SUFFICES ASSUME NEW t \in running'
                PROVE  \E n \in Muxes : /\ t = Task(n) /\ Open(n)' /\ cone'[n].started
                                        /\ stage'[n] \notin {"detach", "close"}
    BY Zenon DEF ReadersHaveCones
  <2>1. PICK n \in Muxes : /\ t = Task(n) /\ Open(n) /\ cone[n].started
                           /\ stage[n] \notin {"detach", "close"}
    BY Zenon DEF Uncontested, ReadersHaveCones
  <2>2. n # m
    BY <1>1, <2>1, Zenon
  <2>. QED BY <2>1, <2>2, Zenon
<1>12. AllOld'
  BY Zenon DEF Uncontested, AllOld
<1>13. OneUser'
  BY DEF Uncontested, OneUser
<1>14. UserHasEntry'
  <2>. SUFFICES ASSUME NEW n \in Muxes, NEW g \in Ids, Uses(n, g)', stage'[n] # "gone"
                PROVE  entries'[g].status = "active" /\ entries'[g].socket = cone'[n].socket
    BY Zenon DEF UserHasEntry
  <2>1. n # m /\ Uses(n, g) /\ stage[n] # "gone" /\ cone'[n] = cone[n]
    OBVIOUS
  <2>2. ~Uses(m, g)
    BY <1>9, <2>1, Zenon
  <2>3. entries'[g] = entries[g]
    BY <2>2, Zenon
  <2>. QED BY <2>1, <2>3 DEF Uncontested, UserHasEntry
<1>15. SocketHasId' /\ OwnSocket'
  BY DEF Uncontested, SocketHasId, OwnSocket
<1>16. ReaderHasId'
  BY SMTT(30) DEF Uncontested, ReaderHasId
<1>17. Registered'
  <2>. SUFFICES ASSUME NEW n \in Muxes, NEW g \in Ids, Task(n) \in running',
                       InRegistry(g), entries[g].socket = cone'[n].socket
                PROVE  stage'[n] = "register" \/ Task(n) \in entries'[g].reader
    BY Zenon DEF Registered
  <2>1. n # m /\ Task(n) \in running /\ cone'[n] = cone[n] /\ stage'[n] = stage[n]
    BY <1>6, Zenon
  <2>2. stage[n] = "register" \/ Task(n) \in entries[g].reader
    BY <2>1, Zenon DEF Uncontested, Registered
  <2>3. ~Uses(m, g)
    <3>1. Uses(m, g) => entries[g].socket = cone[m].socket
      BY <1>7, Zenon DEF Uncontested, UserHasEntry
    <3>2. cone[n].socket # cone[m].socket
      BY <1>7, <2>1, Zenon DEF Uncontested, OwnReader
    <3>. QED BY <2>1, <3>1, <3>2, Zenon
  <2>. QED BY <2>1, <2>2, <2>3, Zenon
<1>18. Served'
  <2>. SUFFICES ASSUME NEW n \in Muxes, Live(n)', cone'[n].started
                PROVE  Task(n) \in running' \cup broken
    BY <1>1, Zenon DEF Served
  <2>1. n # m /\ Live(n) /\ cone[n].started /\ stage[n] # "gone" /\ Open(n)
    BY Zenon DEF Live
  <2>2. Task(n) \in running \cup broken
    BY <2>1, Zenon DEF Uncontested, Served
  <2>3. ASSUME NEW g \in Ids, Uses(m, g), Task(n) \in entries[g].reader PROVE FALSE
    <3>1. Uses(n, g)
      BY <2>1, <2>3, Zenon DEF Uncontested, ReaderHasId
    <3>. QED BY <1>9, <2>1, <2>3, <3>1, Zenon
  <2>. QED BY <2>2, <2>3, Zenon
<1>19. OwnReader'
  <2>. SUFFICES ASSUME NEW n \in Muxes, NEW o \in Muxes, Task(n) \in running',
                       Open(o)', cone'[n].socket = cone'[o].socket,
                       stage'[o] # "gone" \/ Task(o) \in running'
                PROVE  n = o
    BY Zenon DEF OwnReader
  <2>1. n # m /\ o # m /\ Task(n) \in running
    BY <1>6, Zenon
  <2>. QED BY <2>1, Zenon DEF Uncontested, OwnReader
<1>. QED BY <1>10, <1>11, <1>12, <1>13, <1>14, <1>15, <1>16, <1>17, <1>18, <1>19,
           Zenon DEF Uncontested

(* A mux opens a cone under GlobalID u or under none, with a socket of its  *)
(* own or, on a hit, with the one of the registry.                          *)
Opens(m, u, s) ==
  /\ ~Open(m) /\ stage[m] = "frame" /\ stage' = [stage EXCEPT ![m] = "send"]
  /\ cones' = [cones EXCEPT ![m] = @ + 1] /\ broken' = broken
  /\ cone' = [cone EXCEPT ![m] = [socket |-> s, id |-> u, started |-> FALSE]]
  /\ u = NoId => s = Task(m)' /\ UNCHANGED <<entries, running>>
  /\ u # NoId =>
       /\ u \in Ids
       /\ s = IF InRegistry(u) THEN entries[u].socket ELSE Task(m)'
       /\ entries'[u].status = "active" /\ entries'[u].socket = s
       /\ entries'[u].reader = {}
       /\ \A g \in Ids : g # u => entries'[g] = entries[g]
       /\ running' = running \ entries[u].reader
       /\ \A o \in Muxes \ {m} : Uses(o, u) => stage[o] = "gone"

(* What such a step leaves: the names of cones and users,                   *)
OpenNames(m, u, s) ==
  /\ ~Open(m) /\ stage[m] = "frame" /\ Open(m)' /\ stage'[m] = "send"
  /\ cone'[m].socket = s /\ cone'[m].id = u /\ ~cone'[m].started
  /\ \A g : Uses(m, g)' <=> g = u /\ u # NoId
  /\ \A n \in Muxes : n # m => /\ Task(n)' = Task(n) /\ Task(n) # Task(m)'
                               /\ cone'[n] = cone[n] /\ stage'[n] = stage[n]
                               /\ Open(n)' = Open(n) /\ \A g : Uses(n, g)' = Uses(n, g)

(* how old the sockets are,                                                 *)
Aged(x) == \A n \in Muxes, k \in Nat : k > cones'[n] => x # <<n, k>>

OpenAges(m, s) ==
  /\ \A x : Old(x) => Aged(x) /\ x # Task(m)'
  /\ Aged(s)

(* the entries,                                                             *)
OpenEntries(m, u, s) ==
  /\ s = Task(m)' \/ (u \in Ids /\ u # NoId /\ InRegistry(u) /\ s = entries[u].socket)
  /\ u # NoId => u \in Ids /\ entries'[u].status = "active" /\ entries'[u].socket = s
  /\ \A n \in Muxes, g \in Ids : (n # m /\ Uses(m, g)' /\ Uses(n, g)) => stage[n] = "gone"
  /\ \A g \in Ids : entries'[g].reader \subseteq entries[g].reader
  /\ \A g \in Ids : g # u => entries'[g] = entries[g]
  /\ \A g \in Ids : InRegistry(g)' => \/ entries'[g] = entries[g] /\ InRegistry(g)
                                      \/ Uses(m, g)' /\ g = u /\ entries'[g].socket = s

(* and the readers.                                                         *)
OpenReaders(m, u, s) ==
  /\ running' \subseteq running /\ broken' = broken
  /\ \A t \in running : t \in running' \/ (u \in Ids /\ u # NoId /\ t \in entries[u].reader)
  /\ \A n \in Muxes : Task(n)' \in running' =>
       n # m /\ Open(n) /\ Task(n) \in running /\ cone[n].socket # s

LEMMA OpensNames ==
  ASSUME ConeTyped, NEW m \in Muxes, NEW u, NEW s, Opens(m, u, s)
  PROVE  OpenNames(m, u, s)
<1>1. Task(m)' = <<m, cones[m] + 1>> /\ \A n \in Muxes : n # m => Task(n)' = Task(n)
  BY Zenon DEF Opens, ConeTyped, Entry, OneCone, Place, Sock, Task
<1>2. /\ \A n \in Muxes : n # m => cone'[n] = cone[n] /\ stage'[n] = stage[n]
      /\ cone'[m] = [socket |-> s, id |-> u, started |-> FALSE] /\ stage'[m] = "send"
      /\ ~Open(m) /\ stage[m] = "frame"
  BY Zenon DEF Opens, ConeTyped, Entry, OneCone, Place, Sock
<1>3. cone'[m].socket = s /\ cone'[m].id = u /\ ~cone'[m].started
  BY <1>2
<1>4. /\ \A n \in Muxes : n # m => Open(n)' = Open(n) /\ \A g : Uses(n, g)' = Uses(n, g)
      /\ \A g : Uses(m, g)' <=> g = u /\ u # NoId
  BY <1>2, <1>3, Zenon DEF Open, Uses
<1>5. Open(m)'
  <2>1. u = NoId => s = Task(m)'
    BY Zenon DEF Opens
  <2>2. u = NoId => s # <<>>
    BY <1>1, <2>1
  <2>3. NoCone.socket = <<>> /\ NoCone.id = NoId
    BY Zenon DEF NoCone
  <2>. QED BY <1>3, <2>2, <2>3, Zenon DEF Open
<1>6. \A n \in Muxes : n # m => Task(n) # Task(m)'
  BY <1>1, Zenon DEF Task
<1>. QED BY <1>1, <1>2, <1>3, <1>4, <1>5, <1>6, Zenon DEF OpenNames

LEMMA OpensAges ==
  ASSUME ConeTyped, Uncontested, NEW m \in Muxes, NEW u, NEW s, Opens(m, u, s)
  PROVE  OpenAges(m, s)
<1>1. /\ Task(m)' = <<m, cones[m] + 1>> /\ cones[m] \in Nat /\ cones'[m] = cones[m] + 1
      /\ \A n \in Muxes : n # m => cones'[n] = cones[n]
      /\ cones \in [Muxes -> Nat]
  BY Zenon DEF Opens, ConeTyped, Entry, OneCone, Place, Sock, Task
<1>2. ASSUME NEW x, Old(x) PROVE Aged(x) /\ x # Task(m)'
  BY <1>1, <1>2 DEF Old, Aged
<1>3. Aged(Task(m)')
  BY <1>1 DEF Aged
<1>4. s = Task(m)' \/ (u \in Ids /\ InRegistry(u) /\ s = entries[u].socket)
  BY Zenon DEF Opens
<1>5. Aged(s)
  BY <1>2, <1>3, <1>4, Zenon DEF Uncontested, AllOld
<1>. QED BY <1>2, <1>5, Zenon DEF OpenAges

LEMMA OpensEntries ==
  ASSUME NEW m \in Muxes, NEW u, NEW s, Opens(m, u, s), OpenNames(m, u, s)
  PROVE  OpenEntries(m, u, s)
<1>1. s = Task(m)' \/ (u \in Ids /\ u # NoId /\ InRegistry(u) /\ s = entries[u].socket)
  BY Zenon DEF Opens
<1>2. u # NoId => u \in Ids /\ entries'[u].status = "active" /\ entries'[u].socket = s
  BY Zenon DEF Opens
<1>3. \A n \in Muxes, g \in Ids : (n # m /\ Uses(m, g)' /\ Uses(n, g)) => stage[n] = "gone"
  BY DEF Opens, OpenNames
<1>4. \A g \in Ids : g # u => entries'[g] = entries[g]
  BY Zenon DEF Opens
<1>5. u = NoId \/ entries'[u].reader = {}
  BY Zenon DEF Opens
<1>6. u = NoId => entries' = entries
  BY Zenon DEF Opens
<1>7. \A g \in Ids : entries'[g].reader \subseteq entries[g].reader
  BY <1>4, <1>5, <1>6, Zenon
<1>8. ASSUME NEW g \in Ids, InRegistry(g)'
      PROVE  \/ entries'[g] = entries[g] /\ InRegistry(g)
             \/ Uses(m, g)' /\ g = u /\ entries'[g].socket = s
  <2>1. CASE g = u /\ u # NoId
    BY <1>2, <2>1, Zenon DEF OpenNames
  <2>2. CASE ~(g = u /\ u # NoId)
    <3>1. entries'[g] = entries[g]
      BY <1>4, <1>6, <2>2, Zenon
    <3>. QED BY <1>8, <3>1, Zenon DEF InRegistry
  <2>. QED BY <2>1, <2>2, Zenon
<1>. QED BY <1>1, <1>2, <1>3, <1>4, <1>7, <1>8, Zenon DEF OpenEntries

LEMMA OpensReaders ==
  ASSUME Uncontested, NEW m \in Muxes, NEW u, NEW s, Opens(m, u, s),
         OpenNames(m, u, s), OpenAges(m, s), OpenEntries(m, u, s)
  PROVE  OpenReaders(m, u, s)
<1>1. /\ running' \subseteq running /\ broken' = broken
      /\ \A t \in running : t \in running' \/ (u \in Ids /\ u # NoId /\ t \in entries[u].reader)
      /\ u # NoId => running' = running \ entries[u].reader
  BY Zenon DEF Opens
<1>2. Task(m)' \notin running
  BY Zenon DEF Uncontested, ReadersHaveCones, OpenNames
<1>3. ASSUME NEW n \in Muxes, Task(n)' \in running'
      PROVE  n # m /\ Open(n) /\ Task(n) \in running /\ cone[n].socket # s
  <2>1. n # m /\ Task(n) \in running' /\ Task(n) \in running
    BY <1>1, <1>2, <1>3, Zenon DEF OpenNames
  <2>2. PICK k \in Muxes : Task(n) = Task(k) /\ Open(k)
    BY <2>1, Zenon DEF Uncontested, ReadersHaveCones
  <2>3. Open(n)
    BY <2>2, Zenon DEF Task
  <2>4. Old(cone[n].socket)
    BY <2>3, Zenon DEF Uncontested, AllOld
  <2>5. CASE s = Task(m)'
    BY <2>1, <2>3, <2>4, <2>5, Zenon DEF OpenAges
  <2>6. CASE u \in Ids /\ u # NoId /\ InRegistry(u) /\ s = entries[u].socket
    <3>. SUFFICES ASSUME cone[n].socket = s PROVE FALSE
      BY <2>1, <2>3, Zenon
    <3>1. Uses(n, u)
      BY <2>3, <2>6, Zenon DEF Uncontested, SocketHasId
    <3>2. Uses(m, u)'
      BY <2>6, Zenon DEF OpenNames
    <3>3. stage[n] = "gone"
      BY <2>1, <2>6, <3>1, <3>2, Zenon DEF OpenEntries
    <3>4. Task(n) \in entries[u].reader
      BY <2>1, <2>6, <3>3, Zenon DEF Uncontested, Registered
    <3>. QED BY <1>1, <2>1, <2>6, <3>4, Zenon
  <2>. QED BY <2>5, <2>6, Zenon DEF OpenEntries
<1>. QED BY <1>1, <1>3, Zenon DEF OpenReaders

LEMMA OpensKeepsNames ==
  ASSUME Uncontested, NEW m \in Muxes, NEW u, NEW s, Opens(m, u, s),
         OpenNames(m, u, s), OpenAges(m, s), OpenEntries(m, u, s)
  PROVE  ConePlaces' /\ AllOld' /\ OneUser' /\ UserHasEntry' /\ OwnSocket' /\ ReaderHasId'
<1>1. ConePlaces'
  BY Zenon DEF Uncontested, ConePlaces, OpenNames
<1>2. AllOld'
  <2>1. \A n \in Muxes : Open(n)' => Aged(cone'[n].socket)
    BY Zenon DEF Uncontested, AllOld, OpenNames, OpenAges
  <2>2. \A g \in Ids : InRegistry(g)' => Aged(entries'[g].socket)
    BY Zenon DEF Uncontested, AllOld, OpenAges, OpenEntries
  <2>3. \A g \in Ids : \A t \in entries'[g].reader : Aged(t)
    BY Zenon DEF Uncontested, AllOld, OpenAges, OpenEntries
  <2>. QED BY <2>1, <2>2, <2>3, Zenon DEF AllOld, Old, Aged
<1>3. OneUser'
  <2>1. ASSUME NEW n \in Muxes, NEW o \in Muxes, NEW g \in Ids, Uses(n, g)', Uses(o, g)',
               stage'[n] # "gone", stage'[o] # "gone", n # m, o # m
        PROVE  n = o
    BY <2>1, Zenon DEF Uncontested, OneUser, OpenNames
  <2>2. ASSUME NEW n \in Muxes, NEW g \in Ids, Uses(m, g)', Uses(n, g)', stage'[n] # "gone"
        PROVE  n = m
    BY <2>2, Zenon DEF OpenNames, OpenEntries
  <2>. QED BY <2>1, <2>2, Zenon DEF OneUser
<1>4. UserHasEntry'
  <2>. SUFFICES ASSUME NEW n \in Muxes, NEW g \in Ids, Uses(n, g)', stage'[n] # "gone"
                PROVE  entries'[g].status = "active" /\ entries'[g].socket = cone'[n].socket
    BY Zenon DEF UserHasEntry
  <2>1. CASE n = m
    BY <2>1, Zenon DEF OpenNames, OpenEntries
  <2>2. CASE n # m
    <3>1. Uses(n, g) /\ stage[n] # "gone" /\ cone'[n] = cone[n]
      BY <2>2, Zenon DEF OpenNames
    <3>2. entries'[g] = entries[g]
      BY <2>2, <3>1, Zenon DEF OpenNames, OpenEntries, Uses
    <3>. QED BY <3>1, <3>2, Zenon DEF Uncontested, UserHasEntry
  <2>. QED BY <2>1, <2>2, Zenon
<1>5. OwnSocket'
  <2>1. u = NoId => s = Task(m)'
    BY Zenon DEF Opens
  <2>. QED BY <2>1, Zenon DEF Uncontested, OwnSocket, OpenNames
<1>6. ReaderHasId'
  <2>. SUFFICES ASSUME NEW n \in Muxes, NEW g \in Ids, Open(n)',
                       Task(n)' \in entries'[g].reader
                PROVE  Uses(n, g)'
    BY Zenon DEF ReaderHasId
  <2>1. Task(n)' \in entries[g].reader
    BY Zenon DEF OpenEntries
  <2>2. Old(Task(n)')
    BY <2>1, Zenon DEF Uncontested, AllOld
  <2>3. n # m
    BY <2>2, Zenon DEF OpenAges
  <2>. QED BY <2>1, <2>3, Zenon DEF Uncontested, ReaderHasId, OpenNames
<1>. QED BY <1>1, <1>2, <1>3, <1>4, <1>5, <1>6, Zenon

LEMMA OpensKeepsSockets ==
  ASSUME Uncontested, NEW m \in Muxes, NEW u, NEW s,
         OpenNames(m, u, s), OpenAges(m, s), OpenEntries(m, u, s)
  PROVE  SocketHasId'
<1>. SUFFICES ASSUME NEW g \in Ids, InRegistry(g)'
              PROVE  /\ \A h \in Ids : InRegistry(h)' /\ entries'[h].socket = entries'[g].socket
                                       => g = h
                     /\ \A n \in Muxes : Open(n)' /\ cone'[n].socket = entries'[g].socket
                                         => Uses(n, g)'
  BY Zenon DEF SocketHasId
<1>1. ASSUME NEW h \in Ids, entries[h].socket = s, InRegistry(h) PROVE h = u
  <2>1. Old(s)
    BY <1>1, Zenon DEF Uncontested, AllOld
  <2>2. u \in Ids /\ InRegistry(u) /\ s = entries[u].socket
    BY <2>1, Zenon DEF OpenAges, OpenEntries
  <2>. QED BY <1>1, <2>2, Zenon DEF Uncontested, SocketHasId
<1>2. ASSUME NEW h \in Ids, InRegistry(h)'
      PROVE  \/ entries'[h] = entries[h] /\ InRegistry(h)
             \/ Uses(m, h)' /\ h = u /\ entries'[h].socket = s
  BY <1>2, Zenon DEF OpenEntries
<1>3. ASSUME NEW h \in Ids, InRegistry(h)', entries'[h].socket = entries'[g].socket
      PROVE  g = h
  BY <1>1, <1>2, <1>3, Zenon DEF Uncontested, SocketHasId
<1>4. ASSUME NEW n \in Muxes, Open(n)', cone'[n].socket = entries'[g].socket
      PROVE  Uses(n, g)'
  <2>1. CASE n = m
    <3>1. entries'[g].socket = s
      BY <1>4, <2>1, Zenon DEF OpenNames
    <3>2. g = u
      BY <1>1, <1>2, <3>1, Zenon
    <3>3. CASE Uses(m, g)'
      BY <2>1, <3>3, Zenon
    <3>4. CASE entries'[g] = entries[g] /\ InRegistry(g)
      <4>1. Old(s)
        BY <3>1, <3>4, Zenon DEF Uncontested, AllOld
      <4>2. u # NoId
        BY <4>1, Zenon DEF OpenAges, OpenEntries
      <4>. QED BY <2>1, <3>2, <4>2, Zenon DEF OpenNames
    <3>. QED BY <1>2, <3>3, <3>4, Zenon
  <2>2. CASE n # m
    <3>1. Open(n) /\ cone[n].socket = entries'[g].socket
      BY <1>4, <2>2, Zenon DEF OpenNames
    <3>2. CASE entries'[g] = entries[g] /\ InRegistry(g)
      BY <2>2, <3>1, <3>2, SMTT(30) DEF Uncontested, SocketHasId, OpenNames
    <3>3. CASE g = u /\ entries'[g].socket = s
      <4>1. Old(s)
        BY <3>1, <3>3, Zenon DEF Uncontested, AllOld
      <4>2. u \in Ids /\ InRegistry(u) /\ s = entries[u].socket
        BY <4>1, Zenon DEF OpenAges, OpenEntries
      <4>. QED BY <2>2, <3>1, <3>3, <4>2 DEF Uncontested, SocketHasId, OpenNames
    <3>. QED BY <1>2, <3>2, <3>3, Zenon
  <2>. QED BY <2>1, <2>2, Zenon
<1>. QED BY <1>3, <1>4, Zenon

LEMMA OpensKeepsReaders ==
  ASSUME Uncontested, NEW m \in Muxes, NEW u, NEW s,
         OpenNames(m, u, s), OpenEntries(m, u, s), OpenReaders(m, u, s)
  PROVE  ReadersHaveCones' /\ Registered' /\ Served' /\ OwnReader'
<1>1. ReadersHaveCones'
  <2>. SUFFICES ASSUME NEW t \in running'
                PROVE  \E n \in Muxes : /\ t = Task(n)' /\ Open(n)' /\ cone'[n].started
                                        /\ stage'[n] \notin {"detach", "close"}
    BY Zenon DEF ReadersHaveCones
  <2>1. PICK n \in Muxes : /\ t = Task(n) /\ Open(n) /\ cone[n].started
                           /\ stage[n] \notin {"detach", "close"}
    BY Zenon DEF Uncontested, ReadersHaveCones, OpenReaders
  <2>. QED BY <2>1, Zenon DEF OpenNames
<1>2. ASSUME NEW n \in Muxes, Task(n)' \in running'
      PROVE  /\ n # m /\ Open(n) /\ Task(n) \in running /\ Task(n)' = Task(n)
             /\ cone[n].socket # s /\ cone'[n] = cone[n] /\ stage'[n] = stage[n]
  <2>1. n # m /\ Open(n) /\ Task(n) \in running /\ cone[n].socket # s
    BY <1>2, Zenon DEF OpenReaders
  <2>. QED BY <2>1, Zenon DEF OpenNames
<1>3. Registered'
  <2>. SUFFICES ASSUME NEW n \in Muxes, NEW g \in Ids, Task(n)' \in running',
                       InRegistry(g)', entries'[g].socket = cone'[n].socket
                PROVE  stage'[n] = "register" \/ Task(n)' \in entries'[g].reader
    BY Zenon DEF Registered
  <2>1. entries'[g] = entries[g] /\ InRegistry(g)
    BY <1>2, Zenon DEF OpenEntries
  <2>. QED BY <1>2, <2>1, Zenon DEF Uncontested, Registered
<1>4. Served'
  <2>. SUFFICES ASSUME NEW n \in Muxes, Live(n)', cone'[n].started
                PROVE  Task(n)' \in running' \cup broken'
    BY Zenon DEF Served
  <2>1. n # m
    BY Zenon DEF OpenNames
  <2>2. /\ Live(n) /\ cone[n].started /\ stage[n] # "gone" /\ Open(n) /\ Task(n)' = Task(n)
    BY <2>1, Zenon DEF Live, OpenNames
  <2>3. Task(n) \in running \cup broken
    BY <2>2, Zenon DEF Uncontested, Served
  <2>4. (u \in Ids /\ u # NoId) => Task(n) \notin entries[u].reader
    <3>. SUFFICES ASSUME u \in Ids, u # NoId, Task(n) \in entries[u].reader PROVE FALSE
      BY Zenon
    <3>1. Uses(n, u)
      BY <2>2, Zenon DEF Uncontested, ReaderHasId
    <3>2. Uses(m, u)'
      BY Zenon DEF OpenNames
    <3>. QED BY <2>1, <2>2, <3>1, <3>2, Zenon DEF OpenEntries
  <2>. QED BY <2>2, <2>3, <2>4, Zenon DEF OpenReaders
<1>5. OwnReader'
  <2>. SUFFICES ASSUME NEW n \in Muxes, NEW o \in Muxes, Task(n)' \in running',
                       Open(o)', cone'[n].socket = cone'[o].socket,
                       stage'[o] # "gone" \/ Task(o)' \in running'
                PROVE  n = o
    BY Zenon DEF OwnReader
  <2>1. o # m
    BY <1>2, Zenon DEF OpenNames
  <2>2. Open(o) /\ cone'[o] = cone[o] /\ stage'[o] = stage[o]
    BY <2>1, Zenon DEF OpenNames
  <2>. QED BY <1>2, <2>2, Zenon DEF Uncontested, OwnReader
<1>. QED BY <1>1, <1>3, <1>4, <1>5, Zenon

LEMMA ConeOpens ==
  ASSUME ConeTyped, Uncontested, NEW m \in Muxes, NEW u, NEW s, Opens(m, u, s)
  PROVE  Uncontested'
<1>1. OpenNames(m, u, s) /\ OpenAges(m, s)
  BY OpensNames, OpensAges, Zenon
<1>2. OpenEntries(m, u, s)
  BY <1>1, OpensEntries, Zenon
<1>3. OpenReaders(m, u, s)
  BY <1>1, <1>2, OpensReaders, Zenon
<1>4. ConePlaces' /\ AllOld' /\ OneUser' /\ UserHasEntry' /\ OwnSocket' /\ ReaderHasId'
  BY <1>1, <1>2, OpensKeepsNames, Zenon
<1>5. SocketHasId'
  BY <1>1, <1>2, OpensKeepsSockets, Zenon
<1>6. ReadersHaveCones' /\ Registered' /\ Served' /\ OwnReader'
  BY <1>1, <1>2, <1>3, OpensKeepsReaders, Zenon
<1>. QED BY <1>4, <1>5, <1>6, Zenon DEF Uncontested

(* A frame for XUDP opens a cone or uses the one there is.                  *)
LEMMA FrameStep ==
  ASSUME ConeTyped, Uncontested, ~contested', NEW m \in Muxes, NEW g \in Ids \cup {NoId},
         Go(m, "frame", "send"), OpenCone(m, g) \/ RenameCone(m, g),
         broken' = broken
  PROVE  Uncontested'
<1>1. stage[m] = "frame" /\ stage' = [stage EXCEPT ![m] = "send"]
  BY Zenon DEF Go
<1>2. CASE RenameCone(m, g)
  <2>1. /\ Open(m) /\ UNCHANGED <<entries, cones, running>>
        /\ cone' = [cone EXCEPT ![m].id = IF g = NoId THEN cone[m].id ELSE g]
        /\ cone'[m].id = cone[m].id
    BY <1>2, Zenon DEF RenameCone
  <2>2. cone' = cone
    BY <2>1 DEF ConeTyped, Entry, OneCone, Place, Sock
  <2>3. Moves(m, "send")
    BY <1>1, <2>1, <2>2, Zenon DEF Moves
  <2>. QED BY <2>3, MuxMoves, Zenon
<1>3. CASE OpenCone(m, g)
  <2>1. ~Open(m) /\ cones' = [cones EXCEPT ![m] = @ + 1]
    BY <1>3, Zenon DEF OpenCone
  <2>2. Task(m)' = Task(m)'
    BY Zenon DEF Task
  <2>3. CASE g = NoId
    <3>1. /\ cone' = [cone EXCEPT ![m] = [NoCone EXCEPT !.socket = Task(m)']]
          /\ UNCHANGED <<entries, running>>
      BY <1>3, <2>2, <2>3, Zenon DEF OpenCone
    <3>. DEFINE s == <<m, cones[m] + 1>>
    <3>2. s = Task(m)'
      BY <2>1, Zenon DEF Task, ConeTyped, Entry, OneCone, Place, Sock
    <3>. HIDE DEF s
    <3>3. [NoCone EXCEPT !.socket = s] = [socket |-> s, id |-> g, started |-> FALSE]
      <4>1. \A a, b, c : [[socket |-> a, id |-> b, started |-> c] EXCEPT !.socket = s]
                          = [socket |-> s, id |-> b, started |-> c]
        OBVIOUS
      <4>. QED BY <2>3, <4>1, Zenon DEF NoCone
    <3>4. Opens(m, g, s)
      BY <1>1, <2>1, <2>3, <3>1, <3>2, <3>3, Zenon DEF Opens
    <3>. QED BY <3>4, ConeOpens, Zenon
  <2>4. CASE g # NoId
    <3>1. /\ entries' = [entries EXCEPT ![g] = Acquired(g, Task(m)')]
          /\ running' = running \ entries[g].reader
          /\ cone' = [cone EXCEPT ![m] =
                        [socket |-> entries'[g].socket, id |-> g, started |-> FALSE]]
          /\ ~ \E o \in Muxes \ {m} : cone[o].id = g /\ stage[o] # "gone"
      BY <1>3, <2>2, <2>4, Zenon DEF OpenCone
    <3>2. g \in Ids
      BY <2>4, Zenon
    <3>. DEFINE e == Acquired(g, Task(m)')
    <3>3. /\ e.status = "active" /\ e.reader = {}
          /\ e.socket = IF InRegistry(g) THEN entries[g].socket ELSE Task(m)'
      <4>1. CASE InRegistry(g)
        BY <3>2, <4>1 DEF Acquired, ConeTyped, Entry, OneCone, Place, Sock
      <4>2. CASE ~InRegistry(g)
        BY <4>2, Zenon DEF Acquired, NoEntry
      <4>. QED BY <4>1, <4>2, Zenon
    <3>. HIDE DEF e
    <3>4. entries'[g] = e /\ \A h \in Ids : h # g => entries'[h] = entries[h]
      BY <3>1, <3>2, Zenon DEF ConeTyped, Entry, OneCone, Place, Sock, e
    <3>5. \A o \in Muxes \ {m} : Uses(o, g) => stage[o] = "gone"
      BY <3>1, Zenon DEF Uses
    <3>6. Opens(m, g, e.socket)
      BY <1>1, <2>1, <2>4, <3>1, <3>2, <3>3, <3>4, <3>5, Zenon DEF Opens
    <3>. QED BY <3>6, ConeOpens, Zenon
  <2>. QED BY <2>3, <2>4, Zenon
<1>. QED BY <1>2, <1>3, Zenon

(* Every step of a mux.                                                     *)
LEMMA MuxTaskStep ==
  ASSUME ConeTyped, Uncontested, ~contested', NEW m \in Muxes, MuxTask(m)
  PROVE  Uncontested'
<1>1. ASSUME NEW g \in Ids \cup {NoId}, NewXudp(m, g) PROVE Uncontested'
  BY <1>1, FrameStep, Zenon DEF NewXudp
<1>2. CASE KeepXudp(m)
  BY <1>2, FrameStep, Zenon DEF KeepXudp
<1>3. CASE Send(m)
  <2>1. Moves(m, "start")
    BY <1>3, Zenon DEF Send, Go, Moves, Uncontested, ConePlaces
  <2>. QED BY <2>1, MuxMoves, Zenon
<1>4. ASSUME NEW to \in {"detach", "close"}, CloseCone(m, to) PROVE Uncontested'
  <2>1. Moves(m, to)
    BY <1>4, Zenon DEF CloseCone, Go, Task, Moves
  <2>. QED BY <2>1, MuxMoves, Zenon
<1>5. ASSUME \/ Abandon(m)
             \/ /\ Go(m, "frame", "gone")
                /\ UNCHANGED <<entries, cone, cones, running, broken>>
      PROVE  Uncontested'
  <2>1. Moves(m, "gone")
    BY <1>5, Zenon DEF Abandon, Go, Moves
  <2>. QED BY <2>1, MuxMoves, Zenon
<1>6. CASE EndXudp(m) \/ ClientLeaves(m)
  BY <1>4, <1>5, <1>6, Zenon DEF EndXudp, ClientLeaves
<1>. QED BY <1>1, <1>2, <1>3, <1>5, <1>6, StartReaderStep, RegisterReaderStep,
           DetachStep, Zenon
         DEF MuxTask

(* Once contested, always contested.                                        *)
LEMMA ContestedStays ==
  ASSUME [ConeNext]_coneVars, ConeTyped
  PROVE  contested' \in BOOLEAN /\ (contested => contested')
<1>. USE DEF ConeTyped, Entry, OneCone, Place, Sock
<1>1. ASSUME NEW m \in Muxes, NEW g, OpenCone(m, g) \/ RenameCone(m, g)
      PROVE  contested' \in BOOLEAN /\ (contested => contested')
  <2>1. \/ contested' = contested
        \/ contested' = (contested \/ \E o \in Muxes \ {m} : cone[o].id = g /\ stage[o] # "gone")
        \/ contested' = (contested \/ cone'[m].id # cone[m].id)
    BY <1>1, Zenon DEF OpenCone, RenameCone
  <2>. QED BY <2>1, Zenon
<1>2. ASSUME NEW m \in Muxes, MuxTask(m)
      PROVE  contested' \in BOOLEAN /\ (contested => contested')
  <2>1. CASE \E g \in Ids \cup {NoId} : NewXudp(m, g)
    BY <1>1, <2>1, Zenon DEF NewXudp
  <2>2. CASE KeepXudp(m)
    BY <1>1, <2>2, Zenon DEF KeepXudp
  <2>3. CASE \/ Send(m) \/ StartReader(m) \/ RegisterReader(m)
             \/ EndXudp(m) \/ ClientLeaves(m) \/ Detach(m) \/ Abandon(m)
    BY <2>3, Zenon DEF Send, StartReader, RegisterReader, EndXudp,
                ClientLeaves, CloseCone, Detach, Abandon
  <2>. QED BY <1>2, <2>1, <2>2, <2>3, Zenon DEF MuxTask
<1>3. CASE \/ \E t \in Tasks : ReaderBreaks(t)
           \/ \E g \in Ids : BecomeDue(g)
           \/ Cleanup \/ UNCHANGED coneVars
  BY <1>3, Zenon DEF ReaderBreaks, BecomeDue, Cleanup, coneVars
<1>. QED BY <1>2, <1>3, Zenon DEF ConeNext

(* The types of registry and cones.                                         *)
LEMMA EntryUpdates ==
  ASSUME NEW e \in Entry
  PROVE  /\ e.socket \in Sock /\ NoEntry \in Entry
         /\ \A s \in Sock : [NoEntry EXCEPT !.socket = s, !.status = "active"] \in Entry
         /\ [e EXCEPT !.status = "active", !.due = FALSE, !.reader = {}] \in Entry
         /\ \A t \in Muxes \X Nat : [e EXCEPT !.reader = {t}] \in Entry
         /\ [e EXCEPT !.status = "expiring", !.reader = {}] \in Entry
         /\ [e EXCEPT !.due = TRUE] \in Entry
<1>1. ASSUME NEW S, NEW B, NEW R, NEW T, NEW d \in [socket : S, due : B, reader : R, status : T],
             NEW r \in R, NEW b \in B, NEW t \in T, NEW s \in S
      PROVE  /\ [d EXCEPT !.due = b] \in [socket : S, due : B, reader : R, status : T]
             /\ [d EXCEPT !.reader = r] \in [socket : S, due : B, reader : R, status : T]
             /\ [d EXCEPT !.status = t, !.reader = r] \in [socket : S, due : B, reader : R, status : T]
             /\ [d EXCEPT !.status = t, !.due = b, !.reader = r]
                  \in [socket : S, due : B, reader : R, status : T]
             /\ [d EXCEPT !.socket = s, !.status = t] \in [socket : S, due : B, reader : R, status : T]
  BY Zenon
<1>2. /\ \A t \in Muxes \X Nat : {t} \in SUBSET (Muxes \X Nat)
      /\ {} \in SUBSET (Muxes \X Nat) /\ TRUE \in BOOLEAN /\ FALSE \in BOOLEAN
      /\ "active" \in {"absent", "active", "expiring"} /\ "expiring" \in {"absent", "active", "expiring"}
  BY Zenon
<1>3. e.socket \in Sock /\ NoEntry \in Entry
  BY Zenon DEF Entry, NoEntry, Sock
<1>. QED BY <1>1, <1>2, <1>3, Zenon DEF Entry

LEMMA ConeUpdates ==
  ASSUME NEW c \in OneCone
  PROVE  /\ NoCone \in OneCone /\ c.id \in Ids \cup {NoId}
         /\ \A g \in Ids \cup {NoId} : [c EXCEPT !.id = g] \in OneCone
         /\ [c EXCEPT !.started = TRUE] \in OneCone
         /\ \A s \in Sock : [NoCone EXCEPT !.socket = s] \in OneCone
         /\ \A s \in Sock, g \in Ids : [socket |-> s, id |-> g, started |-> FALSE] \in OneCone
BY Zenon DEF OneCone, NoCone, Sock

LEMMA EntriesAreUpdated ==
  ASSUME ConeTyped, NEW m \in Muxes, NEW g \in Ids
  PROVE  /\ \A s \in Sock : Acquired(g, s) \in Entry
         /\ Detached(g) \in Entry
         /\ [entries[g] EXCEPT !.reader = {Task(m)}] \in Entry
<1>1. entries[g] \in Entry
  BY Zenon DEF ConeTyped
<1>2. Task(m) \in Muxes \X Nat
  BY Zenon DEF ConeTyped, Task
<1>3. ASSUME NEW s \in Sock PROVE Acquired(g, s) \in Entry
  <2>1. [entries[g] EXCEPT !.status = "active", !.due = FALSE, !.reader = {}] \in Entry
    BY <1>1, EntryUpdates, Zenon
  <2>2. [NoEntry EXCEPT !.socket = s, !.status = "active"] \in Entry
    BY <1>1, EntryUpdates, Zenon
  <2>. QED BY <2>1, <2>2, Zenon DEF Acquired
<1>4. Detached(g) \in Entry
  BY <1>1, EntryUpdates, Zenon DEF Detached
<1>. QED BY <1>1, <1>2, <1>3, <1>4, EntryUpdates, Zenon

LEMMA ConeTypedOpens ==
  ASSUME ConeTyped, NEW m \in Muxes, NEW g \in Ids \cup {NoId}, OpenCone(m, g)
  PROVE  entries' \in [Ids -> Entry] /\ cone' \in [Muxes -> OneCone] /\ cones' \in [Muxes -> Nat]
<1>. USE DEF ConeTyped
<1>1. cones' = [cones EXCEPT ![m] = @ + 1] /\ cones' \in [Muxes -> Nat]
  BY DEF OpenCone
<1>2. PICK t \in Sock : t = Task(m)'
  BY <1>1, Zenon DEF Task, Sock
<1>3. cone[m] \in OneCone
  OBVIOUS
<1>4. CASE g = NoId
  <2>1. entries' = entries /\ cone' = [cone EXCEPT ![m] = [NoCone EXCEPT !.socket = t]]
    BY <1>2, <1>4, Zenon DEF OpenCone
  <2>. QED BY <1>1, <1>3, <2>1, ConeUpdates, Zenon
<1>5. CASE g # NoId
  <2>1. /\ g \in Ids /\ entries' = [entries EXCEPT ![g] = Acquired(g, t)]
        /\ cone' = [cone EXCEPT ![m] =
                      [socket |-> entries'[g].socket, id |-> g, started |-> FALSE]]
    BY <1>2, <1>5, Zenon DEF OpenCone
  <2>2. entries' \in [Ids -> Entry] /\ entries'[g] \in Entry
    BY <2>1, EntriesAreUpdated, Zenon
  <2>3. entries'[g].socket \in Sock
    BY <2>2, EntryUpdates, Zenon
  <2>4. cone' \in [Muxes -> OneCone]
    BY <1>3, <2>1, <2>3, ConeUpdates, Zenon
  <2>. QED BY <1>1, <2>2, <2>4, Zenon
<1>. QED BY <1>4, <1>5, Zenon

LEMMA ConeTypedMux ==
  ASSUME ConeTyped, NEW m \in Muxes, MuxTask(m)
  PROVE  /\ entries' \in [Ids -> Entry] /\ cone' \in [Muxes -> OneCone]
         /\ cones' \in [Muxes -> Nat]
<1>. USE DEF ConeTyped
<1>1. cone[m] \in OneCone
  OBVIOUS
<1>2. ASSUME NEW g \in Ids \cup {NoId}, RenameCone(m, g)
      PROVE  /\ entries' \in [Ids -> Entry] /\ cone' \in [Muxes -> OneCone]
             /\ cones' \in [Muxes -> Nat]
  <2>1. /\ cone' = [cone EXCEPT ![m] = [cone[m] EXCEPT !.id = IF g = NoId THEN cone[m].id ELSE g]]
        /\ UNCHANGED <<entries, cones>>
    BY <1>2, Zenon DEF RenameCone
  <2>. QED BY <1>1, <2>1, ConeUpdates, Zenon
<1>3. CASE (\E g \in Ids \cup {NoId} : NewXudp(m, g)) \/ KeepXudp(m)
  <2>1. PICK g \in Ids \cup {NoId} : OpenCone(m, g) \/ RenameCone(m, g)
    BY <1>3, Zenon DEF NewXudp, KeepXudp
  <2>. QED BY <1>2, <2>1, ConeTypedOpens, Zenon
<1>4. CASE Send(m) \/ EndXudp(m) \/ ClientLeaves(m) \/ Abandon(m)
  BY <1>4, Zenon DEF Send, EndXudp, ClientLeaves, Abandon, CloseCone
<1>5. CASE StartReader(m)
  <2>1. cone' = cone \/ cone' = [cone EXCEPT ![m] = [cone[m] EXCEPT !.started = TRUE]]
    BY <1>5, Zenon DEF StartReader
  <2>2. cone' \in [Muxes -> OneCone]
    BY <1>1, <2>1, ConeUpdates, Zenon
  <2>. QED BY <1>5, <2>2, Zenon DEF StartReader
<1>6. CASE RegisterReader(m)
  <2>. DEFINE g == cone[m].id
  <2>1. /\ entries' = entries \/ entries' = [entries EXCEPT ![g] = [entries[g] EXCEPT !.reader = {Task(m)}]]
        /\ UNCHANGED <<cone, cones>>
    BY <1>6, Zenon DEF RegisterReader
  <2>. HIDE DEF g
  <2>2. g \in Ids => [entries[g] EXCEPT !.reader = {Task(m)}] \in Entry
    BY EntriesAreUpdated, Zenon
  <2>. QED BY <2>1, <2>2, Zenon
<1>7. CASE Detach(m)
  <2>. DEFINE g == cone[m].id
  <2>1. /\ entries' = entries \/ entries' = [entries EXCEPT ![g] = Detached(g)]
        /\ cone' = [cone EXCEPT ![m] = NoCone] /\ cones' = cones
    BY <1>7, Zenon DEF Detach
  <2>. HIDE DEF g
  <2>2. g \in Ids => Detached(g) \in Entry
    BY EntriesAreUpdated, Zenon
  <2>3. entries' \in [Ids -> Entry]
    BY <2>1, <2>2, Zenon
  <2>. QED BY <1>1, <2>1, <2>3, ConeUpdates, Zenon
<1>. QED BY <1>3, <1>4, <1>5, <1>6, <1>7, Zenon DEF MuxTask

LEMMA ConeTypedStays ==
  ASSUME ConeTyped, [ConeNext]_coneVars
  PROVE  ConeTyped'
<1>1. contested' \in BOOLEAN
  BY ContestedStays, Zenon
<1>2. ASSUME NEW m \in Muxes, MuxTask(m) PROVE stage' \in [Muxes -> Place]
  <2>1. \E f, to \in Place : Go(m, f, to)
    BY <1>2, Zenon DEF MuxTask, NewXudp, KeepXudp, Send, StartReader, RegisterReader,
      EndXudp,
       ClientLeaves, CloseCone, Detach, Abandon, Place
  <2>. QED BY <2>1, Zenon DEF ConeTyped, Go
<1>3. ASSUME NEW m \in Muxes, MuxTask(m) PROVE ConeTyped'
  BY <1>1, <1>2, <1>3, ConeTypedMux, Zenon DEF ConeTyped
<1>4. ASSUME NEW g \in Ids, BecomeDue(g) PROVE entries' \in [Ids -> Entry]
  <2>1. entries' = [entries EXCEPT ![g] = [entries[g] EXCEPT !.due = TRUE]]
    BY <1>4, Zenon DEF BecomeDue
  <2>2. [entries[g] EXCEPT !.due = TRUE] \in Entry
    BY EntryUpdates, Zenon DEF ConeTyped
  <2>. QED BY <2>1, <2>2, Zenon DEF ConeTyped
<1>5. CASE Cleanup
  <2>1. entries' \in [Ids -> Entry]
    <3>1. NoEntry \in Entry
      BY Zenon DEF NoEntry, Entry, Sock
    <3>. QED BY <1>5, <3>1, Zenon DEF Cleanup, ConeTyped
  <2>. QED BY <1>1, <1>5, <2>1, Zenon DEF Cleanup, ConeTyped
<1>6. CASE \E g \in Ids : BecomeDue(g)
  BY <1>1, <1>4, <1>6, Zenon DEF BecomeDue, ConeTyped
<1>7. CASE (\E t \in Tasks : ReaderBreaks(t)) \/ UNCHANGED coneVars
  BY <1>1, <1>7, Zenon DEF ReaderBreaks, coneVars, ConeTyped
<1>. QED BY <1>3, <1>5, <1>6, <1>7, Zenon DEF ConeNext

(* A step that leaves the cones alone.                                      *)
LEMMA Stutters ==
  ASSUME Uncontested, UNCHANGED coneVars
  PROVE  Uncontested'
<1>1. UNCHANGED <<entries, cone, cones, stage, running, broken>>
  BY Zenon DEF coneVars
<1>2. ConePlaces' /\ ReadersHaveCones' /\ AllOld' /\ OneUser'
  BY <1>1 DEF Uncontested, ConePlaces, ReadersHaveCones, AllOld, OneUser,
     Open, InRegistry, Uses, Task, Old
<1>3. UserHasEntry' /\ SocketHasId'
  BY <1>1, SMTT(30) DEF Uncontested, UserHasEntry, SocketHasId, Open, InRegistry, Uses,
    Task
<1>4. OwnSocket' /\ ReaderHasId'
  BY <1>1, Zenon DEF Uncontested, OwnSocket, ReaderHasId, Open, InRegistry, Uses, Task
<1>5. Registered'
  BY <1>1, Zenon DEF Uncontested, Registered, InRegistry, Task
<1>6. Served'
  BY <1>1, Zenon DEF Uncontested, Served, Live, Open, Task
<1>7. OwnReader'
  BY <1>1, Zenon DEF Uncontested, OwnReader, Open, Task
<1>. QED BY <1>2, <1>3, <1>4, <1>5, <1>6, <1>7, Zenon DEF Uncontested

(* The invariant of the cones.                                              *)
LEMMA ConeInductive ==
  /\ ConeInit => ConeInv
  /\ ConeInv /\ [ConeNext]_coneVars => ConeInv'
<1>1. ASSUME ConeInit PROVE ConeInv
  <2>1. ConeTyped
    BY <1>1, Zenon DEF ConeInit, ConeTyped, Entry, OneCone, Place, Sock, NoEntry, NoCone
  <2>2. /\ \A m \in Muxes : cone[m] = NoCone /\ stage[m] = "frame"
        /\ \A g \in Ids : entries[g] = NoEntry
        /\ running = {}
    BY <1>1, Zenon DEF ConeInit
  <2>3. /\ \A m \in Muxes : ~Open(m) /\ \A g : ~Uses(m, g)
        /\ \A g \in Ids : ~InRegistry(g) /\ entries[g].reader = {}
    <3>1. NoCone.id = NoId
      BY Zenon DEF NoCone
    <3>2. NoEntry.status = "absent" /\ NoEntry.reader = {}
      BY Zenon DEF NoEntry
    <3>. QED BY <2>2, <3>1, <3>2, Zenon DEF Open, Uses, InRegistry
  <2>4. Uncontested
    BY <2>2, <2>3, Zenon DEF Uncontested, ConePlaces, ReadersHaveCones, AllOld, OneUser,
       UserHasEntry, SocketHasId, OwnSocket, ReaderHasId, Registered, Served, OwnReader,
       Live
  <2>. QED BY <2>1, <2>4, Zenon DEF ConeInv
<1>2. ASSUME ConeInv, [ConeNext]_coneVars PROVE ConeInv'
  <2>1. ConeTyped /\ ConeTyped'
    BY <1>2, ConeTypedStays, Zenon DEF ConeInv
  <2>2. ASSUME ~contested' PROVE Uncontested'
    <3>1. Uncontested
      BY <1>2, <2>1, <2>2, ContestedStays, Zenon DEF ConeInv
    <3>2. CASE UNCHANGED coneVars
      BY <3>1, <3>2, Stutters, Zenon
    <3>. QED BY <1>2, <2>1, <2>2, <3>1, <3>2, MuxTaskStep, ReaderBreaksStep,
               BecomeDueStep,
                CleanupStep, Zenon DEF ConeNext
  <2>. QED BY <2>1, <2>2, Zenon DEF ConeInv
<1>. QED BY <1>1, <1>2, Zenon

-----------------------------------------------------------------------------
(* SoleUserIsServed of the registry (xudp.rs) and the muxes that use it: a  *)
(* mux that shares its GlobalID with no other keeps its socket, and its     *)
(* reader runs, however those before it have ended.                         *)
LEMMA InvServes == ConeInv => SoleUserIsServed
<1>. SUFFICES ASSUME ConeTyped, Uncontested, NEW m \in Muxes, Live(m)
              PROVE  /\ cone[m].id # NoId => /\ entries[cone[m].id].socket = cone[m].socket
                                             /\ entries[cone[m].id].status = "active"
                     /\ cone[m].started => Task(m) \in running \cup broken
  BY Zenon DEF ConeInv, SoleUserIsServed
<1>1. cone[m].id \in Ids \cup {NoId} /\ stage[m] # "gone"
  BY Zenon DEF ConeTyped, Entry, OneCone, Place, Sock, Live
<1>2. cone[m].id # NoId => Uses(m, cone[m].id)
  BY Zenon DEF Uses
<1>. QED BY <1>1, <1>2, Zenon DEF Uncontested, UserHasEntry, Served

(* SoleReader: a hit stops the reader it finds before another one starts on *)
(* the same socket, so no two share one.                                    *)
LEMMA InvSeparates == ConeInv => SoleReader
<1>. SUFFICES ASSUME Uncontested, NEW s \in running, NEW t \in running,
                     SocketOf(s) = SocketOf(t)
              PROVE  s = t
  BY Zenon DEF ConeInv, SoleReader
<1>1. PICK m \in Muxes : s = Task(m) /\ Open(m)
  BY Zenon DEF Uncontested, ReadersHaveCones
<1>2. PICK o \in Muxes : t = Task(o) /\ Open(o)
  BY Zenon DEF Uncontested, ReadersHaveCones
<1>3. cone[m].socket = cone[o].socket
  BY <1>1, <1>2, Zenon DEF SocketOf, Task
<1>. QED BY <1>1, <1>2, <1>3, Zenon DEF Uncontested, OwnReader

-----------------------------------------------------------------------------
(* The sessions (mux.rs): readers and the ids they have.                    *)
Numbered ==
  /\ sid \in [Readers -> Sids \cup {0}]
  /\ \A k \in Readers : k > opened => at[k] = "done"
  /\ \A k \in 1 .. opened : sid[k] \in Sids
  /\ pc = "connect" => opened < MaxTasks
  /\ pc = "insert" => opened \in Readers /\ sid[opened] = cur
  /\ reused \in BOOLEAN

OneReader ==
  ~reused => \A j, k \in Readers :
    (at[j] # "done" /\ at[k] # "done" /\ sid[j] = sid[k]) => j = k

FreeToOpen ==
  ~reused =>
    /\ pc \in {"answer", "connect"} => ~StillRead(cur)
    /\ pc = "insert" => \A k \in Readers : (at[k] # "done" /\ sid[k] = cur) => k = opened

InTable ==
  (~reused /\ pc \notin Over) =>
    \A k \in Readers : at[k] # "done" =>
      \/ sessions[sid[k]] = k
      \/ pc = "insert" /\ k = opened

MuxInv ==
  /\ TypeOK /\ Numbered /\ OneReader /\ FreeToOpen /\ InTable
  /\ NoDataAfterEnd /\ CloseStopsReaders

-----------------------------------------------------------------------------
USE MuxAssumption

(* The invariant holds at the start.                                        *)
LEMMA MuxInitially == Init => MuxInv
<1>. SUFFICES ASSUME Init PROVE MuxInv
  OBVIOUS
<1>1. TypeOK
  <2>1. sessions \in [Sids -> 0 .. opened]
    BY DEF Init
  <2>. QED BY <2>1 DEF Init, TypeOK, Over
<1>2. Numbered
  <2>1. sid \in [Readers -> Sids \cup {0}]
    BY Zenon DEF Init
  <2>2. \A k \in Readers : at[k] = "done"
    BY Zenon DEF Init
  <2>3. \A k \in 1 .. opened : sid[k] \in Sids
    BY DEF Init
  <2>4. pc \notin {"connect", "insert"} /\ reused \in BOOLEAN
    BY Zenon DEF Init
  <2>. QED BY <2>1, <2>2, <2>3, <2>4, Zenon DEF Numbered
<1>3. OneReader /\ FreeToOpen /\ InTable /\ NoDataAfterEnd /\ CloseStopsReaders
  BY Zenon DEF Init, OneReader, FreeToOpen, InTable, NoDataAfterEnd, CloseStopsReaders,
    Readers
<1>. QED BY <1>1, <1>2, <1>3, Zenon DEF MuxInv

(* Opening a session.                                                       *)
LEMMA OpeningKeepsInv ==
  ASSUME MuxInv,
         \/ \E s \in Sids : NewFrame(s) \/ NewUnknown(s)
         \/ SpawnReader \/ InsertSession
  PROVE  MuxInv'
<1>1. ASSUME NEW s \in Sids, NewFrame(s) PROVE MuxInv'
  BY <1>1, Zenon DEF NewFrame, Frame, Quiet, MuxInv, TypeOK, Numbered, OneReader,
    FreeToOpen,
       InTable, NoDataAfterEnd, CloseStopsReaders, StillRead, Readers, Over
<1>2. ASSUME NEW s \in Sids, NewUnknown(s) PROVE MuxInv'
  BY <1>2, Zenon DEF NewUnknown, Frame, Quiet, MuxInv, TypeOK, Numbered, OneReader,
    FreeToOpen,
       InTable, NoDataAfterEnd, CloseStopsReaders, StillRead, Readers, Over
<1>3. CASE SpawnReader
  <2>1. opened + 1 \in Readers /\ cur \in Sids /\ pc = "connect"
    BY <1>3 DEF SpawnReader, MuxInv, TypeOK, Numbered, Readers
  <2>2. TypeOK'
    BY <1>3, <2>1 DEF SpawnReader, MuxInv, TypeOK, Readers
  <2>3. Numbered'
    BY <1>3, <2>1 DEF SpawnReader, MuxInv, TypeOK, Numbered, Readers
  <2>4. OneReader'
    BY <1>3, <2>1 DEF SpawnReader, MuxInv, TypeOK, Numbered, OneReader, FreeToOpen,
         StillRead, Readers
  <2>5. InTable'
    BY <1>3, <2>1, Zenon DEF SpawnReader, MuxInv, TypeOK, Numbered, InTable, Readers, Over
  <2>6. NoDataAfterEnd'
    BY <1>3, <2>1, Zenon DEF SpawnReader, MuxInv, TypeOK, Numbered, NoDataAfterEnd,
      Readers
  <2>7. FreeToOpen' /\ CloseStopsReaders'
    BY <1>3, <2>1, Zenon DEF SpawnReader, MuxInv, TypeOK, Numbered, FreeToOpen,
      CloseStopsReaders,
         StillRead, Readers
  <2>. QED BY <2>2, <2>3, <2>4, <2>5, <2>6, <2>7, Zenon DEF MuxInv
<1>4. CASE InsertSession
  <2>1. opened \in Readers /\ sid[opened] = cur /\ cur \in Sids /\ pc = "insert"
    BY <1>4, Zenon DEF InsertSession, MuxInv, TypeOK, Numbered
  <2>2. TypeOK' /\ Numbered'
    BY <1>4, <2>1 DEF InsertSession, Quiet, MuxInv, TypeOK, Numbered, Readers, Over
  <2>3. InTable'
    BY <1>4, <2>1 DEF InsertSession, Quiet, MuxInv, TypeOK, Numbered, FreeToOpen, InTable,
         Readers, Over
  <2>4. OneReader' /\ FreeToOpen' /\ NoDataAfterEnd' /\ CloseStopsReaders'
    BY <1>4, Zenon DEF InsertSession, Quiet, MuxInv, OneReader, FreeToOpen,
      NoDataAfterEnd,
         CloseStopsReaders, StillRead
  <2>. QED BY <2>2, <2>3, <2>4, Zenon DEF MuxInv
<1>. QED BY <1>1, <1>2, <1>3, <1>4, Zenon

(* The other frames, and the end of the loop.                               *)
LEMMA LoopKeepsInv ==
  ASSUME MuxInv,
         \/ \E s \in Sids : KeepFrame(s) \/ EndFrame(s)
         \/ AnswerEnd \/ KeepAliveFrame \/ ClientCloses \/ TakeLock \/ WriteUpstream
         \/ Fail \/ IdleTimeout \/ LifetimeTimeout \/ LifetimePasses
  PROVE  MuxInv'
<1>1. ASSUME NEW s \in Sids, KeepFrame(s) PROVE MuxInv'
  BY <1>1 DEF KeepFrame, Frame, Quiet, MuxInv, TypeOK, Numbered, OneReader, FreeToOpen,
       InTable, NoDataAfterEnd, CloseStopsReaders, StillRead, Readers, Over
<1>2. ASSUME NEW s \in Sids, EndFrame(s) PROVE MuxInv'
  BY <1>2 DEF EndFrame, Frame, MuxInv, TypeOK, Numbered, OneReader, FreeToOpen,
       InTable, NoDataAfterEnd, CloseStopsReaders, StillRead, Readers, Over
<1>3. CASE ClientCloses
  BY <1>3 DEF ClientCloses, Frame, MuxInv, TypeOK, Numbered, OneReader, FreeToOpen,
       InTable, NoDataAfterEnd, CloseStopsReaders, StillRead, Readers, Over
<1>4. CASE KeepAliveFrame \/ TakeLock \/ WriteUpstream
  BY <1>4 DEF KeepAliveFrame, TakeLock, WriteUpstream, Frame, Quiet, MuxInv, TypeOK,
       Numbered, OneReader, FreeToOpen, InTable, NoDataAfterEnd, CloseStopsReaders,
       StillRead, Readers, Over
<1>5. CASE Fail \/ IdleTimeout \/ LifetimeTimeout \/ LifetimePasses
  BY <1>5, Zenon DEF Fail, IdleTimeout, LifetimeTimeout, LifetimePasses, Quiet, MuxInv,
    TypeOK,
       Numbered, OneReader, FreeToOpen, InTable, NoDataAfterEnd, CloseStopsReaders,
       StillRead, Readers, Over
<1>6. CASE AnswerEnd
  BY <1>6 DEF AnswerEnd, Quiet, MuxInv, TypeOK, Numbered, OneReader, FreeToOpen,
       InTable, NoDataAfterEnd, CloseStopsReaders, StillRead, Readers, Over
<1>. QED BY <1>1, <1>2, <1>3, <1>4, <1>5, <1>6, Zenon

(* A step of a reader or of its upstream.                                   *)
LEMMA ReaderKeepsInv ==
  ASSUME MuxInv, NEW k \in Readers, Reader(k)
  PROVE  MuxInv'
<1>1. ASSUME ReaderLocks(k) \/ UpstreamSends(k) \/ WriteData(k) \/ UpstreamCloses(k)
      PROVE  MuxInv'
  <2>1. /\ at[k] \in {"lock", "read", "data"}
        /\ \E to \in {"lock", "read", "data", "end"} : at' = [at EXCEPT ![k] = to]
        /\ UNCHANGED <<sessions, ended>> /\ Aside
    BY <1>1, Zenon DEF ReaderLocks, UpstreamSends, WriteData, UpstreamCloses, Step
  <2>2. PICK to \in {"lock", "read", "data", "end"} : at' = [at EXCEPT ![k] = to]
    BY <2>1, Zenon
  <2>. QED
    BY <2>1, <2>2 DEF Aside, MuxInv, TypeOK, Numbered, OneReader, FreeToOpen, InTable,
         NoDataAfterEnd, CloseStopsReaders, StillRead, Readers, Over
<1>2. CASE WriteEnd(k)
  BY <1>2 DEF WriteEnd, Step, Aside, MuxInv, TypeOK, Numbered, OneReader, FreeToOpen,
       InTable, NoDataAfterEnd, CloseStopsReaders, StillRead, Readers, Over
<1>3. CASE ReaderFails(k)
  BY <1>3 DEF ReaderFails, Step, Aside, MuxInv, TypeOK, Numbered, OneReader, FreeToOpen,
       InTable, NoDataAfterEnd, CloseStopsReaders, StillRead, Readers, Over
<1>4. CASE RemoveSession(k)
  BY <1>4 DEF RemoveSession, Step, Aside, MuxInv, TypeOK, Numbered, OneReader, FreeToOpen,
       InTable, NoDataAfterEnd, CloseStopsReaders, StillRead, Readers, Over
<1>. QED BY <1>1, <1>2, <1>3, <1>4, Zenon DEF Reader

(* The invariant holds in every state.                                      *)
LEMMA MuxInductive == Spec => []MuxInv
<1>1. MuxInv /\ [Next]_vars => MuxInv'
  <2>. SUFFICES ASSUME MuxInv, [Next]_vars PROVE MuxInv'
    OBVIOUS
  <2>1. CASE UNCHANGED vars
    BY <2>1, Zenon DEF vars, MuxInv, TypeOK, Numbered, OneReader, FreeToOpen, InTable,
         NoDataAfterEnd, CloseStopsReaders, StillRead
  <2>2. CASE Next
    BY <2>2, OpeningKeepsInv, LoopKeepsInv, ReaderKeepsInv, Zenon DEF Next, ClientFrame
  <2>. QED BY <2>1, <2>2, Zenon
<1>. QED BY <1>1, MuxInitially, PTL DEF Spec

(* Every open session is in the table, where the frames of the client find  *)
(* it, unless the client reuses an id too early (mux.rs, session table).    *)
THEOREM OpenSessionsAreKnown == Spec => []OpenIsInTable
<1>1. MuxInv => OpenIsInTable
  BY Zenon DEF MuxInv, InTable, OpenIsInTable, Running
<1>. QED BY <1>1, MuxInductive, PTL

(* No reader sends data for a session after its End frame.                  *)
THEOREM EndIsLast == Spec => []NoDataAfterEnd
<1>1. MuxInv => NoDataAfterEnd
  BY Zenon DEF MuxInv
<1>. QED BY <1>1, MuxInductive, PTL

(* When the client closes, every reader has been aborted or has ended.      *)
THEOREM NoReaderOutlivesClose == Spec => []CloseStopsReaders
<1>1. MuxInv => CloseStopsReaders
  BY Zenon DEF MuxInv
<1>. QED BY <1>1, MuxInductive, PTL

-----------------------------------------------------------------------------
(* The server's mux: a step of the sessions leaves the cones alone, and the *)
(* other way round, so both keep their invariants.                          *)

LEMMA ConesInvariant == MuxInit /\ [][MuxNext]_muxVars => []ConeInv
<1>1. [MuxNext]_muxVars => [ConeNext]_coneVars
  BY Zenon DEF MuxNext, SessionStep, ConeStep, muxVars
<1>2. MuxInit => ConeInit
  BY Zenon DEF MuxInit
<1>3. ConeInit => ConeInv
  BY ConeInductive, Zenon
<1>4. ConeInv /\ [ConeNext]_coneVars => ConeInv'
  BY ConeInductive, Zenon
<1>. QED BY <1>1, <1>2, <1>3, <1>4, PTL

(* SoleUserIsServed of the registry (xudp.rs) and the muxes that use it: a  *)
(* mux that shares its GlobalID with no other keeps its socket, and its     *)
(* reader runs, however those before it have ended.                         *)
THEOREM SoleUserKeepsCone == MuxFairSpec => []SoleUserIsServed
BY InvServes, ConesInvariant, PTL DEF MuxFairSpec

(* SoleReader: a hit stops the reader it finds before another one starts on *)
(* the same socket, so no two share one.                                    *)
THEOREM ReadersShareNoSocket == MuxFairSpec => []SoleReader
BY InvSeparates, ConesInvariant, PTL DEF MuxFairSpec
=============================================================================
