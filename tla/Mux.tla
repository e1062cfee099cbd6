-------------------------------- MODULE Mux --------------------------------
(***************************************************************************)
(* VLESS mux (skadi-transport/src/mux.rs): one task reads the frames of a  *)
(* client and serves the TCP and UDP sessions multiplexed in them, and     *)
(* each session has a task that reads its upstream.  Both use the upstream *)
(* through one mutex, which the reader holds while it waits for data.      *)
(* XUDP frames are the subject of Xudp.                                    *)
(***************************************************************************)
EXTENDS Naturals

CONSTANTS
  Sids,      \* session ids
  MaxTasks   \* bound of the model: sessions opened on the connection

ASSUME MuxAssumption == MaxTasks \in Nat \ {0}

VARIABLES
  pc,       \* where the frame loop stands
  cur,      \* the session it opens or answers, or the reader whose upstream it uses
  sessions, \* the table: the reader of each session id, 0 for none
  opened,   \* number of readers spawned; they are numbered from 1
  sid,      \* the session id of each reader
  at,       \* where each reader stands
  ended,    \* history: ids whose last frame to the client was End
  reused,   \* history: an id was opened anew before its last reader was done
  moved,    \* history: bytes went to the client since the idle deadline was set
  due       \* the maximal lifetime has been reached

vars == <<pc, cur, sessions, opened, sid, at, ended, reused, moved, due>>

Readers == 1 .. MaxTasks

(* How the frame loop can have ended. *)
Over == {"closed", "failed", "idle"}

Init ==
  /\ pc = "frame" /\ cur = 0
  /\ sessions = [s \in Sids |-> 0]
  /\ opened = 0
  /\ sid = [k \in Readers |-> 0]
  /\ at = [k \in Readers |-> "done"]
  /\ ended = {} /\ reused = FALSE
  /\ moved = FALSE /\ due = FALSE

-----------------------------------------------------------------------------
(* The frame loop.  Every frame sets the idle deadline anew.                *)
Frame(to) == pc = "frame" /\ pc' = to /\ moved' = FALSE

StillRead(s) == \E k \in Readers : sid[k] = s /\ at[k] # "done"

Quiet == UNCHANGED <<sid, at, opened, due>>

(* A New frame for TCP or UDP: connect to its target. *)
NewFrame(s) ==
  /\ opened < MaxTasks
  /\ Frame("connect") /\ cur' = s
  /\ reused' = (reused \/ StillRead(s))
  /\ UNCHANGED <<sessions, ended>> /\ Quiet

(* A New frame for an unknown network is answered with End. *)
NewUnknown(s) ==
  /\ Frame("answer") /\ cur' = s
  /\ reused' = (reused \/ StillRead(s))
  /\ UNCHANGED <<sessions, ended>> /\ Quiet

(* write_end: the loop goes on once the client has taken the answer.        *)
AnswerEnd ==
  /\ pc = "answer" /\ pc' = "frame" /\ cur' = 0
  /\ ended' = ended \cup {cur}
  /\ UNCHANGED <<sessions, reused, moved>> /\ Quiet

(* open_tcp_session and open_udp_session: connected, and the payload of the *)
(* frame passed on; the reader is spawned before the session is in the      *)
(* table.                                                                   *)
SpawnReader ==
  /\ pc = "connect" /\ pc' = "insert"
  /\ opened' = opened + 1
  /\ sid' = [sid EXCEPT ![opened'] = cur]
  /\ at' = [at EXCEPT ![opened'] = "lock"]
  /\ ended' = ended \ {cur}
  /\ UNCHANGED <<cur, sessions, reused, moved, due>>

(* The session enters the table; what was there is dropped, not aborted. *)
InsertSession ==
  /\ pc = "insert" /\ pc' = "frame"
  /\ sessions' = [sessions EXCEPT ![cur] = opened]
  /\ cur' = 0
  /\ UNCHANGED <<ended, reused, moved>> /\ Quiet

(* forward_keep_frame: without a session the answer is End; a payload needs *)
(* the upstream's lock.                                                     *)
KeepFrame(s) ==
  /\ \/ /\ sessions[s] = 0
        /\ Frame("answer") /\ cur' = s
     \/ /\ sessions[s] # 0
        /\ Frame("lock") /\ cur' = sessions[s]
  /\ UNCHANGED <<sessions, ended, reused>> /\ Quiet

TakeLock ==
  /\ pc = "lock" /\ pc' = "write"
  /\ at[cur] # "read"
  /\ UNCHANGED <<cur, sessions, ended, reused, moved>> /\ Quiet

WriteUpstream ==
  /\ pc = "write" /\ pc' = "frame" /\ cur' = 0
  /\ UNCHANGED <<sessions, ended, reused, moved>> /\ Quiet

(* Mutant: the session is forgotten, its reader goes on. *)
EndFrame_NoAbort(s) ==
  /\ Frame("frame")
  /\ sessions' = [sessions EXCEPT ![s] = 0]
  /\ UNCHANGED <<cur, ended, reused>> /\ Quiet

(* An End frame of the client: the session leaves the table, its reader is  *)
(* aborted.                                                                 *)
EndFrame(s) ==
  /\ Frame("frame")
  /\ sessions' = [sessions EXCEPT ![s] = 0]
  /\ at' = [k \in Readers |-> IF k = sessions[s] THEN "done" ELSE at[k]]
  /\ UNCHANGED <<cur, ended, reused, sid, opened, due>>

(* Keep-alive, or a Keep frame without a payload. *)
KeepAliveFrame == Frame("frame") /\ UNCHANGED <<cur, sessions, ended, reused>> /\ Quiet

(* Mutant: the table is dropped, its readers go on. *)
ClientCloses_NoAbort ==
  /\ Frame("closed")
  /\ sessions' = [s \in Sids |-> 0]
  /\ UNCHANGED <<cur, ended, reused>> /\ Quiet

(* The client's stream ends: every session of the table is aborted. *)
ClientCloses ==
  /\ Frame("closed")
  /\ sessions' = [s \in Sids |-> 0]
  /\ at' = [k \in Readers |-> IF \E s \in Sids : sessions[s] = k THEN "done" ELSE at[k]]
  /\ UNCHANGED <<cur, ended, reused, sid, opened, due>>

(* A failed connect, a failed write to an upstream or to the client, or a   *)
(* frame that cannot be read or understood ends the whole connection at     *)
(* once; the readers are left as they are.                                  *)
Fail ==
  /\ pc \in {"frame", "answer", "connect", "write"} /\ pc' = "failed" /\ cur' = 0
  /\ UNCHANGED <<sessions, ended, reused, moved>> /\ Quiet

(* The deadlines are polled only while the loop waits for a frame. *)
IdleTimeout ==
  /\ pc = "frame" /\ pc' = "idle"
  /\ UNCHANGED <<cur, sessions, ended, reused, moved>> /\ Quiet

(* Mutant: the lifetime, too, only ends a connection that relays nothing. *)
LifetimeTimeout_NeedsQuiet ==
  /\ due /\ ~moved
  /\ pc = "frame" /\ pc' = "failed"
  /\ UNCHANGED <<cur, sessions, ended, reused, moved>> /\ Quiet

LifetimeTimeout ==
  /\ due
  /\ pc = "frame" /\ pc' = "failed"
  /\ UNCHANGED <<cur, sessions, ended, reused, moved>> /\ Quiet

LifetimePasses ==
  /\ ~due /\ due' = TRUE
  /\ UNCHANGED <<pc, cur, sessions, opened, sid, at, ended, reused, moved>>

-----------------------------------------------------------------------------
(* A reader (pump_tcp_upstream_to_client, pump_udp_upstream_to_client).     *)
Step(k, from, to) == at[k] = from /\ at' = [at EXCEPT ![k] = to]

Aside == UNCHANGED <<pc, cur, opened, sid, reused, due>>

(* The mutex is fair: a frame loop that waits for it comes first. *)
ReaderLocks(k) ==
  /\ ~(pc \in {"lock", "write"} /\ cur = k)
  /\ Step(k, "lock", "read")
  /\ UNCHANGED <<sessions, ended, moved>> /\ Aside

UpstreamSends(k) ==
  /\ Step(k, "read", "data")
  /\ UNCHANGED <<sessions, ended, moved>> /\ Aside

WriteData(k) ==
  /\ Step(k, "data", "lock")
  /\ moved' = TRUE
  /\ UNCHANGED <<sessions, ended>> /\ Aside

(* The upstream closes; a UDP socket that fails is treated in the same way. *)
UpstreamCloses(k) ==
  /\ Step(k, "read", "end")
  /\ UNCHANGED <<sessions, ended, moved>> /\ Aside

(* Mutant: the reader goes on after its End frame. *)
WriteEnd_NoBreak(k) ==
  /\ Step(k, "end", "lock")
  /\ ended' = ended \cup {sid[k]}
  /\ UNCHANGED <<sessions, moved>> /\ Aside

WriteEnd(k) ==
  /\ Step(k, "end", "remove")
  /\ ended' = ended \cup {sid[k]}
  /\ UNCHANGED <<sessions, moved>> /\ Aside

(* A TCP read fails, or the client cannot be written to: no End frame. *)
ReaderFails(k) ==
  /\ \E from \in {"read", "data", "end"} : Step(k, from, "remove")
  /\ UNCHANGED <<sessions, ended, moved>> /\ Aside

(* The reader's last step removes whatever its id maps to. *)
RemoveSession(k) ==
  /\ Step(k, "remove", "done")
  /\ sessions' = [sessions EXCEPT ![sid[k]] = 0]
  /\ UNCHANGED <<ended, moved>> /\ Aside

Reader(k) ==
  \/ ReaderLocks(k) \/ UpstreamSends(k) \/ WriteData(k) \/ UpstreamCloses(k)
  \/ WriteEnd(k) \/ ReaderFails(k) \/ RemoveSession(k)

ClientFrame(s) == NewFrame(s) \/ NewUnknown(s) \/ KeepFrame(s) \/ EndFrame(s)

Next ==
  \/ \E s \in Sids : ClientFrame(s)
  \/ KeepAliveFrame \/ ClientCloses
  \/ AnswerEnd \/ SpawnReader \/ InsertSession \/ TakeLock \/ WriteUpstream
  \/ Fail \/ IdleTimeout \/ LifetimeTimeout \/ LifetimePasses
  \/ \E k \in Readers : Reader(k)

Spec == Init /\ [][Next]_vars

(* Nothing is asked of the client and the upstreams: they may stop reading  *)
(* or sending for ever.  Only the loop's own steps are fair: a session is   *)
(* put into the table, a lock that stays free is taken, and of a deadline   *)
(* and a frame that are both ready the select picks one at random, so a     *)
(* deadline that is ready again and again is picked in the end.             *)
Fairness == WF_vars(InsertSession) /\ WF_vars(TakeLock) /\ SF_vars(LifetimeTimeout)

FairSpec == Spec /\ Fairness

-----------------------------------------------------------------------------
(* Type correctness; the loop uses an upstream only of a session it found.  *)
TypeOK ==
  /\ pc \in {"frame", "answer", "connect", "insert", "lock", "write"} \cup Over
  /\ pc \in {"lock", "write"} => cur \in 1 .. opened
  /\ pc \in {"answer", "connect", "insert"} => cur \in Sids
  /\ sessions \in [Sids -> 0 .. opened]
  /\ opened \in 0 .. MaxTasks
  /\ at \in [Readers -> {"lock", "read", "data", "end", "remove", "done"}]
  /\ ended \subseteq Sids

Running(k) == at[k] \notin {"remove", "done"}

(* As long as the client opens no id anew before the reader of its last     *)
(* session is done, a session that neither side has ended is in the table,  *)
(* where Keep and End frames find it: neither its own reader nor another    *)
(* session takes it out early.                                              *)
OpenIsInTable ==
  (~reused /\ pc \notin Over) =>
    \A k \in Readers : Running(k) =>
      \/ sessions[sid[k]] = k
      \/ pc = "insert" /\ k = opened

(* Under the same condition the client gets no data for a session after its *)
(* End frame, whoever sent the End frame.                                   *)
NoDataAfterEnd ==
  ~reused => \A k \in Readers : at[k] \in {"lock", "read", "data"} => sid[k] \notin ended

(* Under the same condition no reader outlives a connection that the client *)
(* closed.                                                                  *)
CloseStopsReaders ==
  (~reused /\ pc = "closed") => \A k \in Readers : at[k] = "done"

(* The loop is in the middle of a frame, and what it waits for is up to the *)
(* client or to an upstream: to connect, to read what is written to it, or  *)
(* to send what a reader waits for that holds the lock meanwhile.           *)
InFrame ==
  \/ pc \in {"answer", "connect", "write"}
  \/ pc = "lock" /\ at[cur] = "read"

(* When the maximal lifetime is reached the connection ends, even in the    *)
(* middle of traffic, unless the loop stays in one and the same frame for   *)
(* ever because a peer stands still: the tasks never keep each other from   *)
(* ending it, neither a reader that takes the lock again and again nor a    *)
(* client that sends frame after frame.                                     *)
LifetimeClosesOrStands == due ~> (pc \in Over \/ []InFrame)

(* docs/CONFIGURATION.md: the maximal lifetime ends the session, even in    *)
(* the middle of traffic.  The code refutes it: see README.                 *)
LifetimeCloses == due ~> pc \in Over

(* docs/CONFIGURATION.md: the idle timeout counts from the last byte in     *)
(* either direction.  The code refutes it: see README.                      *)
IdleOnlyWhenIdle == [][(pc # "idle" /\ pc' = "idle") => ~moved]_vars
=============================================================================
