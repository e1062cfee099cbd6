--------------------------- MODULE XhttpRegistry ---------------------------
(***************************************************************************)
(* The requests of XHTTP on the server: how one is routed, and how the GET *)
(* and the POSTs of a session id find each other in the registry           *)
(* (accept.rs, session.rs).  One session id.  An HTTP/1 connection carries *)
(* one request, since keep_alive is off; an HTTP/2 connection any number,  *)
(* and all of them share the one sender to the task of the connection.     *)
(* What numbered POSTs put into the queue is the matter of PacketUp; here  *)
(* the bodies of stream-up POSTs go through it.                            *)
(***************************************************************************)
EXTENDS Naturals, Sequences

CONSTANTS
  Scenarios,   \* sets of requests: functions to what each one asks for,
               \*   [conn, method, fault, session, seq]
  MaxPieces,   \* bound: pieces read from the body of one POST
  UploadQueue  \* UPLOAD_QUEUE_SIZE

VARIABLES
  kind,       \* the requests
  allowed,    \* XhttpMode
  entry,      \* the session in the map, 0 if none
  made,       \* sessions created so far
  status,     \* of each request: "new", or its HTTP status
  taken,      \* requests that took the sender of their connection
  joined,     \* the session of a request that was let into one, or 0
  attached,   \* POSTs whose body is still being read
  upload,     \* pieces in the queue of each session
  pushed,     \* pieces each POST has put into it
  reader      \* of each GET: "none", "reading", "ended" or "gone"

Reqs == DOMAIN kind

regVars == <<kind, allowed, entry, made, status, taken, joined, attached, upload, pushed, reader>>

RegInit ==
  /\ kind \in Scenarios
  /\ allowed \in {"stream-one", "stream-up", "packet-up", "auto"}
  /\ entry = 0
  /\ made = 0
  /\ status = [r \in Reqs |-> "new"]
  /\ taken = {}
  /\ joined = [r \in Reqs |-> 0]
  /\ attached = {}
  /\ upload = <<>>
  /\ pushed = [r \in Reqs |-> 0]
  /\ reader = [r \in Reqs |-> "none"]

allows_stream_one == allowed \in {"auto", "stream-one", "stream-up"}
allows_stream_up == allowed \in {"auto", "stream-up", "stream-one"}
allows_packet_up == allowed \in {"auto", "packet-up"}

get_or_create(s) ==
  IF entry # 0 THEN s = entry /\ UNCHANGED <<made, entry, upload>>
  ELSE s = made + 1 /\ made' = made + 1 /\ entry' = s /\ upload' = Append(upload, 0)

Gets(s) == {g \in Reqs : kind[g].method = "GET" /\ joined[g] = s}

Posts(s) == {r \in Reqs : kind[r].method = "POST" /\ joined[r] = s}

Answer(r, code) == status' = [status EXCEPT ![r] = code]

(* The requests of a connection race for its sender; only the first result *)
(* reaches the task of the connection, any other is dropped.               *)
IsFirst(r) == \A q \in taken : kind[q].conn # kind[r].conn

send_upgrade(r) == taken' = IF IsFirst(r) THEN taken \cup {r} ELSE taken

Refuse(r, code) ==
  Answer(r, code) /\ UNCHANGED <<entry, made, upload, taken, joined, attached, reader>>

handle_stream_one(r) ==
  IF ~allows_stream_one THEN Refuse(r, "400")
  ELSE /\ Answer(r, "200") /\ send_upgrade(r)
       /\ UNCHANGED <<entry, made, upload, joined, attached, reader>>

(* The whole body is read before the session is looked up. *)
handle_packet_up(r) ==
  LET k == kind[r] IN
  \/ ~allows_packet_up /\ Refuse(r, "400")
  \/ allows_packet_up /\ k.method # "POST" /\ Refuse(r, "405")
  \/ allows_packet_up /\ k.method = "POST" /\ k.seq = "text" /\ Refuse(r, "400")
  \/ /\ allows_packet_up /\ k.method = "POST" /\ k.seq = "number"
     /\ \/ \E code \in {"400", "413"} : Refuse(r, code)
        \/ \E s \in 1 .. made + 1 :
             /\ get_or_create(s)
             /\ Answer(r, "200") /\ send_upgrade(r)
             /\ joined' = [joined EXCEPT ![r] = s]
             /\ UNCHANGED <<attached, reader>>

(* The session is created before anything is checked, and stays in the map *)
(* when the request is refused.                                            *)
handle_stream_up(r) ==
  \E s \in 1 .. made + 1 :
    /\ get_or_create(s)
    /\ \/ /\ kind[r].method = "GET" /\ (allows_stream_up \/ allows_packet_up)
          /\ Gets(s) = {}
          /\ reader' = [reader EXCEPT ![r] = IF IsFirst(r) THEN "reading" ELSE "gone"]
          /\ joined' = [joined EXCEPT ![r] = s]
          /\ Answer(r, "200") /\ send_upgrade(r)
          /\ UNCHANGED attached
       \/ /\ kind[r].method = "GET" /\ (allows_stream_up \/ allows_packet_up)
          /\ Gets(s) # {}
          /\ Answer(r, "409")
          /\ UNCHANGED <<taken, joined, attached, reader>>
       \/ /\ kind[r].method = "POST" /\ allows_stream_up
          /\ attached' = attached \cup {r}
          /\ joined' = [joined EXCEPT ![r] = s]
          /\ Answer(r, "200") /\ send_upgrade(r)
          /\ UNCHANGED reader
       \/ /\ kind[r].method = "POST" /\ ~allows_stream_up
          /\ Answer(r, "400")
          /\ UNCHANGED <<taken, joined, attached, reader>>
       \/ /\ kind[r].method \notin {"GET", "POST"}
          /\ Answer(r, "405")
          /\ UNCHANGED <<taken, joined, attached, reader>>

handle_request(r) ==
  /\ status[r] = "new"
  /\ LET k == kind[r] IN
     \/ k.method = "OPTIONS" /\ Refuse(r, "200")
     \/ k.method # "OPTIONS" /\ k.fault \in {"path", "host"} /\ Refuse(r, "404")
     \/ k.method # "OPTIONS" /\ k.fault = "padding" /\ Refuse(r, "400")
     \/ /\ k.method # "OPTIONS" /\ k.fault = ""
        /\ \/ ~k.session /\ handle_stream_one(r)
           \/ k.session /\ k.seq # "" /\ handle_packet_up(r)
           \/ k.session /\ k.seq = "" /\ handle_stream_up(r)
  /\ UNCHANGED <<kind, allowed, pushed>>

(* What the task of connection c is told.  It holds a sender of its own, so *)
(* it goes on waiting when the connection has ended without an upgrade.     *)
accept_xhttp(c) ==
  LET told == {r \in taken : kind[r].conn = c} IN
  IF told = {} THEN "waiting"
  ELSE IF \E r \in told : kind[r].session /\ kind[r].method = "POST" THEN "posted"
  ELSE "upgraded"

(* A piece of the body enters the queue when there is room; without a      *)
(* receiver it is thrown away.                                             *)
attach_post_body(r) ==
  /\ r \in attached
  /\ pushed[r] < MaxPieces
  /\ \A g \in Gets(joined[r]) : reader[g] # "gone"
  /\ upload[joined[r]] < UploadQueue
  /\ upload' = [upload EXCEPT ![joined[r]] = @ + 1]
  /\ pushed' = [pushed EXCEPT ![r] = @ + 1]
  /\ UNCHANGED <<kind, allowed, entry, made, status, taken, joined, attached, reader>>

(* The body ends or breaks; the task then removes whatever session the id  *)
(* names now.                                                              *)
PostEnds(r) ==
  /\ r \in attached
  /\ attached' = attached \ {r}
  /\ entry' = 0
  /\ UNCHANGED <<kind, allowed, made, status, taken, joined, upload, pushed, reader>>

ReadUpload(g) ==
  /\ reader[g] = "reading"
  /\ upload[joined[g]] > 0
  /\ upload' = [upload EXCEPT ![joined[g]] = @ - 1]
  /\ UNCHANGED <<kind, allowed, entry, made, status, taken, joined, attached, pushed, reader>>

(* Whoever holds the session holds the sender of its queue. *)
HasSender(s) == entry = s \/ Posts(s) \cap attached # {}

(* Mutant: the end of the uplink is an empty queue. *)
UploadEnds_WhenEmpty(g) ==
  /\ reader[g] = "reading"
  /\ upload[joined[g]] = 0
  /\ reader' = [reader EXCEPT ![g] = "ended"]
  /\ UNCHANGED <<kind, allowed, entry, made, status, taken, joined, attached, upload, pushed>>

UploadEnds(g) ==
  /\ reader[g] = "reading"
  /\ upload[joined[g]] = 0 /\ ~HasSender(joined[g])
  /\ reader' = [reader EXCEPT ![g] = "ended"]
  /\ UNCHANGED <<kind, allowed, entry, made, status, taken, joined, attached, upload, pushed>>

(* The session behind the GET ends; its entry is left as it is. *)
ReaderDropped(g) ==
  /\ reader[g] = "reading"
  /\ reader' = [reader EXCEPT ![g] = "gone"]
  /\ UNCHANGED <<kind, allowed, entry, made, status, taken, joined, attached, upload, pushed>>

RegNext ==
  \E r \in Reqs :
    \/ handle_request(r)
    \/ attach_post_body(r) \/ PostEnds(r)
    \/ ReadUpload(r) \/ UploadEnds(r) \/ ReaderDropped(r)

RegSpec == RegInit /\ [][RegNext]_regVars

(* Two stream-up POSTs have fed session s; the first to end takes the id   *)
(* away from the other.                                                    *)
Shared(s) == \E q, r \in Posts(s) : q # r /\ kind[q].seq = "" /\ kind[r].seq = ""

(***************************************************************************)
(* A GET and the POSTs of its id meet.  A session is read by one GET, the  *)
(* first whose result reached the task of its connection, which then goes  *)
(* on as a session; the GET is told of the end only when no POST feeds the *)
(* session any more and all that was posted has been read.  While a POST   *)
(* is being read the id names its session, so that a GET that comes later  *)
(* finds it, unless this or an earlier session had two POSTs.              *)
(***************************************************************************)
GetsMeetTheirPosts ==
  /\ \A s \in 1 .. made : \A g, h \in Gets(s) : g = h
  /\ \A g \in Reqs : reader[g] \in {"reading", "ended"} =>
       /\ g \in taken /\ accept_xhttp(kind[g].conn) = "upgraded"
       /\ \A h \in taken : kind[h].conn = kind[g].conn => h = g
  /\ \A g \in Reqs : reader[g] = "ended" =>
       Posts(joined[g]) \cap attached = {} /\ upload[joined[g]] = 0
  /\ \A r \in attached : entry = joined[r] \/ \E s \in 1 .. joined[r] : Shared(s)

(* A GET that is answered 200 is read by the session of its connection.    *)
(* The code refutes it for HTTP/2: see README.                             *)
AnsweredGetsAreRead ==
  \A g \in Reqs : kind[g].method = "GET" /\ kind[g].session /\ status[g] = "200" => g \in taken

(* While a stream-up POST is being read, the id names its session.         *)
(* The code refutes it: see README.                                        *)
PostsKeepTheirId == \A r \in attached : entry = joined[r]
=============================================================================
