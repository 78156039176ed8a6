------------------------------ MODULE Handshake ------------------------------
(***************************************************************************)
(* The handshake that makes a connection: UdpConnectionProcessor, the     *)
(* pending connections of the server and the driver's connection table.   *)
(*                                                                         *)
(*   client                              server                            *)
(*   Initial   ----------------------->  make or find the pending entry    *)
(*             <-----------------------  Challenge (cookie of this moment) *)
(*   Response  ----------------------->  compare cookies, AddClient        *)
(*             <-----------------------  Ack                               *)
(*                                                                         *)
(* One client address.  The server's I/O threads handle its datagrams     *)
(* concurrently until the address is in the connection table; from then   *)
(* on they post jobs for the connection's worker.  The tick thread        *)
(* advances the clock and reaps pending entries; the client's sends its   *)
(* last datagram again and again.                                          *)
(*                                                                         *)
(* A cookie is the HMAC of the time it was made at (and of the address),  *)
(* so the model uses that time for it.  The network is a set: datagrams   *)
(* are reordered, delayed, received again when they stay in it, and lost  *)
(* when they are never received.  Liveness needs the difference: a Lossy  *)
(* network drops a datagram when it is sent, or keeps it until received.  *)
(***************************************************************************)
EXTENDS Integers, Sequences, FiniteSets

CONSTANTS
    IoThreads,          \* threads of the server that receive datagrams
    CookieLifetime,     \* MAX_COOKIE_LIFETIME
    InactivityTimeout,  \* PendingConnectionInactivityTimeoutSec
    Buckets,            \* buckets of the time wheel
    ServerByte,         \* first byte of each cookie: the server's number
    ClientByte,         \* second byte of each cookie: the client's number
    Lossy,              \* sent datagrams may vanish, received ones may go
    MayClose,           \* the server closes connections
    MaxTime,            \* bound: the server's clock stops here
    MaxPendings,        \* bound: pending entries ever made
    MaxConns            \* bound: connections ever made

Time == 0 .. MaxTime

ASSUME ConstantsOK ==
    /\ Buckets \in Nat \ {0}
    /\ MaxTime \in Nat /\ CookieLifetime \in Nat /\ InactivityTimeout \in Nat
    /\ MaxPendings \in Nat /\ MaxConns \in Nat
    /\ ServerByte \in [Time -> 0 .. 255] /\ ClientByte \in [Time -> 0 .. 255]
    /\ Lossy \in BOOLEAN /\ MayClose \in BOOLEAN

VARIABLES
    now,       \* ElapsedTimeUsCount of the server, in ticks of the wheel
    cleanup,   \* CacheCleanupIndex
    timeId,    \* ClientTimeId: the bucket for new entries
    pendings,  \* every PendingRemoteConnection made, in or out of the table
    cache,     \* ClientCache: the entry of the address in each bucket, 0 if none
    io,        \* what each I/O thread is doing
    conns,     \* every server-side connection made
    routed,    \* HashToConnectionMap of the address, 0 if none
    remote,    \* RemoteConnections, which the tick thread visits
    jobs,      \* datagrams posted to the workers of connections
    client,    \* the client's processor and connection
    resend,    \* packets ResendHandshake has read and not yet sent (0 or 1)
    toServer, toClient  \* datagrams on the network

serverVars == <<now, cleanup, timeId, pendings, cache, io, conns, routed, remote, jobs>>
clientVars == <<client, resend>>
vars == <<serverVars, clientVars, toServer, toClient>>

\* ParsedHandshakeData
Message == [type : {"Initial", "Challenge", "Response", "Ack"},
            stamp : Time \cup {-1}, cookie : Time]

InitialPacket       == [type |-> "Initial", stamp |-> 0, cookie |-> 0]
Response(challenge) == [challenge EXCEPT !.type = "Response"]

Idle == [pc |-> "idle", msg |-> InitialPacket, obj |-> 0, type |-> "Initial"]

-----------------------------------------------------------------------------
(* The client has called BeginHandShake; its threads start afterwards. *)
Init ==
    /\ now = 0 /\ cleanup = 0 /\ timeId = Buckets - 1
    /\ pendings = <<>> /\ cache = [b \in 0 .. Buckets - 1 |-> 0]
    /\ io = [t \in IoThreads |-> Idle]
    /\ conns = <<>> /\ routed = 0 /\ remote = {} /\ jobs = {}
    /\ client = [state |-> "UnInitialized", last |-> InitialPacket, in |-> -1, out |-> -1]
    /\ resend = {}
    /\ toServer = {InitialPacket} /\ toClient = {}

\* The network after m was sent, which arrives or not, and after it was received.
Arrivals == IF Lossy THEN BOOLEAN ELSE {TRUE}
Send(net, m, arrives) == IF arrives THEN net \cup {m} ELSE net
Received(net, m) == IF Lossy THEN {net, net \ {m}} ELSE {net}

Goto(t, pc) == io' = [io EXCEPT ![t].pc = pc]

\* DispatchReceivedDatagram: to the worker of the connection, if there is one.
Route(t, m) ==
    /\ io[t].pc = "idle"
    /\ m \in toServer
    /\ \/ /\ routed # 0
          /\ jobs' = jobs \cup {[conn |-> routed, msg |-> m]}
          /\ UNCHANGED io
       \/ /\ routed = 0
          /\ io' = [io EXCEPT ![t] = [Idle EXCEPT !.pc = "find", !.msg = m]]
          /\ UNCHANGED jobs
    /\ toServer' \in Received(toServer, m)
    /\ UNCHANGED <<now, cleanup, timeId, pendings, cache, conns, routed, remote,
                   clientVars, toClient>>

\* PendingConnectionManager::FindConnection, as the set of entries found.
Entries == {cache[b] : b \in DOMAIN cache} \ {0}

\* Not found and inserted are separate steps: FindConnection releases its locks.
FindPending(t) ==
    /\ io[t].pc = "find"
    /\ \/ \E e \in Entries : io' = [io EXCEPT ![t].pc = "handle", ![t].obj = e]
       \/ Entries = {} /\ Goto(t, "create")
    /\ UNCHANGED <<now, cleanup, timeId, pendings, cache, conns, routed, remote, jobs,
                   clientVars, toServer, toClient>>

\* CreatePendingClient and AddConnection, whose insert keeps an entry already there.
CreatePending(t) ==
    /\ io[t].pc = "create"
    /\ Len(pendings) < MaxPendings
    /\ LET new == Len(pendings) + 1 IN
       /\ pendings' = Append(pendings, [type |-> "Initial", cookieTime |-> now,
                                        activity |-> now, serverSeq |-> 0, clientSeq |-> 0])
       /\ cache' = [cache EXCEPT ![timeId] = IF @ = 0 THEN new ELSE @]
       /\ io' = [io EXCEPT ![t].pc = "handle", ![t].obj = new]
    /\ UNCHANGED <<now, cleanup, timeId, conns, routed, remote, jobs,
                   clientVars, toServer, toClient>>

\* Touch, and the branch on the type of the datagram.
HandleConnectionless(t) ==
    LET obj == io[t].obj
        touched == [pendings EXCEPT ![obj].activity = now]
    IN  /\ io[t].pc = "handle"
        /\ \/ /\ io[t].msg.type = "Initial" /\ io[t].msg.stamp = 0
              /\ pendings' = [touched EXCEPT ![obj].type = "Challenge"]
              /\ Goto(t, "header")
           \/ /\ io[t].msg.type = "Response"
              /\ pendings' = touched
              /\ Goto(t, "verify")
        /\ UNCHANGED <<now, cleanup, timeId, cache, conns, routed, remote, jobs,
                       clientVars, toServer, toClient>>

\* SendConnectChallenge: the type is read for the header, then the cookie is renewed.
BeginChallenge(t) ==
    /\ io[t].pc = "header"
    /\ io' = [io EXCEPT ![t].pc = "challenge", ![t].type = pendings[io[t].obj].type]
    /\ pendings' = [pendings EXCEPT ![io[t].obj].cookieTime = now]
    /\ UNCHANGED <<now, cleanup, timeId, cache, conns, routed, remote, jobs,
                   clientVars, toServer, toClient>>

\* GenerateCookie from the entry's cookie time, and send.
SendConnectChallenge(t, arrives) ==
    LET c == pendings[io[t].obj].cookieTime IN
    /\ io[t].pc = "challenge"
    /\ toClient' = Send(toClient, [type |-> io[t].type, stamp |-> c, cookie |-> c], arrives)
    /\ io' = [io EXCEPT ![t] = Idle]
    /\ UNCHANGED <<now, cleanup, timeId, pendings, cache, conns, routed, remote, jobs,
                   clientVars, toServer>>

\* The lifetime of the cookie, and the cookie itself; anything else is only logged.
CookieValid(p, m) ==
    /\ now - p.cookieTime \in 0 .. CookieLifetime - 1
    /\ m.cookie = p.cookieTime

VerifyResponse(t) ==
    /\ io[t].pc = "verify"
    /\ \/ CookieValid(pendings[io[t].obj], io[t].msg) /\ Goto(t, "accept")
       \/ ~CookieValid(pendings[io[t].obj], io[t].msg) /\ io' = [io EXCEPT ![t] = Idle]
    /\ UNCHANGED <<now, cleanup, timeId, pendings, cache, conns, routed, remote, jobs,
                   clientVars, toServer, toClient>>

\* A variant of AcceptResponse: the Ack leaves before AddClient.
AcceptResponse_AckFirst(t) ==
    LET c == io[t].msg.cookie IN
    /\ io[t].pc = "accept"
    /\ pendings' = [pendings EXCEPT ![io[t].obj] =
            [@ EXCEPT !.type = "Ack", !.serverSeq = ServerByte[c], !.clientSeq = ClientByte[c]]]
    /\ toClient' = toClient \cup {[type |-> "Ack", stamp |-> -1, cookie |-> c]}
    /\ Goto(t, "add")
    /\ UNCHANGED <<now, cleanup, timeId, cache, conns, routed, remote, jobs,
                   clientVars, toServer>>

\* The pending entry becomes an acknowledged one, with the numbers of the cookie.
AcceptResponse(t) ==
    LET c == io[t].msg.cookie IN
    /\ io[t].pc = "accept"
    /\ pendings' = [pendings EXCEPT ![io[t].obj] =
            [@ EXCEPT !.type = "Ack", !.serverSeq = ServerByte[c], !.clientSeq = ClientByte[c]]]
    /\ Goto(t, "add")
    /\ UNCHANGED <<now, cleanup, timeId, cache, conns, routed, remote, jobs,
                   clientVars, toServer, toClient>>

\* InitSequence(ClientSequence, ServerSequence) of the new connection.
NewConnection(p) == [in |-> p.clientSeq, out |-> p.serverSeq, closed |-> FALSE]

\* IpNetDriver::AddClient: the table keeps a connection already there.
AddClient(t) ==
    LET new == Len(conns) + 1 IN
    /\ io[t].pc = "add"
    /\ Len(conns) < MaxConns
    /\ conns' = Append(conns, NewConnection(pendings[io[t].obj]))
    /\ routed' = IF routed = 0 THEN new ELSE routed
    /\ remote' = remote \cup {new}
    /\ Goto(t, "ack")
    /\ UNCHANGED <<now, cleanup, timeId, pendings, cache, jobs, clientVars, toServer, toClient>>

\* What SendChallengeAck puts into the datagram: the entry's type, read again.
ChallengeAck(p, m) == [type |-> p.type, stamp |-> -1, cookie |-> m.cookie]

SendChallengeAck(t, arrives) ==
    /\ io[t].pc = "ack"
    /\ toClient' = Send(toClient, ChallengeAck(pendings[io[t].obj], io[t].msg), arrives)
    /\ io' = [io EXCEPT ![t] = Idle]
    /\ UNCHANGED <<now, cleanup, timeId, pendings, cache, conns, routed, remote, jobs,
                   clientVars, toServer>>

\* A variant of ResendsAck: handshake datagrams of a connection are ignored.
ResendsAck_Never(p, m) == FALSE

\* Incoming on the server: a job of a connection sends the Ack again.
ResendsAck(p, m) ==
    /\ m.type = "Response" /\ p.type = "Ack"
    /\ m.cookie = p.cookieTime

RunJob(j, arrives) ==
    /\ j \in jobs
    /\ jobs' = jobs \ {j}
    /\ \/ \E e \in Entries :
            /\ pendings' = [pendings EXCEPT ![e].activity = now]
            /\ toClient' = IF ResendsAck(pendings[e], j.msg)
                           THEN Send(toClient, ChallengeAck(pendings[e], j.msg), arrives)
                           ELSE toClient
       \/ /\ Entries = {} \/ conns[j.conn].closed  \* or the connection is no more
          /\ UNCHANGED <<pendings, toClient>>
    /\ UNCHANGED <<now, cleanup, timeId, cache, io, conns, routed, remote,
                   clientVars, toServer>>

-----------------------------------------------------------------------------
\* PendingConnectionManager::TimeKillEvent for the only address of the model.
TimeKill(bucket, time) ==
    LET e == cache[bucket] IN
    IF e # 0 /\ time - pendings[e].activity >= InactivityTimeout
    THEN [cache EXCEPT ![bucket] = 0]
    ELSE cache

\* A variant of NextTimeId: the remainder is forgotten.
NextTimeId_NoWrap == timeId + 1

\* ClientTimeId.fetch_add((ClientTimeId + 1) % 60)
NextTimeId == timeId + ((timeId + 1) % Buckets)

\* TickHousekeeping when a second has passed, with ConnectionsUpdate.
TickHousekeeping ==
    /\ now < MaxTime
    /\ now' = now + 1
    /\ cleanup' = (cleanup + 1) % Buckets
    /\ cache' = TimeKill(cleanup', now')
    /\ timeId' = NextTimeId
    /\ UNCHANGED <<pendings, io, conns, routed, remote, jobs, clientVars, toServer, toClient>>

\* A variant of Close: the connection stays in the list the tick visits.
Close_StaysListed(c) ==
    /\ MayClose
    /\ c \in DOMAIN conns /\ ~conns[c].closed
    /\ conns' = [conns EXCEPT ![c].closed = TRUE]
    /\ routed' = IF routed = c THEN 0 ELSE routed
    /\ UNCHANGED <<now, cleanup, timeId, pendings, cache, io, remote, jobs,
                   clientVars, toServer, toClient>>

\* NetConnection::Close and IpNetDriver::RemoveConnection.
Close(c) ==
    /\ MayClose
    /\ c \in DOMAIN conns /\ ~conns[c].closed
    /\ conns' = [conns EXCEPT ![c].closed = TRUE]
    /\ routed' = IF routed = c THEN 0 ELSE routed
    /\ remote' = remote \ {c}
    /\ UNCHANGED <<now, cleanup, timeId, pendings, cache, io, jobs,
                   clientVars, toServer, toClient>>

-----------------------------------------------------------------------------
\* Incoming on the client: a Challenge is answered, again and again, until the Ack.
AcceptsChallenge(m) ==
    /\ client.state \in {"UnInitialized", "InitializedOnLocal"}
    /\ m.type = "Challenge" /\ m.stamp > 0

ReceiveChallenge(m, arrives) ==
    /\ m \in toClient
    /\ AcceptsChallenge(m)
    /\ client' = [client EXCEPT !.state = "InitializedOnLocal", !.last = Response(m)]
    /\ toServer' = Send(toServer, Response(m), arrives)
    /\ toClient' \in Received(toClient, m)
    /\ UNCHANGED <<serverVars, resend>>

\* A variant of ReceiveAck: the numbers in the server's order.
ReceiveAck_Swapped(m) ==
    /\ m \in toClient
    /\ client.state \in {"UnInitialized", "InitializedOnLocal"}
    /\ m.type = "Ack" /\ m.stamp < 0
    /\ client' = [client EXCEPT !.state = "Initialized",
                                !.in = ClientByte[m.cookie], !.out = ServerByte[m.cookie]]
    /\ toClient' \in Received(toClient, m)
    /\ UNCHANGED <<serverVars, resend, toServer>>

\* InitSequence(ServerSequence, ClientSequence) of the client's connection.
ReceiveAck(m) ==
    /\ m \in toClient
    /\ client.state \in {"UnInitialized", "InitializedOnLocal"}
    /\ m.type = "Ack" /\ m.stamp < 0
    /\ client' = [client EXCEPT !.state = "Initialized",
                                !.in = ServerByte[m.cookie], !.out = ClientByte[m.cookie]]
    /\ toClient' \in Received(toClient, m)
    /\ UNCHANGED <<serverVars, resend, toServer>>

\* ResendHandshake on the tick thread: the last packet is read ...
ResendRead ==
    /\ resend = {}
    /\ resend' = {client.last}
    /\ UNCHANGED <<serverVars, client, toServer, toClient>>

\* ... stored as the last packet again by PrepLastHandshakePacket, and sent.
ResendSend(arrives) ==
    \E m \in resend :
        /\ client' = [client EXCEPT !.last = m]
        /\ toServer' = Send(toServer, m, arrives)
        /\ resend' = {}
        /\ UNCHANGED <<serverVars, toClient>>

-----------------------------------------------------------------------------
IoStep(t) ==
    \/ FindPending(t) \/ CreatePending(t) \/ HandleConnectionless(t)
    \/ VerifyResponse(t) \/ AcceptResponse(t) \/ AddClient(t)
    \/ BeginChallenge(t)
    \/ \E arrives \in Arrivals :
          SendConnectChallenge(t, arrives) \/ SendChallengeAck(t, arrives)

Next ==
    \/ \E t \in IoThreads : IoStep(t) \/ \E m \in toServer : Route(t, m)
    \/ \E j \in jobs, arrives \in Arrivals : RunJob(j, arrives)
    \/ TickHousekeeping
    \/ \E c \in DOMAIN conns : Close(c)
    \/ \E m \in toClient, arrives \in Arrivals : ReceiveChallenge(m, arrives)
    \/ \E m \in toClient : ReceiveAck(m)
    \/ ResendRead
    \/ \E arrives \in Arrivals : ResendSend(arrives)

Spec == Init /\ [][Next]_vars

(***************************************************************************)
(* Threads that have work do it, jobs run, datagrams that have arrived are *)
(* received, and of a datagram sent again and again some copies arrive;    *)
(* one sent only a few times may be lost for good.                         *)
(***************************************************************************)
Fairness ==
    /\ \A t \in IoThreads : WF_vars(IoStep(t))
    /\ \A type \in {"Initial", "Response"} :
        /\ SF_vars(\E t \in IoThreads, m \in toServer : m.type = type /\ Route(t, m))
        /\ WF_vars(\E j \in jobs, arrives \in Arrivals :
                      j.msg.type = type /\ RunJob(j, arrives))
    /\ SF_vars(\E t \in IoThreads : SendConnectChallenge(t, TRUE))
    /\ SF_vars(\E t \in IoThreads : SendChallengeAck(t, TRUE))
    /\ SF_vars(\E j \in jobs : j.msg.type = "Response" /\ RunJob(j, TRUE))
    /\ WF_vars(\E m \in toClient, arrives \in Arrivals : ReceiveChallenge(m, arrives))
    /\ WF_vars(\E m \in toClient : ReceiveAck(m))
    /\ WF_vars(TickHousekeeping)
    /\ WF_vars(ResendRead)
    /\ WF_vars(\E arrives \in Arrivals : ResendSend(arrives))
    /\ SF_vars(ResendSend(TRUE))

FairSpec == Spec /\ Fairness

-----------------------------------------------------------------------------
Stage == {"idle", "find", "create", "handle", "header", "challenge",
          "verify", "accept", "add", "ack"}
PendingType == {"Initial", "Challenge", "Ack"}

(* The types of the variables.  The bucket for new entries stays inside the
   wheel although its update (UdpPacketProcessor.cpp:586) adds instead of
   replacing, which would leave the wheel from most other starting values. *)
TypeOK ==
    /\ now \in Time
    /\ cleanup \in 0 .. Buckets - 1 /\ timeId \in 0 .. Buckets - 1
    /\ pendings \in Seq([type : PendingType, cookieTime : Time, activity : Time,
                         serverSeq : 0 .. 255, clientSeq : 0 .. 255])
    /\ cache \in [0 .. Buckets - 1 -> 0 .. Len(pendings)]
    /\ io \in [IoThreads -> [pc : Stage, msg : Message, obj : 0 .. Len(pendings),
                             type : PendingType]]
    /\ conns \in Seq([in : 0 .. 255, out : 0 .. 255, closed : BOOLEAN])
    /\ routed \in 0 .. Len(conns)
    /\ remote \subseteq 1 .. Len(conns)
    /\ jobs \subseteq [conn : 1 .. Len(conns), msg : Message]
    /\ client \in [state : {"UnInitialized", "InitializedOnLocal", "Initialized"},
                   last : Message, in : -1 .. 255, out : -1 .. 255]
    /\ resend \subseteq Message
    /\ toServer \subseteq Message /\ toClient \subseteq Message

(* Every Ack on the network belongs to a connection made before it with the
   numbers the Ack announces (the comment at UdpPacketProcessor.cpp:278: an
   Ack sent first may be answered before AddClient is done). *)
AcksAgree ==
    \A m \in toClient : m.type = "Ack" /\ m.stamp < 0 =>
        \E c \in DOMAIN conns : /\ conns[c].out = ServerByte[m.cookie]
                                /\ conns[c].in = ClientByte[m.cookie]

(* The connections the tick thread visits are exactly the one the datagrams
   of the address are routed to: AddClient and RemoveConnection keep their
   tables together, and no second connection is made for the address. *)
OnePerClient == remote = IF routed = 0 THEN {} ELSE {routed}

(* While the server has closed no connection, a client that is done has the
   numbers of the connection its datagrams are routed to, crosswise
   (NetConnection.cpp:521-522). *)
Agreement ==
    client.state = "Initialized" /\ (\A c \in DOMAIN conns : ~conns[c].closed)
        => /\ routed # 0
           /\ client.in = conns[routed].out
           /\ client.out = conns[routed].in

\* The cookie the client has answered is still that of the server's entry.
CookieKept ==
    client.last.type = "Response" =>
        \A e \in Entries : pendings[e].cookieTime = client.last.cookie

\* What the client sends again is its answer, once it has one.
AnswerKept == client.state # "UnInitialized" => client.last.type = "Response"

EventuallyInitialized == <>(client.state = "Initialized")

(* The client ends with a connection, whatever is lost: the last packet is
   sent again every second and answered (architecture.md:205-207), provided
   the cookie and the answer are kept. *)
Completes == [](CookieKept /\ AnswerKept) => EventuallyInitialized

(* The same without each of the two provisos. *)
CompletesDespiteRenewal == []AnswerKept => EventuallyInitialized
CompletesDespiteStaleResend == []CookieKept => EventuallyInitialized
=============================================================================
