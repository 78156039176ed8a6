-------------------------- MODULE Handshake_proofs --------------------------
(***************************************************************************)
(* The types of Handshake, for any number of I/O threads; and for one, the *)
(* consistency of the connection table, the agreement of both sides on     *)
(* their first sequence numbers, and the acknowledgements.                 *)
(*                                                                         *)
(* Agreement: a cookie under way is never newer than that of the live      *)
(* entry (InTime), and once packets are routed each such cookie is a       *)
(* connection's or past (AnswersPast, JobsPast); the one I/O thread knows  *)
(* the entry it works on (ThreadsKnow), and entries are only made in the   *)
(* last bucket, where a look-up finds them (LastBucketOnly). So the        *)
(* acknowledgements agree, and a client that connects has the numbers of   *)
(* the one connection that the server made of it (OneConnection,           *)
(* HasNumbers). With two I/O threads this fails: TLC shows how.            *)
(***************************************************************************)
EXTENDS Handshake, SequenceTheorems, TLAPS

Pending    == [type : PendingType, cookieTime : Time, activity : Time,
               serverSeq : 0 .. 255, clientSeq : 0 .. 255]
Connection == [in : 0 .. 255, out : 0 .. 255, closed : BOOLEAN]

(* A thread past FindPending holds an entry, and the bucket for new entries
   never moves: adding the next position of the last bucket adds zero. *)
HoldsEntry == \A t \in IoThreads :
    io[t].pc \notin {"idle", "find", "create"} => io[t].obj # 0
TypeInv == TypeOK /\ HoldsEntry /\ timeId = Buckets - 1

(* Writing one field of one entry keeps the list of entries. *)
LEMMA EntryUpdate ==
    ASSUME NEW s \in Seq(Pending), NEW e \in 1 .. Len(s), NEW p \in Pending
    PROVE  /\ [s EXCEPT ![e] = p] \in Seq(Pending)
           /\ Len([s EXCEPT ![e] = p]) = Len(s)
  BY ExceptSeq

(* Writing the activity or the type of one entry changes no cookie. *)
LEMMA CookiesOfEntries ==
    ASSUME NEW s \in Seq(Pending), NEW e \in 1 .. Len(s), NEW p \in Pending,
           p.cookieTime = s[e].cookieTime
    PROVE  \A i \in 1 .. Len(s) : [s EXCEPT ![e] = p][i].cookieTime = s[i].cookieTime
<1>1. PICK n \in Nat : n = Len(s) /\ DOMAIN s = 1 .. n
  OBVIOUS
<1>2. ASSUME NEW i \in 1 .. n PROVE [s EXCEPT ![e] = p][i].cookieTime = s[i].cookieTime
  <2>1. CASE i = e
    BY <1>1, <2>1
  <2>2. CASE i # e
    BY <1>1, <2>2
  <2> QED
    BY <2>1, <2>2
<1> QED
  BY <1>1, <1>2

(* The update of ClientTimeId leaves it at the last bucket. *)
LEMMA WheelStands == ASSUME timeId = Buckets - 1 PROVE NextTimeId = timeId
<1>1. Buckets \in Nat \ {0}
  BY ConstantsOK DEF ConstantsOK
<1>2. Buckets % Buckets = 0
  BY <1>1
<1> QED
  BY <1>1, <1>2 DEF NextTimeId
-----------------------------------------------------------------------------
(* The constants and variables the steps below talk about. *)
Thread(n) == [pc : Stage, msg : Message, obj : 0 .. n, type : PendingType]

ServerTables ==
    /\ conns \in Seq(Connection)
    /\ routed \in 0 .. Len(conns)
    /\ remote \subseteq 1 .. Len(conns)
    /\ jobs \subseteq [conn : 1 .. Len(conns), msg : Message]

Entry ==
    /\ pendings \in Seq(Pending)
    /\ cache \in [0 .. Buckets - 1 -> 0 .. Len(pendings)]

Wheel == now \in Time /\ cleanup \in 0 .. Buckets - 1 /\ timeId = Buckets - 1

Threads == io \in [IoThreads -> Thread(Len(pendings))] /\ HoldsEntry

Client ==
    /\ client \in [state : {"UnInitialized", "InitializedOnLocal", "Initialized"},
                   last : Message, in : -1 .. 255, out : -1 .. 255]
    /\ resend \subseteq Message

Network == toServer \subseteq Message /\ toClient \subseteq Message

(* The type invariant is the conjunction of these parts. *)
LEMMA Parts ==
    TypeInv <=> ServerTables /\ Entry /\ Wheel /\ Threads /\ Client /\ Network
  BY ConstantsOK DEF TypeInv, TypeOK, ServerTables, Entry, Wheel, Threads, Client, Network,
       Thread, Pending, Connection, ConstantsOK

LEMMA PartsNext ==
    TypeInv' <=> /\ ServerTables' /\ Entry' /\ Wheel' /\ Threads' /\ Client' /\ Network'
  BY ConstantsOK DEF TypeInv, TypeOK, ServerTables, Entry, Wheel, Threads, Client, Network,
       Thread, Pending, Connection, ConstantsOK

(* A step of one thread keeps the threads' types. *)
LEMMA ThreadUpdate ==
    ASSUME Threads, Entry, NEW t \in IoThreads, NEW x \in Thread(Len(pendings)),
           x.pc \notin {"idle", "find", "create"} => x.obj # 0,
           io' = [io EXCEPT ![t] = x], Len(pendings') = Len(pendings)
    PROVE  Threads'
  BY DEF Threads, HoldsEntry, Thread

(* What a thread past FindPending knows of its entry. *)
LEMMA HeldEntry ==
    ASSUME Threads, Entry, NEW t \in IoThreads,
           io[t].pc \notin {"idle", "find", "create"}
    PROVE  /\ io[t].obj \in 1 .. Len(pendings)
           /\ pendings[io[t].obj] \in Pending
  BY DEF Threads, Entry, HoldsEntry, Thread

-----------------------------------------------------------------------------
\* What the steps keep alone.
USE DEF serverVars, clientVars, vars

LEMMA InitTypes == Init => TypeInv
<1> SUFFICES ASSUME Init PROVE TypeInv
  OBVIOUS
<1>1. Entry /\ ServerTables /\ Wheel
  BY ConstantsOK DEF Init, Entry, ServerTables, Wheel, ConstantsOK, Time, Pending, Connection
<1>2. Threads /\ Client /\ Network
  BY ConstantsOK DEF Init, Threads, HoldsEntry, Thread, Idle, InitialPacket, Message, Stage,
       PendingType, Client, Network, ConstantsOK, Time
<1> QED
  BY <1>1, <1>2, Parts

(* A thread that is idle has the type of a thread. *)
LEMMA IdleThread ==
    ASSUME Entry
    PROVE  /\ Idle \in Thread(Len(pendings)) /\ Idle.pc = "idle"
           /\ \A m \in Message, pc \in Stage :
                 /\ [Idle EXCEPT !.pc = pc, !.msg = m] \in Thread(Len(pendings))
                 /\ [Idle EXCEPT !.pc = pc, !.msg = m].pc = pc
<1>1. 0 \in 0 .. Len(pendings)
  BY DEF Entry
<1>2. InitialPacket \in Message
  BY ConstantsOK DEF InitialPacket, Message, Time, ConstantsOK
<1>3. Idle \in Thread(Len(pendings)) /\ Idle.pc = "idle"
  BY <1>1, <1>2 DEF Idle, Thread, Stage, PendingType
<1> QED
  BY <1>3 DEF Thread

LEMMA RouteTypes ==
    ASSUME TypeInv, NEW t \in IoThreads, NEW m, Route(t, m) PROVE TypeInv'
<1>1. m \in Message
  BY Parts DEF Route, Network
<1>2. ServerTables' /\ Entry' /\ Wheel' /\ Client' /\ Network'
  BY <1>1, Parts DEF Route, ServerTables, Entry, Wheel, Client, Network, Received
<1>3. Threads'
  <2>1. CASE routed # 0
    BY <2>1, Parts DEF Route, Threads, HoldsEntry
  <2>2. CASE routed = 0
    <3>1. [Idle EXCEPT !.pc = "find", !.msg = m] \in Thread(Len(pendings))
      BY <1>1, IdleThread, Parts DEF Stage
    <3>2. [Idle EXCEPT !.pc = "find", !.msg = m].pc = "find"
      BY <1>1, IdleThread, Parts DEF Stage
    <3> QED
      BY <2>2, <3>1, <3>2, ThreadUpdate, Parts DEF Route
  <2> QED
    BY <2>1, <2>2
<1> QED
  BY <1>2, <1>3, PartsNext

(* A step that only moves a thread to another stage. *)
LEMMA GotoTypes ==
    ASSUME Threads, Entry, NEW t \in IoThreads, NEW pc \in Stage,
           pc \notin {"idle", "find", "create"} => io[t].obj # 0,
           Goto(t, pc), Len(pendings') = Len(pendings)
    PROVE  Threads'
<1>1. io[t] \in Thread(Len(pendings))
  BY DEF Threads
<1>2. /\ [io[t] EXCEPT !.pc = pc] \in Thread(Len(pendings))
      /\ [io[t] EXCEPT !.pc = pc].pc = pc
      /\ [io[t] EXCEPT !.pc = pc].obj = io[t].obj
  BY <1>1 DEF Thread
<1> QED
  BY <1>2, ThreadUpdate DEF Goto

(* A step that makes a thread idle. *)
LEMMA IdleTypes ==
    ASSUME Threads, Entry, NEW t \in IoThreads, io' = [io EXCEPT ![t] = Idle],
           Len(pendings') = Len(pendings)
    PROVE  Threads'
<1> QED
  BY IdleThread, ThreadUpdate

LEMMA FindPendingTypes ==
    ASSUME TypeInv, NEW t \in IoThreads, FindPending(t) PROVE TypeInv'
<1>1. ServerTables' /\ Entry' /\ Wheel' /\ Client' /\ Network'
  BY Parts DEF FindPending, ServerTables, Entry, Wheel, Client, Network
<1>2. Threads'
  <2>1. CASE \E e \in Entries : io' = [io EXCEPT ![t].pc = "handle", ![t].obj = e]
    <3>1. PICK e \in Entries : io' = [io EXCEPT ![t].pc = "handle", ![t].obj = e]
      BY <2>1
    <3>2. e \in 0 .. Len(pendings) /\ e # 0
      BY Parts DEF Entry, Entries
    <3>3. io[t] \in Thread(Len(pendings))
      BY Parts DEF Threads
    <3>4. /\ [io[t] EXCEPT !.pc = "handle", !.obj = e] \in Thread(Len(pendings))
          /\ [io[t] EXCEPT !.pc = "handle", !.obj = e].obj = e
      BY <3>2, <3>3 DEF Thread, Stage
    <3>5. io' = [io EXCEPT ![t] = [io[t] EXCEPT !.pc = "handle", !.obj = e]]
      BY <3>1, Parts DEF Threads
    <3> QED
      BY <3>2, <3>4, <3>5, ThreadUpdate, Parts DEF FindPending
  <2>2. CASE Goto(t, "create")
    BY <2>2, GotoTypes, Parts DEF FindPending, Stage
  <2> QED
    BY <2>1, <2>2 DEF FindPending
<1> QED
  BY <1>1, <1>2, PartsNext

LEMMA CreatePendingTypes ==
    ASSUME TypeInv, NEW t \in IoThreads, CreatePending(t) PROVE TypeInv'
<1> DEFINE n == Len(pendings) + 1
           p == [type |-> "Initial", cookieTime |-> now, activity |-> now,
                 serverSeq |-> 0, clientSeq |-> 0]
<1>1. p \in Pending
  BY Parts DEF Pending, PendingType, Wheel
<1>2. pendings \in Seq(Pending) /\ pendings' = Append(pendings, p)
  BY Parts DEF CreatePending, Entry
<1>3. pendings' \in Seq(Pending) /\ Len(pendings') = n /\ Len(pendings) \in Nat
  BY <1>1, <1>2, AppendProperties
<1>4. cache' = [cache EXCEPT ![timeId] = IF @ = 0 THEN n ELSE @]
  BY DEF CreatePending
<1>5. Entry'
  <2>1. cache \in [0 .. Buckets - 1 -> 0 .. n]
    BY <1>3, Parts DEF Entry
  <2>2. cache' \in [0 .. Buckets - 1 -> 0 .. n]
    <3>1. timeId \in 0 .. Buckets - 1
      BY ConstantsOK, Parts DEF ConstantsOK, Wheel
    <3>2. cache[timeId] \in 0 .. n /\ n \in 0 .. n
      BY <1>3, <2>1, <3>1
    <3>3. (IF cache[timeId] = 0 THEN n ELSE cache[timeId]) \in 0 .. n
      BY <3>2
    <3>4. cache' = [cache EXCEPT ![timeId] =
                        IF cache[timeId] = 0 THEN n ELSE cache[timeId]]
      BY <1>4, <2>1, <3>1
    <3> QED
      BY <2>1, <3>3, <3>4
  <2> QED
    BY <1>3, <2>2 DEF Entry
<1>6. Threads'
  <2>1. io' = [io EXCEPT ![t].pc = "handle", ![t].obj = n]
    BY DEF CreatePending
  <2> QED
    BY <1>3, <2>1, Parts DEF Threads, HoldsEntry, Thread, Stage
<1>7. ServerTables' /\ Wheel' /\ Client' /\ Network'
  BY Parts DEF CreatePending, ServerTables, Wheel, Client, Network
<1> QED
  BY <1>5, <1>6, <1>7, PartsNext

(* A step that writes to one entry and leaves the table alone. *)
LEMMA EntryWrite ==
    ASSUME Entry, NEW e \in 1 .. Len(pendings), NEW p \in Pending,
           pendings' = [pendings EXCEPT ![e] = p], cache' = cache
    PROVE  Entry' /\ Len(pendings') = Len(pendings)
  BY EntryUpdate DEF Entry

(* The steps of a thread that write to its entry. *)
LEMMA HandleTypes ==
    ASSUME TypeInv, NEW t \in IoThreads, HandleConnectionless(t) PROVE TypeInv'
<1> DEFINE e == io[t].obj
<1>1. e \in 1 .. Len(pendings) /\ pendings[e] \in Pending /\ now \in Time
  BY HeldEntry, Parts DEF HandleConnectionless, Wheel
<1>2. \E p \in Pending : pendings' = [pendings EXCEPT ![e] = p]
  <2>1. /\ [pendings[e] EXCEPT !.activity = now] \in Pending
        /\ [pendings[e] EXCEPT !.activity = now, !.type = "Challenge"] \in Pending
    BY <1>1 DEF Pending, PendingType
  <2>2. pendings \in Seq(Pending)
    BY Parts DEF Entry
  <2>3. \/ pendings' = [pendings EXCEPT ![e] =
                            [pendings[e] EXCEPT !.activity = now, !.type = "Challenge"]]
        \/ pendings' = [pendings EXCEPT ![e] = [pendings[e] EXCEPT !.activity = now]]
    BY <1>1, <2>2 DEF HandleConnectionless
  <2> QED
    BY <2>1, <2>3
<1>3. Entry' /\ Len(pendings') = Len(pendings)
  BY <1>1, <1>2, EntryWrite, Parts DEF HandleConnectionless
<1>4. Threads'
  BY <1>1, <1>3, GotoTypes, Parts DEF HandleConnectionless, Stage
<1>5. ServerTables' /\ Wheel' /\ Client' /\ Network'
  BY Parts DEF HandleConnectionless, ServerTables, Wheel, Client, Network
<1> QED
  BY <1>3, <1>4, <1>5, PartsNext

LEMMA BeginChallengeTypes ==
    ASSUME TypeInv, NEW t \in IoThreads, BeginChallenge(t) PROVE TypeInv'
<1> DEFINE e == io[t].obj
<1>1. e \in 1 .. Len(pendings) /\ pendings[e] \in Pending /\ now \in Time
  BY HeldEntry, Parts DEF BeginChallenge, Wheel
<1>2. [pendings[e] EXCEPT !.cookieTime = now] \in Pending
  BY <1>1 DEF Pending
<1>3. Entry' /\ Len(pendings') = Len(pendings)
  BY <1>1, <1>2, EntryWrite, Parts DEF BeginChallenge
<1>4. Threads'
  <2>1. io[t] \in Thread(Len(pendings)) /\ pendings[e].type \in PendingType
    BY <1>1, Parts DEF Threads, Pending
  <2>2. [io[t] EXCEPT !.pc = "challenge", !.type = pendings[e].type].obj # 0
    <3>1. e # 0
      BY <1>1
    <3> QED
      BY <2>1, <3>1 DEF Thread
  <2>4. [io[t] EXCEPT !.pc = "challenge", !.type = pendings[e].type] \in Thread(Len(pendings))
    BY <2>1 DEF Thread, Stage
  <2>3. io' = [io EXCEPT ![t] = [io[t] EXCEPT !.pc = "challenge", !.type = pendings[e].type]]
    BY Parts DEF BeginChallenge, Threads
  <2> QED
    BY <1>3, <2>2, <2>4, <2>3, ThreadUpdate, Parts
<1>5. ServerTables' /\ Wheel' /\ Client' /\ Network'
  BY Parts DEF BeginChallenge, ServerTables, Wheel, Client, Network
<1> QED
  BY <1>3, <1>4, <1>5, PartsNext

LEMMA AcceptTypes ==
    ASSUME TypeInv, NEW t \in IoThreads, AcceptResponse(t) PROVE TypeInv'
<1> DEFINE e == io[t].obj
           c == io[t].msg.cookie
           p == [pendings[e] EXCEPT !.type = "Ack", !.serverSeq = ServerByte[c],
                                    !.clientSeq = ClientByte[c]]
<1>1. e \in 1 .. Len(pendings) /\ pendings[e] \in Pending
  BY HeldEntry, Parts DEF AcceptResponse
<1>2. ServerByte[c] \in 0 .. 255 /\ ClientByte[c] \in 0 .. 255
  BY ConstantsOK, Parts DEF ConstantsOK, Threads, Thread, Message
<1>3. p \in Pending
  BY <1>1, <1>2 DEF Pending, PendingType
<1>4. Entry' /\ Len(pendings') = Len(pendings)
  BY <1>1, <1>3, EntryWrite, Parts DEF AcceptResponse
<1>5. Threads'
  BY <1>1, <1>4, GotoTypes, Parts DEF AcceptResponse, Stage
<1>6. ServerTables' /\ Wheel' /\ Client' /\ Network'
  BY Parts DEF AcceptResponse, ServerTables, Wheel, Client, Network
<1> QED
  BY <1>4, <1>5, <1>6, PartsNext

(* The steps of a thread that send, and the others. *)
LEMMA SendTypes ==
    ASSUME Network, NEW m \in Message, NEW arrives
    PROVE  Send(toServer, m, arrives) \subseteq Message
           /\ Send(toClient, m, arrives) \subseteq Message
  BY DEF Network, Send

LEMMA AckTypes ==
    ASSUME NEW p \in Pending, NEW m \in Message
    PROVE  ChallengeAck(p, m) \in Message
  BY DEF ChallengeAck, Pending, Message, PendingType

LEMMA SendChallengeTypes ==
    ASSUME TypeInv, NEW t \in IoThreads, NEW arrives, SendConnectChallenge(t, arrives)
    PROVE  TypeInv'
<1> DEFINE c == pendings[io[t].obj].cookieTime
           m == [type |-> io[t].type, stamp |-> c, cookie |-> c]
<1>1. pendings[io[t].obj] \in Pending /\ io[t].type \in PendingType
  BY HeldEntry, Parts DEF SendConnectChallenge, Threads, Thread
<1>2. m \in Message
  BY <1>1 DEF Pending, Message, PendingType
<1>3. Network'
  BY <1>2, SendTypes, Parts DEF SendConnectChallenge, Network
<1>4. Threads'
  BY IdleTypes, Parts DEF SendConnectChallenge
<1>5. ServerTables' /\ Entry' /\ Wheel' /\ Client'
  BY Parts DEF SendConnectChallenge, ServerTables, Entry, Wheel, Client
<1> QED
  BY <1>3, <1>4, <1>5, PartsNext

LEMMA SendAckTypes ==
    ASSUME TypeInv, NEW t \in IoThreads, NEW arrives, SendChallengeAck(t, arrives)
    PROVE  TypeInv'
<1>1. ChallengeAck(pendings[io[t].obj], io[t].msg) \in Message
  BY HeldEntry, AckTypes, Parts DEF SendChallengeAck, Threads, Thread
<1>2. Network'
  BY <1>1, SendTypes, Parts DEF SendChallengeAck, Network
<1>3. Threads'
  BY IdleTypes, Parts DEF SendChallengeAck
<1>4. ServerTables' /\ Entry' /\ Wheel' /\ Client'
  BY Parts DEF SendChallengeAck, ServerTables, Entry, Wheel, Client
<1> QED
  BY <1>2, <1>3, <1>4, PartsNext

LEMMA VerifyTypes ==
    ASSUME TypeInv, NEW t \in IoThreads, VerifyResponse(t) PROVE TypeInv'
<1>1. io[t].obj # 0
  BY HeldEntry, Parts DEF VerifyResponse
<1>2. Threads'
  BY <1>1, GotoTypes, IdleTypes, Parts DEF VerifyResponse, Stage
<1>3. ServerTables' /\ Entry' /\ Wheel' /\ Client' /\ Network'
  BY Parts DEF VerifyResponse, ServerTables, Entry, Wheel, Client, Network
<1> QED
  BY <1>2, <1>3, PartsNext

LEMMA AddClientTypes ==
    ASSUME TypeInv, NEW t \in IoThreads, AddClient(t) PROVE TypeInv'
<1> DEFINE p == pendings[io[t].obj]
<1>1. p \in Pending /\ io[t].obj # 0
  BY HeldEntry, Parts DEF AddClient
<1>2. NewConnection(p) \in Connection
  BY <1>1 DEF NewConnection, Connection, Pending
<1>3. conns \in Seq(Connection) /\ conns' = Append(conns, NewConnection(p))
  BY Parts DEF AddClient, ServerTables
<1>4. conns' \in Seq(Connection) /\ Len(conns') = Len(conns) + 1 /\ Len(conns) \in Nat
  BY <1>2, <1>3, AppendProperties
<1>5. ServerTables'
  BY <1>4, Parts DEF AddClient, ServerTables
<1>6. Threads'
  BY <1>1, GotoTypes, Parts DEF AddClient, Stage
<1>7. Entry' /\ Wheel' /\ Client' /\ Network'
  BY Parts DEF AddClient, Entry, Wheel, Client, Network
<1> QED
  BY <1>5, <1>6, <1>7, PartsNext

(* The steps of the workers, of the tick thread and of the client. *)
LEMMA RunJobTypes ==
    ASSUME TypeInv, NEW j, NEW arrives, RunJob(j, arrives) PROVE TypeInv'
<1>1. j.msg \in Message /\ now \in Time
  BY Parts DEF RunJob, ServerTables, Wheel
<1>2. Entry' /\ Len(pendings') = Len(pendings) /\ Network'
  <2>1. CASE UNCHANGED <<pendings, toClient>>
    BY <2>1, Parts DEF RunJob, Entry, Network
  <2>2. ASSUME NEW e \in Entries, pendings' = [pendings EXCEPT ![e].activity = now],
               toClient' = IF ResendsAck(pendings[e], j.msg)
                           THEN Send(toClient, ChallengeAck(pendings[e], j.msg), arrives)
                           ELSE toClient
        PROVE  Entry' /\ Len(pendings') = Len(pendings) /\ Network'
    <3>1. e \in 1 .. Len(pendings) /\ pendings[e] \in Pending
      BY Parts DEF Entries, Entry
    <3>2. [pendings[e] EXCEPT !.activity = now] \in Pending
      BY <1>1, <3>1 DEF Pending
    <3>3. pendings' = [pendings EXCEPT ![e] = [pendings[e] EXCEPT !.activity = now]]
      BY <2>2, <3>1, Parts DEF Entry
    <3>4. Entry' /\ Len(pendings') = Len(pendings)
      BY <3>1, <3>2, <3>3, EntryWrite, Parts DEF RunJob
    <3>5. Network'
      BY <1>1, <2>2, <3>1, AckTypes, SendTypes, Parts DEF RunJob, Network
    <3> QED
      BY <3>4, <3>5
  <2> QED
    BY <2>1, <2>2 DEF RunJob
<1>3. ServerTables' /\ Wheel' /\ Threads' /\ Client'
  BY <1>2, Parts DEF RunJob, ServerTables, Wheel, Threads, HoldsEntry, Client
<1> QED
  BY <1>2, <1>3, PartsNext

LEMMA TickTypes == ASSUME TypeInv, TickHousekeeping PROVE TypeInv'
<1>1. Buckets \in Nat \ {0} /\ MaxTime \in Nat
  BY ConstantsOK DEF ConstantsOK
<1>2. Wheel'
  <2>1. now' \in Time
    BY <1>1, Parts DEF TickHousekeeping, Wheel, Time
  <2>2. cleanup' \in 0 .. Buckets - 1
    BY <1>1, Parts DEF TickHousekeeping, Wheel
  <2>3. timeId' = Buckets - 1
    BY WheelStands, Parts DEF TickHousekeeping, Wheel
  <2> QED
    BY <2>1, <2>2, <2>3 DEF Wheel
<1>3. Entry'
  <2>1. cache \in [0 .. Buckets - 1 -> 0 .. Len(pendings)] /\ 0 \in 0 .. Len(pendings)
    BY Parts DEF Entry
  <2>2. TimeKill(cleanup', now') \in [0 .. Buckets - 1 -> 0 .. Len(pendings)]
    BY <2>1 DEF TimeKill
  <2> QED
    BY <2>2, Parts DEF TickHousekeeping, Entry
<1>4. ServerTables' /\ Threads' /\ Client' /\ Network'
  BY Parts DEF TickHousekeeping, ServerTables, Threads, HoldsEntry, Client, Network
<1> QED
  BY <1>2, <1>3, <1>4, PartsNext

LEMMA CloseTypes == ASSUME TypeInv, NEW c, Close(c) PROVE TypeInv'
<1>1. conns \in Seq(Connection) /\ c \in 1 .. Len(conns) /\ conns[c] \in Connection
  BY Parts DEF Close, ServerTables
<1>2. [conns[c] EXCEPT !.closed = TRUE] \in Connection
  BY <1>1 DEF Connection
<1>3. conns' = [conns EXCEPT ![c] = [conns[c] EXCEPT !.closed = TRUE]]
  BY <1>1 DEF Close
<1>4. conns' \in Seq(Connection) /\ Len(conns') = Len(conns)
  BY <1>1, <1>2, <1>3, ExceptSeq
<1>5. ServerTables'
  BY <1>1, <1>4, Parts DEF Close, ServerTables
<1>6. Entry' /\ Wheel' /\ Threads' /\ Client' /\ Network'
  BY Parts DEF Close, Entry, Wheel, Threads, HoldsEntry, Client, Network
<1> QED
  BY <1>5, <1>6, PartsNext

LEMMA ReceiveChallengeTypes ==
    ASSUME TypeInv, NEW m, NEW arrives, ReceiveChallenge(m, arrives) PROVE TypeInv'
<1>1. Response(m) \in Message
  BY Parts DEF ReceiveChallenge, Network, Response, Message
<1>2. Client'
  BY <1>1, Parts DEF ReceiveChallenge, Client
<1>3. Network'
  BY <1>1, SendTypes, Parts DEF ReceiveChallenge, Network, Received
<1>4. ServerTables' /\ Entry' /\ Wheel' /\ Threads'
  BY Parts DEF ReceiveChallenge, ServerTables, Entry, Wheel, Threads, HoldsEntry
<1> QED
  BY <1>2, <1>3, <1>4, PartsNext

LEMMA ReceiveAckTypes == ASSUME TypeInv, NEW m, ReceiveAck(m) PROVE TypeInv'
<1>1. ServerByte[m.cookie] \in -1 .. 255 /\ ClientByte[m.cookie] \in -1 .. 255
  BY ConstantsOK, Parts DEF ReceiveAck, Network, Message, ConstantsOK
<1>2. Client'
  BY <1>1, Parts DEF ReceiveAck, Client
<1>3. Network'
  BY Parts DEF ReceiveAck, Network, Received
<1>4. ServerTables' /\ Entry' /\ Wheel' /\ Threads'
  BY Parts DEF ReceiveAck, ServerTables, Entry, Wheel, Threads, HoldsEntry
<1> QED
  BY <1>2, <1>3, <1>4, PartsNext

LEMMA ResendTypes ==
    ASSUME TypeInv, NEW arrives, ResendRead \/ ResendSend(arrives) PROVE TypeInv'
<1>1. Client' /\ Network'
  BY SendTypes, Parts DEF ResendRead, ResendSend, Client, Network
<1>2. ServerTables' /\ Entry' /\ Wheel' /\ Threads'
  BY Parts DEF ResendRead, ResendSend, ServerTables, Entry, Wheel, Threads, HoldsEntry
<1> QED
  BY <1>1, <1>2, PartsNext

(* Every step of an I/O thread keeps the types. *)
LEMMA IoTypes == ASSUME TypeInv, NEW t \in IoThreads, IoStep(t) PROVE TypeInv'
  BY FindPendingTypes, CreatePendingTypes, HandleTypes, VerifyTypes, AcceptTypes,
     AddClientTypes, BeginChallengeTypes, SendChallengeTypes, SendAckTypes DEF IoStep

LEMMA NextTypes == TypeInv /\ [Next]_vars => TypeInv'
<1> SUFFICES ASSUME TypeInv, [Next]_vars PROVE TypeInv'
  OBVIOUS
<1>1. CASE Next
  BY <1>1, IoTypes, RouteTypes, RunJobTypes, TickTypes, CloseTypes, ReceiveChallengeTypes,
     ReceiveAckTypes, ResendTypes DEF Next
<1>2. CASE UNCHANGED vars
  BY <1>2, Parts, PartsNext DEF ServerTables, Entry, Wheel, Threads, HoldsEntry, Client, Network
<1> QED
  BY <1>1, <1>2

-----------------------------------------------------------------------------
(* The types hold for any number of I/O threads, any lifetimes, any size of
   the wheel and any network: in particular no step writes to an entry that
   was never made, and new entries always go to a bucket of the wheel
   (UdpPacketProcessor.cpp:586). *)
THEOREM HandshakeTypes == Spec => []TypeOK
<1>1. Spec => []TypeInv
  BY InitTypes, NextTypes, PTL DEF Spec
<1>2. TypeInv => TypeOK
  BY DEF TypeInv
<1> QED
  BY <1>1, <1>2, PTL

-----------------------------------------------------------------------------
(* A lone thread that goes through the handshake has found the address in no
   connection, and nobody else can have put one there since. *)
Handshaking == {"find", "create", "handle", "header", "challenge", "verify", "accept", "add"}
AloneInv == OnePerClient /\ \A t \in IoThreads : io[t].pc \in Handshaking => routed = 0

(* The steps that leave the connection table alone: they only take a thread
   into the handshake where the address has no connection. *)
LEMMA TableKept ==
    ASSUME AloneInv, UNCHANGED <<routed, remote>>,
           \A t \in IoThreads : io'[t].pc \in Handshaking
                                => io[t].pc \in Handshaking \/ routed = 0
    PROVE  AloneInv'
  BY DEF AloneInv, OnePerClient

LEMMA RouteAlone ==
    ASSUME TypeInv, AloneInv, NEW t \in IoThreads, NEW m, Route(t, m) PROVE AloneInv'
  BY TableKept, Parts DEF Route, Threads

LEMMA IoAlone ==
    ASSUME TypeInv, AloneInv, NEW t0, IoThreads = {t0}, NEW t \in IoThreads, IoStep(t)
    PROVE  AloneInv'
<1>1. CASE AddClient(t)
  <2>1. routed = 0 /\ remote = {}
    BY <1>1 DEF AloneInv, OnePerClient, AddClient, Handshaking
  <2>2. routed' = Len(conns) + 1 /\ remote' = {Len(conns) + 1} /\ Len(conns) \in Nat
    BY <1>1, <2>1, Parts DEF AddClient, ServerTables
  <2>3. OnePerClient'
    BY <2>2 DEF OnePerClient
  <2>4. io'[t].pc = "ack"
    BY <1>1, Parts DEF AddClient, Goto, Threads, Thread
  <2> QED
    BY <2>3, <2>4 DEF AloneInv, Handshaking
<1>2. CASE ~AddClient(t)
  <2>1. UNCHANGED <<routed, remote>>
    BY <1>2 DEF IoStep, FindPending, CreatePending, HandleConnectionless, VerifyResponse,
         AcceptResponse, BeginChallenge, SendConnectChallenge, SendChallengeAck
  <2>2. io'[t].pc \in Handshaking => io[t].pc \in Handshaking
    BY <1>2, IdleThread, Parts
       DEF IoStep, FindPending, CreatePending, HandleConnectionless, VerifyResponse,
           AcceptResponse, BeginChallenge, SendConnectChallenge, SendChallengeAck,
           Goto, Threads, Thread, Handshaking
  <2> QED
    BY <2>1, <2>2, TableKept
<1> QED
  BY <1>1, <1>2

LEMMA CloseAlone ==
    ASSUME TypeInv, AloneInv, NEW c, Close(c) PROVE AloneInv'
<1>1. c # 0
  BY Parts DEF Close, ServerTables
<1>2. OnePerClient'
  BY <1>1 DEF AloneInv, OnePerClient, Close
<1> QED
  BY <1>2 DEF AloneInv, Close

LEMMA OthersAlone ==
    ASSUME AloneInv,
           \/ \E j, arrives : RunJob(j, arrives)
           \/ TickHousekeeping
           \/ \E m, arrives : ReceiveChallenge(m, arrives)
           \/ \E m : ReceiveAck(m)
           \/ ResendRead
           \/ \E arrives : ResendSend(arrives)
           \/ UNCHANGED vars
    PROVE  AloneInv'
  BY TableKept DEF RunJob, TickHousekeeping, ReceiveChallenge, ReceiveAck, ResendRead, ResendSend

(* With one I/O thread (NET_IO_THREADS = 1; the default of a server is two,
   where TLC finds a counterexample), the table that routes datagrams and the
   list the tick thread visits agree (IpNetDriver.cpp:563-573), however
   lifetimes, losses and closings fall. *)
THEOREM OnePerClientAlone ==
    ASSUME NEW t0, IoThreads = {t0} PROVE Spec => []OnePerClient
<1>1. Init => AloneInv
  BY DEF Init, AloneInv, OnePerClient, Idle, Handshaking
<1>2. TypeInv /\ AloneInv /\ [Next]_vars => AloneInv'
  BY RouteAlone, IoAlone, CloseAlone, OthersAlone DEF Next
<1>3. Spec => []TypeInv
  BY InitTypes, NextTypes, PTL DEF Spec
<1>4. AloneInv => OnePerClient
  BY DEF AloneInv
<1> QED
  BY <1>1, <1>2, <1>3, <1>4, PTL DEF Spec

-----------------------------------------------------------------------------
(***************************************************************************)
(* Acks.  With one I/O thread a cookie is answered in the order it was     *)
(* made: no cookie that the client holds is younger than that of the       *)
(* server's entry, and once the client is connected each of them is the    *)
(* cookie of a connection or older than the entry's.  A job of an earlier  *)
(* connection can therefore not announce one that has yet to be made.      *)
(***************************************************************************)
EmptyHanded == {"idle", "find", "create"}

\* A connection with the numbers of cookie k has been made.
Made(k) == \E c \in DOMAIN conns : conns[c].out = ServerByte[k] /\ conns[c].in = ClientByte[k]

\* The entries in the table and the one in the hands of the thread.
Live == {e \in 1 .. Len(pendings) :
            e \in Entries \/ \E t \in IoThreads : io[t].pc \notin EmptyHanded /\ io[t].obj = e}

\* Cookies on their way to the client, with it, or on their way back.
Answers == toServer \cup resend \cup {client.last}
IsOut(k) ==
    \/ \E m \in toClient : m.type = "Challenge" /\ m.cookie = k
    \/ \E m \in Answers : m.type = "Response" /\ m.cookie = k

Past(k) == Made(k) \/ (k < now /\ \A e \in Live : k < pendings[e].cookieTime)

InTime ==
    /\ \A e \in Live : pendings[e].cookieTime <= now
    /\ \A k \in Time : IsOut(k) => k <= now /\ \A e \in Live : k <= pendings[e].cookieTime
AnswersPast == routed # 0 => \A k \in Time : IsOut(k) => Past(k)
JobsPast == \A j \in jobs : j.msg.type = "Response" => Past(j.msg.cookie)
Cookies == InTime /\ AnswersPast /\ JobsPast /\ AcksAgree

\* What the thread knows at each stage of the handshake.
Knows(t) ==
    /\ io[t].pc = "create" => Entries = {}
    /\ io[t].pc \notin EmptyHanded => Entries \subseteq {io[t].obj}
    /\ io[t].pc \in {"accept", "add"} => pendings[io[t].obj].cookieTime = io[t].msg.cookie
    /\ io[t].pc = "add" => /\ pendings[io[t].obj].serverSeq = ServerByte[io[t].msg.cookie]
                           /\ pendings[io[t].obj].clientSeq = ClientByte[io[t].msg.cookie]
    /\ io[t].pc = "ack" => Made(io[t].msg.cookie)
    /\ io[t].pc \in {"add", "ack"} => pendings[io[t].obj].type = "Ack"
ThreadsKnow == \A t \in IoThreads : Knows(t)

\* Entries are only ever made in the last bucket.
LastBucketOnly == \A b \in DOMAIN cache : cache[b] # 0 => b = Buckets - 1

AcksInv == Cookies /\ ThreadsKnow /\ LastBucketOnly

\* Times are numbers.
LEMMA TimeIsNat == Time \subseteq Nat
BY ConstantsOK DEF Time, ConstantsOK

LEMMA LiveEntry ==
  ASSUME TypeInv, NEW e \in Live
  PROVE  e \in 1 .. Len(pendings) /\ pendings[e] \in Pending /\ pendings[e].cookieTime \in Time
<1>1. e \in 1 .. Len(pendings) /\ pendings \in Seq(Pending)
  BY Parts DEF Live, Entry
<1>2. pendings[e] \in Pending
  BY <1>1
<1> QED
  BY <1>1, <1>2 DEF Pending

(* What is past stays past, whatever entries are made or renewed. *)
LEMMA PastStays ==
  ASSUME TypeInv, now' \in Nat, now' >= now,
         \A e \in Live' : \/ e \in Live /\ pendings'[e].cookieTime = pendings[e].cookieTime
                          \/ pendings'[e].cookieTime = now',
         NEW k \in Time, Past(k), Made(k) => Made(k)'
  PROVE  Past(k)'
<1>1. CASE Made(k)
  BY <1>1 DEF Past
<1>2. CASE ~Made(k)
  <2>1. k \in Nat /\ now \in Nat
    BY TimeIsNat, Parts DEF Wheel
  <2>2. k < now /\ \A e \in Live : k < pendings[e].cookieTime
    BY <1>2 DEF Past
  <2>3. k < now'
    BY <2>1, <2>2
  <2>4. \A e \in Live' : k < pendings'[e].cookieTime
    BY <2>2, <2>3
  <2> QED
    BY <2>3, <2>4 DEF Past
<1> QED
  BY <1>1, <1>2

(* The steps' common part: time goes on, entries in use keep their cookie or  *)
(* get one of this moment, and what is new on the network is in time.         *)
LEMMA CookiesKept ==
  ASSUME TypeInv, TypeInv', Cookies, now' >= now,
         \A e \in Live' : \/ e \in Live /\ pendings'[e].cookieTime = pendings[e].cookieTime
                          \/ pendings'[e].cookieTime = now',
         \A k \in Time : Made(k) => Made(k)',
         \A k \in Time : IsOut(k)' =>
            \/ IsOut(k)
            \/ routed' = 0 /\ k <= now' /\ \A e \in Live' : k <= pendings'[e].cookieTime,
         routed' # 0 => routed # 0 \/ \A k \in Time : IsOut(k)' => Past(k)',
         \A j \in jobs' : \/ j \in jobs
                          \/ routed # 0 /\ j.msg \in toServer,
         \A m \in toClient' : \/ m \in toClient
                              \/ ~(m.type = "Ack" /\ m.stamp < 0)
                              \/ Made(m.cookie)'
  PROVE  Cookies'
<1>1. now \in Nat /\ now' \in Nat
  <2>1. now \in Time /\ now' \in Time
    BY Parts, PartsNext DEF Wheel
  <2> QED
    BY <2>1, TimeIsNat
<1>2. \A k \in Time : Past(k) => Past(k)'
  BY <1>1, PastStays
<1>3. InTime'
  <2>1. \A e \in Live' : pendings'[e].cookieTime <= now'
    <3> SUFFICES ASSUME NEW e \in Live' PROVE pendings'[e].cookieTime <= now'
      OBVIOUS
    <3>1. CASE e \in Live /\ pendings'[e].cookieTime = pendings[e].cookieTime
      <4>1. pendings[e].cookieTime <= now /\ pendings[e].cookieTime \in Nat
        BY <3>1, LiveEntry, TimeIsNat DEF Cookies, InTime
      <4> QED
        BY <1>1, <3>1, <4>1
    <3>2. CASE pendings'[e].cookieTime = now'
      BY <1>1, <3>2
    <3> QED
      BY <3>1, <3>2
  <2>2. ASSUME NEW k \in Time, IsOut(k)'
        PROVE  k <= now' /\ \A e \in Live' : k <= pendings'[e].cookieTime
    <3>1. CASE IsOut(k)
      <4>1. k <= now /\ k \in Nat /\ \A e \in Live : k <= pendings[e].cookieTime
        BY <3>1, TimeIsNat DEF Cookies, InTime
      <4>2. k <= now'
        BY <1>1, <4>1
      <4> QED
        BY <4>1, <4>2
    <3> QED
      BY <2>2, <3>1
  <2> QED
    BY <2>1, <2>2 DEF InTime
<1>4. AnswersPast'
  BY <1>2 DEF Cookies, AnswersPast
<1>5. JobsPast'
  <2> SUFFICES ASSUME NEW j \in jobs', j.msg.type = "Response" PROVE Past(j.msg.cookie)'
    BY DEF JobsPast
  <2>1. CASE j \in jobs
    <3>1. Past(j.msg.cookie) /\ j.msg.cookie \in Time
      BY <2>1, Parts DEF Cookies, JobsPast, ServerTables, Message
    <3> QED
      BY <1>2, <3>1
  <2>2. CASE routed # 0 /\ j.msg \in toServer
    <3>1. j.msg.cookie \in Time /\ IsOut(j.msg.cookie)
      BY <2>2, Parts DEF Network, Message, IsOut, Answers
    <3> QED
      BY <1>2, <2>2, <3>1 DEF Cookies, AnswersPast
  <2> QED
    BY <2>1, <2>2
<1>6. AcksAgree'
  <2> SUFFICES ASSUME NEW m \in toClient', m.type = "Ack", m.stamp < 0 PROVE Made(m.cookie)'
    BY DEF AcksAgree, Made
  <2>1. CASE m \in toClient
    <3>1. Made(m.cookie) /\ m.cookie \in Time
      BY <2>1, Parts DEF Cookies, AcksAgree, Made, Network, Message
    <3> QED
      BY <3>1
  <2> QED
    BY <2>1
<1> QED
  BY <1>3, <1>4, <1>5, <1>6 DEF Cookies

(* Steps of other threads leave alone what the I/O thread knows. *)
LEMMA KnowledgeKept ==
  ASSUME TypeInv, ThreadsKnow, UNCHANGED io, Entries' \subseteq Entries,
         \A e \in 1 .. Len(pendings) : /\ pendings'[e].type = pendings[e].type
                                       /\ pendings'[e].cookieTime = pendings[e].cookieTime
                                       /\ pendings'[e].serverSeq = pendings[e].serverSeq
                                       /\ pendings'[e].clientSeq = pendings[e].clientSeq,
         \A k \in Time : Made(k) => Made(k)'
  PROVE  ThreadsKnow'
<1> SUFFICES ASSUME NEW t \in IoThreads PROVE Knows(t)'
  BY DEF ThreadsKnow
<1>1. Knows(t) /\ io[t].msg.cookie \in Time
  BY Parts DEF ThreadsKnow, Threads, Thread, Message
<1>2. CASE io[t].pc \in EmptyHanded
  <2>1. io[t].pc \notin {"accept", "add", "ack"}
    BY <1>2 DEF EmptyHanded
  <2> QED
    BY <1>1, <1>2, <2>1 DEF Knows
<1>3. CASE io[t].pc \notin EmptyHanded
  <2>1. io[t].obj \in 1 .. Len(pendings)
    BY <1>3, HeldEntry, Parts DEF EmptyHanded
  <2> QED
    BY <1>1, <1>3, <2>1 DEF Knows
<1> QED
  BY <1>2, <1>3

(* With the entries as they are and no more connections lost, the entries in  *)
(* use are those of before when none is taken up.                             *)
LEMMA LiveKept ==
  ASSUME TypeInv, Entries' \subseteq Entries, Len(pendings') = Len(pendings),
         \A t \in IoThreads : io'[t].pc \notin EmptyHanded =>
            \/ io[t].pc \notin EmptyHanded /\ io'[t].obj = io[t].obj
            \/ io'[t].obj \in Entries
  PROVE  Live' \subseteq Live
BY DEF Live

LEMMA MadeKept == ASSUME UNCHANGED conns PROVE \A k : Made(k) => Made(k)'
BY DEF Made

LEMMA EntriesKept == ASSUME UNCHANGED cache PROVE Entries' = Entries
BY DEF Entries

LEMMA TickAcks == ASSUME TypeInv, TypeInv', AcksInv, TickHousekeeping PROVE AcksInv'
<1>1. /\ UNCHANGED <<pendings, io, conns, routed, jobs, client, resend, toServer, toClient>>
      /\ now' = now + 1 /\ now \in Nat
  BY TimeIsNat, Parts DEF TickHousekeeping, Wheel
<1>2. \A b \in DOMAIN cache' : cache'[b] # 0 => b \in DOMAIN cache /\ cache'[b] = cache[b]
  BY Parts DEF TickHousekeeping, TimeKill, Entry
<1>3. Entries' \subseteq Entries
  BY <1>2 DEF Entries
<1>4. LastBucketOnly'
  BY <1>2 DEF AcksInv, LastBucketOnly
<1>5. Live' \subseteq Live
  BY <1>1, <1>3, LiveKept
<1>6. Cookies'
  BY <1>1, <1>5, MadeKept, CookiesKept DEF AcksInv, IsOut, Answers
<1>7. ThreadsKnow'
  BY <1>1, <1>3, MadeKept, KnowledgeKept DEF AcksInv
<1> QED
  BY <1>4, <1>6, <1>7 DEF AcksInv

LEMMA CloseAcks == ASSUME TypeInv, TypeInv', AcksInv, NEW c, Close(c) PROVE AcksInv'
<1>1. /\ UNCHANGED <<now, pendings, cache, io, jobs, client, resend, toServer, toClient>>
      /\ routed' \in {0, routed} /\ now \in Nat
  BY TimeIsNat, Parts DEF Close, Wheel
<1>2. \A k : Made(k) => Made(k)'
  <2>1. /\ DOMAIN conns' = DOMAIN conns
        /\ \A d \in DOMAIN conns : conns'[d].out = conns[d].out /\ conns'[d].in = conns[d].in
    BY Parts DEF Close, ServerTables, Connection
  <2> QED
    BY <2>1 DEF Made
<1>3. Entries' = Entries /\ LastBucketOnly'
  BY <1>1 DEF Entries, AcksInv, LastBucketOnly
<1>4. Live' \subseteq Live
  BY <1>1, <1>3, LiveKept
<1>5. Cookies'
  BY <1>1, <1>2, <1>4, CookiesKept DEF AcksInv, IsOut, Answers
<1>6. ThreadsKnow'
  BY <1>1, <1>2, <1>3, KnowledgeKept DEF AcksInv
<1> QED
  BY <1>3, <1>5, <1>6 DEF AcksInv

(* What the client does with a cookie it has or gets. *)
LEMMA ClientAcks ==
  ASSUME TypeInv, TypeInv', AcksInv,
         \/ \E m, arrives : ReceiveChallenge(m, arrives)
         \/ \E m : ReceiveAck(m)
         \/ ResendRead
         \/ \E arrives : ResendSend(arrives)
         \/ UNCHANGED vars
  PROVE  AcksInv'
<1>1. UNCHANGED <<now, pendings, cache, io, conns, routed, jobs>> /\ now \in Nat
  BY TimeIsNat, Parts DEF ReceiveChallenge, ReceiveAck, ResendRead, ResendSend, Wheel
<1>2. toClient' \subseteq toClient
  BY DEF ReceiveChallenge, ReceiveAck, ResendRead, ResendSend, Received
<1>3. \A k \in Time : IsOut(k)' => IsOut(k)
  <2>1. ASSUME NEW m \in Answers', m.type = "Response" PROVE IsOut(m.cookie)
    <3>1. CASE m \in Answers
      BY <2>1, <3>1 DEF IsOut
    <3>2. CASE m \notin Answers
      <4>1. PICK n \in toClient : AcceptsChallenge(n) /\ m = Response(n)
        <5>1. CASE \E x, arrives : ReceiveChallenge(x, arrives)
          <6>1. PICK x, arrives : ReceiveChallenge(x, arrives)
            BY <5>1
          <6>2. client'.last = Response(x)
            BY <6>1, Parts DEF ReceiveChallenge, Client
          <6> QED
            BY <3>2, <6>1, <6>2 DEF ReceiveChallenge, Send, Answers
        <5>2. CASE ~ \E x, arrives : ReceiveChallenge(x, arrives)
          <6>1. \A x : ReceiveAck(x) => client'.last = client.last
            BY Parts DEF ReceiveAck, Client
          <6>2. \A arrives : ResendSend(arrives) => client'.last \in resend
            BY Parts DEF ResendSend, Client
          <6> QED
            BY <2>1, <3>2, <5>2, <6>1, <6>2 DEF ReceiveAck, ResendRead, ResendSend, Send, Answers
        <5> QED
          BY <5>1, <5>2
      <4>2. n.type = "Challenge" /\ m.cookie = n.cookie
        BY <4>1, Parts DEF AcceptsChallenge, Response, Network, Message
      <4> QED
        BY <4>1, <4>2 DEF IsOut
    <3> QED
      BY <3>1, <3>2
  <2> QED
    BY <1>2, <2>1 DEF IsOut
<1>4. Entries' = Entries /\ LastBucketOnly'
  BY <1>1 DEF Entries, AcksInv, LastBucketOnly
<1>5. Live' \subseteq Live
  BY <1>1, <1>4, LiveKept
<1>6. Cookies'
  BY <1>1, <1>2, <1>3, <1>5, MadeKept, CookiesKept DEF AcksInv
<1>7. ThreadsKnow'
  BY <1>1, <1>4, MadeKept, KnowledgeKept DEF AcksInv
<1> QED
  BY <1>4, <1>6, <1>7 DEF AcksInv

(* A job announces the connection of a cookie only when there is one. *)
LEMMA RunJobAcks ==
  ASSUME TypeInv, TypeInv', AcksInv, NEW j, NEW arrives, RunJob(j, arrives) PROVE AcksInv'
<1>1. /\ UNCHANGED <<now, cache, io, conns, routed, client, resend, toServer>> /\ now \in Nat
      /\ j \in jobs /\ jobs' \subseteq jobs
  BY TimeIsNat, Parts DEF RunJob, Wheel
<1>2. Entries' = Entries /\ LastBucketOnly' /\ Entries \subseteq 1 .. Len(pendings)
  BY <1>1, Parts DEF Entries, AcksInv, LastBucketOnly, Entry
<1>3. /\ Len(pendings') = Len(pendings)
      /\ \A e \in 1 .. Len(pendings) : /\ pendings'[e].type = pendings[e].type
                                       /\ pendings'[e].cookieTime = pendings[e].cookieTime
                                       /\ pendings'[e].serverSeq = pendings[e].serverSeq
                                       /\ pendings'[e].clientSeq = pendings[e].clientSeq
  <2>1. pendings \in Seq(Pending) /\ \A e \in 1 .. Len(pendings) : pendings[e] \in Pending
    BY Parts DEF Entry
  <2>2. CASE \E e \in Entries : pendings' = [pendings EXCEPT ![e].activity = now]
    <3>1. PICK e \in Entries : pendings' = [pendings EXCEPT ![e].activity = now]
      BY <2>2
    <3> QED
      BY <2>1, <3>1, <1>2 DEF Pending
  <2> QED
    BY <2>2 DEF RunJob
<1>4. \A m \in toClient' : m \in toClient \/ (m.type = "Ack" /\ Made(m.cookie))
  <2> SUFFICES ASSUME NEW m \in toClient', m \notin toClient PROVE m.type = "Ack" /\ Made(m.cookie)
    OBVIOUS
  <2>1. PICK e \in Entries : ResendsAck(pendings[e], j.msg) /\ m = ChallengeAck(pendings[e], j.msg)
    BY DEF RunJob, Send
  <2>2. /\ j.msg.type = "Response" /\ pendings[e].type = "Ack" /\ j.msg.cookie = pendings[e].cookieTime
        /\ m.type = "Ack" /\ m.cookie = j.msg.cookie
    BY <2>1 DEF ResendsAck, ChallengeAck
  <2>3. Past(j.msg.cookie)
    BY <1>1, <2>2 DEF AcksInv, Cookies, JobsPast
  <2>4. e \in Live /\ pendings[e].cookieTime \in Nat
    BY <1>2, TimeIsNat, LiveEntry DEF Live
  <2>5. ~(pendings[e].cookieTime < pendings[e].cookieTime)
    BY <2>4
  <2> QED
    BY <2>2, <2>3, <2>4, <2>5 DEF Past
<1>5. Live' \subseteq Live /\ \A e \in Live : e \in 1 .. Len(pendings)
  BY <1>1, <1>2, <1>3, LiveKept DEF Live
<1>6. Cookies'
  <2>1. \A k \in Time : IsOut(k)' => IsOut(k)
    BY <1>1, <1>4 DEF IsOut, Answers
  <2>2. \A m \in toClient' : m \in toClient \/ ~(m.type = "Ack" /\ m.stamp < 0) \/ Made(m.cookie)'
    BY <1>1, <1>4, MadeKept
  <2> QED
    BY <1>1, <1>3, <1>5, <2>1, <2>2, MadeKept, CookiesKept DEF AcksInv
<1>7. ThreadsKnow'
  BY <1>1, <1>2, <1>3, MadeKept, KnowledgeKept DEF AcksInv
<1> QED
  BY <1>2, <1>6, <1>7 DEF AcksInv

(* What a lone thread that only moves on, or is done, has in its hands. *)
LEMMA GotoFields ==
  ASSUME TypeInv, NEW t \in IoThreads, NEW pc, Goto(t, pc)
  PROVE  io'[t].pc = pc /\ io'[t].obj = io[t].obj /\ io'[t].msg = io[t].msg
BY Parts DEF Goto, Threads, Thread

LEMMA KnowsNothing ==
  ASSUME NEW t, io'[t].pc \in {"idle", "find"} PROVE Knows(t)'
BY DEF Knows, EmptyHanded

LEMMA HeldAlone ==
  ASSUME TypeInv, ThreadsKnow, NEW t, IoThreads = {t}
  PROVE  io[t].pc \notin EmptyHanded => Live \subseteq {io[t].obj}
BY DEF ThreadsKnow, Knows, Live

LEMMA RouteAcks ==
  ASSUME TypeInv, TypeInv', AcksInv, NEW t, IoThreads = {t}, NEW m, Route(t, m) PROVE AcksInv'
<1>1. /\ UNCHANGED <<now, pendings, cache, conns, routed, client, resend, toClient>> /\ now \in Nat
      /\ toServer' \subseteq toServer /\ io[t].pc = "idle"
  BY TimeIsNat, Parts DEF Route, Received, Wheel
<1>2. Entries' = Entries /\ LastBucketOnly'
  BY <1>1 DEF Entries, AcksInv, LastBucketOnly
<1>3. io'[t].pc \in {"idle", "find"}
  <2>1. CASE routed = 0
    <3>1. m \in Message /\ "find" \in Stage
      BY Parts DEF Route, Network, Stage
    <3>2. [Idle EXCEPT !.pc = "find", !.msg = m].pc = "find"
      BY <3>1, IdleThread, Parts
    <3> QED
      BY <2>1, <3>2, Parts DEF Route, Threads
  <2>2. CASE routed # 0
    BY <1>1, <2>2 DEF Route
  <2> QED
    BY <2>1, <2>2
<1>4. ThreadsKnow'
  BY <1>3, KnowsNothing DEF ThreadsKnow
<1>5. Live' \subseteq Live
  BY <1>1, <1>2, <1>3, LiveKept DEF EmptyHanded
<1>6. \A j \in jobs' : j \in jobs \/ (routed # 0 /\ j.msg \in toServer)
  BY DEF Route
<1>7. \A k \in Time : IsOut(k)' => IsOut(k)
  BY <1>1 DEF IsOut, Answers
<1>8. Cookies'
  BY <1>1, <1>5, <1>6, <1>7, MadeKept, CookiesKept DEF AcksInv
<1> QED
  BY <1>2, <1>4, <1>8 DEF AcksInv

(* An address has one entry in the table at most: they are all in one bucket. *)
LEMMA OneEntry ==
  ASSUME TypeInv, LastBucketOnly PROVE Entries \subseteq {cache[Buckets - 1]}
BY DEF Entries, LastBucketOnly

LEMMA FindPendingAcks ==
  ASSUME TypeInv, TypeInv', AcksInv, NEW t, IoThreads = {t}, FindPending(t) PROVE AcksInv'
<1>1. /\ UNCHANGED <<now, pendings, cache, conns, routed, jobs, client, resend, toServer, toClient>>
      /\ now \in Nat /\ io[t].pc = "find"
  BY TimeIsNat, Parts DEF FindPending, Wheel
<1>2. Entries' = Entries /\ LastBucketOnly'
  BY <1>1 DEF Entries, AcksInv, LastBucketOnly
<1>3. \/ io'[t].pc = "handle" /\ io'[t].obj \in Entries
      \/ io'[t].pc = "create" /\ Entries = {}
  BY GotoFields, Parts DEF FindPending, Threads, Thread
<1>4. ThreadsKnow'
  <2>1. io'[t].pc = "handle" => Entries \subseteq {io'[t].obj}
    BY <1>3, OneEntry DEF AcksInv
  <2> QED
    BY <1>2, <1>3, <2>1 DEF ThreadsKnow, Knows, EmptyHanded
<1>5. Live' \subseteq Live
  BY <1>1, <1>2, <1>3, LiveKept DEF EmptyHanded
<1>6. Cookies'
  BY <1>1, <1>5, MadeKept, CookiesKept DEF AcksInv, IsOut, Answers
<1> QED
  BY <1>2, <1>4, <1>6 DEF AcksInv

LEMMA CreatePendingAcks ==
  ASSUME TypeInv, TypeInv', AcksInv, NEW t, IoThreads = {t}, CreatePending(t) PROVE AcksInv'
<1> DEFINE new == Len(pendings) + 1
<1>1. /\ UNCHANGED <<now, conns, routed, jobs, client, resend, toServer, toClient>>
      /\ now \in Nat /\ io[t].pc = "create"
  BY TimeIsNat, Parts DEF CreatePending, Wheel
<1>2. Entries = {}
  BY <1>1 DEF AcksInv, ThreadsKnow, Knows
<1>3. cache' = [cache EXCEPT ![Buckets - 1] = new] /\ Buckets - 1 \in DOMAIN cache
  <2>1. timeId = Buckets - 1 /\ Buckets - 1 \in DOMAIN cache
    BY ConstantsOK, Parts DEF Wheel, Entry, ConstantsOK
  <2>2. cache[Buckets - 1] = 0
    BY <1>2, <2>1 DEF Entries
  <2> QED
    BY <2>1, <2>2 DEF CreatePending
<1>4. Entries' \subseteq {new} /\ LastBucketOnly'
  <2>1. \A b \in DOMAIN cache' : cache'[b] # 0 => b = Buckets - 1 /\ cache'[b] = new
    BY <1>2, <1>3 DEF Entries
  <2> QED
    BY <2>1 DEF Entries, LastBucketOnly
<1>5. io'[t].pc = "handle" /\ io'[t].obj = new
  BY Parts DEF CreatePending, Threads, Thread
<1>6. Live' \subseteq {new} /\ pendings'[new].cookieTime = now
  <2>1. Live' \subseteq {new}
    BY <1>4, <1>5 DEF Live
  <2>2. pendings'[new].cookieTime = now
    BY Parts DEF CreatePending, Entry
  <2> QED
    BY <2>1, <2>2
<1>7. ThreadsKnow'
  BY <1>4, <1>5 DEF ThreadsKnow, Knows
<1>8. Cookies'
  BY <1>1, <1>6, MadeKept, CookiesKept DEF AcksInv, IsOut, Answers
<1> QED
  BY <1>4, <1>7, <1>8 DEF AcksInv

(* What the stages of the handshake do to the entry the thread holds. *)
LEMMA HandleAcks ==
  ASSUME TypeInv, TypeInv', AcksInv, NEW t, IoThreads = {t}, HandleConnectionless(t)
  PROVE  AcksInv'
<1>1. /\ UNCHANGED <<now, cache, conns, routed, jobs, client, resend, toServer, toClient>>
      /\ now \in Nat /\ io[t].pc = "handle"
  BY TimeIsNat, Parts DEF HandleConnectionless, Wheel
<1>2. Entries' = Entries /\ LastBucketOnly'
  BY <1>1 DEF Entries, AcksInv, LastBucketOnly
<1>3. io[t].obj \in 1 .. Len(pendings) /\ pendings \in Seq(Pending)
  BY <1>1, HeldEntry, Parts DEF Entry
<1>4. io'[t].pc \in {"header", "verify"} /\ io'[t].obj = io[t].obj
  BY GotoFields DEF HandleConnectionless
<1>5. /\ Len(pendings') = Len(pendings)
      /\ \A e \in 1 .. Len(pendings) : pendings'[e].cookieTime = pendings[e].cookieTime
  <2> DEFINE obj == io[t].obj
             touched == [pendings EXCEPT ![obj].activity = now]
  <2>1. obj \in 1 .. Len(pendings) /\ pendings \in Seq(Pending) /\ pendings[obj] \in Pending
    BY <1>3
  <2>2. touched = [pendings EXCEPT ![obj] = [pendings[obj] EXCEPT !.activity = now]]
    BY <2>1
  <2>3. [pendings[obj] EXCEPT !.activity = now] \in Pending
    BY <1>1, <2>1, Parts DEF Wheel, Pending
  <2>4. touched \in Seq(Pending) /\ Len(touched) = Len(pendings)
    BY <2>1, <2>2, <2>3, EntryUpdate
  <2>5. \A e \in 1 .. Len(pendings) : touched[e].cookieTime = pendings[e].cookieTime
    <3>1. [pendings[obj] EXCEPT !.activity = now].cookieTime = pendings[obj].cookieTime
      BY <2>1 DEF Pending
    <3> QED
      BY <2>1, <2>2, <2>3, <3>1, CookiesOfEntries
  <2> HIDE DEF touched
  <2>6. \/ pendings' = touched
        \/ pendings' = [touched EXCEPT ![obj].type = "Challenge"]
    BY DEF HandleConnectionless, touched
  <2>7. touched[obj] \in Pending /\ [touched[obj] EXCEPT !.type = "Challenge"] \in Pending
    <3>1. touched[obj] \in Pending
      BY <2>1, <2>4
    <3> QED
      BY <3>1 DEF Pending, PendingType
  <2>8. [touched EXCEPT ![obj].type = "Challenge"]
           = [touched EXCEPT ![obj] = [touched[obj] EXCEPT !.type = "Challenge"]]
    BY <2>1, <2>4
  <2>9. CASE pendings' = touched
    BY <2>4, <2>5, <2>9
  <2>10. CASE pendings' = [touched EXCEPT ![obj].type = "Challenge"]
    <3>1. obj \in 1 .. Len(touched)
      BY <2>1, <2>4
    <3>2. [touched[obj] EXCEPT !.type = "Challenge"].cookieTime = touched[obj].cookieTime
      BY <2>7 DEF Pending
    <3>3. pendings' \in Seq(Pending) /\ Len(pendings') = Len(touched)
      BY <2>4, <2>7, <2>8, <2>10, <3>1, EntryUpdate
    <3>4. \A e \in 1 .. Len(touched) : pendings'[e].cookieTime = touched[e].cookieTime
      BY <2>4, <2>7, <2>8, <2>10, <3>1, <3>2, CookiesOfEntries
    <3> QED
      BY <2>4, <2>5, <3>3, <3>4
  <2> QED
    BY <2>6, <2>9, <2>10
<1>6. ThreadsKnow'
  BY <1>1, <1>2, <1>4 DEF AcksInv, ThreadsKnow, Knows, EmptyHanded
<1>7. Live' \subseteq Live /\ \A e \in Live : e \in 1 .. Len(pendings)
  BY <1>1, <1>2, <1>4, <1>5, LiveKept DEF EmptyHanded, Live
<1>8. Cookies'
  BY <1>1, <1>5, <1>7, MadeKept, CookiesKept DEF AcksInv, IsOut, Answers
<1> QED
  BY <1>2, <1>6, <1>8 DEF AcksInv

LEMMA VerifyAcks ==
  ASSUME TypeInv, TypeInv', AcksInv, NEW t, IoThreads = {t}, VerifyResponse(t)
  PROVE  AcksInv'
<1>1. /\ UNCHANGED <<now, pendings, cache, conns, routed, jobs, client, resend, toServer, toClient>>
      /\ now \in Nat /\ io[t].pc = "verify"
  BY TimeIsNat, Parts DEF VerifyResponse, Wheel
<1>2. Entries' = Entries /\ LastBucketOnly'
  BY <1>1 DEF Entries, AcksInv, LastBucketOnly
<1>3. \/ io'[t].pc = "idle"
      \/ /\ io'[t].pc = "accept" /\ io'[t].obj = io[t].obj /\ io'[t].msg = io[t].msg
         /\ pendings[io[t].obj].cookieTime = io[t].msg.cookie
  BY GotoFields, IdleThread, Parts DEF VerifyResponse, CookieValid, Threads
<1>4. ThreadsKnow'
  <2>1. CASE io'[t].pc = "idle"
    BY <2>1, KnowsNothing DEF ThreadsKnow
  <2>2. CASE io'[t].pc # "idle"
    BY <1>1, <1>2, <1>3, <2>2 DEF AcksInv, ThreadsKnow, Knows, EmptyHanded
  <2> QED
    BY <2>1, <2>2
<1>5. Live' \subseteq Live
  BY <1>1, <1>2, <1>3, LiveKept DEF EmptyHanded
<1>6. Cookies'
  BY <1>1, <1>5, MadeKept, CookiesKept DEF AcksInv, IsOut, Answers
<1> QED
  BY <1>2, <1>4, <1>6 DEF AcksInv

LEMMA AcceptAcks ==
  ASSUME TypeInv, TypeInv', AcksInv, NEW t, IoThreads = {t}, AcceptResponse(t)
  PROVE  AcksInv'
<1>1. /\ UNCHANGED <<now, cache, conns, routed, jobs, client, resend, toServer, toClient>>
      /\ now \in Nat /\ io[t].pc = "accept"
  BY TimeIsNat, Parts DEF AcceptResponse, Wheel
<1>2. Entries' = Entries /\ LastBucketOnly'
  BY <1>1 DEF Entries, AcksInv, LastBucketOnly
<1>3. io[t].obj \in 1 .. Len(pendings) /\ pendings \in Seq(Pending)
  BY <1>1, HeldEntry, Parts DEF Entry
<1>4. io'[t].pc = "add" /\ io'[t].obj = io[t].obj /\ io'[t].msg = io[t].msg
  BY GotoFields DEF AcceptResponse
<1>5. /\ Len(pendings') = Len(pendings)
      /\ \A e \in 1 .. Len(pendings) : pendings'[e].cookieTime = pendings[e].cookieTime
      /\ pendings'[io[t].obj].type = "Ack"
      /\ pendings'[io[t].obj].serverSeq = ServerByte[io[t].msg.cookie]
      /\ pendings'[io[t].obj].clientSeq = ClientByte[io[t].msg.cookie]
  BY <1>3 DEF AcceptResponse, Pending
<1>6. ThreadsKnow'
  BY <1>1, <1>2, <1>3, <1>4, <1>5 DEF AcksInv, ThreadsKnow, Knows, EmptyHanded
<1>7. Live' \subseteq Live /\ \A e \in Live : e \in 1 .. Len(pendings)
  BY <1>1, <1>2, <1>4, <1>5, LiveKept DEF EmptyHanded, Live
<1>8. Cookies'
  BY <1>1, <1>5, <1>7, MadeKept, CookiesKept DEF AcksInv, IsOut, Answers
<1> QED
  BY <1>2, <1>6, <1>8 DEF AcksInv

LEMMA BeginChallengeAcks ==
  ASSUME TypeInv, TypeInv', AcksInv, NEW t, IoThreads = {t}, BeginChallenge(t)
  PROVE  AcksInv'
<1>1. /\ UNCHANGED <<now, cache, conns, routed, jobs, client, resend, toServer, toClient>>
      /\ now \in Nat /\ io[t].pc = "header"
  BY TimeIsNat, Parts DEF BeginChallenge, Wheel
<1>2. Entries' = Entries /\ LastBucketOnly'
  BY <1>1 DEF Entries, AcksInv, LastBucketOnly
<1>3. io[t].obj \in 1 .. Len(pendings) /\ pendings \in Seq(Pending)
  BY <1>1, HeldEntry, Parts DEF Entry
<1>4. io'[t].pc = "challenge" /\ io'[t].obj = io[t].obj
  BY Parts DEF BeginChallenge, Threads, Thread
<1>5. Len(pendings') = Len(pendings) /\ pendings'[io[t].obj].cookieTime = now
  BY <1>3 DEF BeginChallenge, Pending
<1>6. ThreadsKnow'
  BY <1>1, <1>2, <1>4 DEF AcksInv, ThreadsKnow, Knows, EmptyHanded
<1>7. Live' \subseteq {io[t].obj}
  BY <1>1, <1>2, <1>4, <1>5, HeldAlone, LiveKept DEF AcksInv, EmptyHanded
<1>8. Cookies'
  BY <1>1, <1>5, <1>7, MadeKept, CookiesKept DEF AcksInv, IsOut, Answers
<1> QED
  BY <1>2, <1>6, <1>8 DEF AcksInv

(* The cookie sent out is the entry's, and the address has no connection yet. *)
LEMMA SendChallengeAcks ==
  ASSUME TypeInv, TypeInv', AloneInv, AcksInv, NEW t, IoThreads = {t}, NEW arrives,
         SendConnectChallenge(t, arrives)
  PROVE  AcksInv'
<1> DEFINE k0 == pendings[io[t].obj].cookieTime
<1>1. /\ UNCHANGED <<now, pendings, cache, conns, routed, jobs, client, resend, toServer>>
      /\ now \in Nat /\ io[t].pc = "challenge"
  BY TimeIsNat, Parts DEF SendConnectChallenge, Wheel
<1>2. Entries' = Entries /\ LastBucketOnly' /\ routed = 0
  BY <1>1 DEF Entries, AcksInv, LastBucketOnly, AloneInv, Handshaking
<1>3. io[t].obj \in 1 .. Len(pendings) /\ pendings \in Seq(Pending)
  BY <1>1, HeldEntry, Parts DEF Entry
<1>4. io'[t].pc = "idle"
  BY IdleThread, Parts DEF SendConnectChallenge, Threads
<1>5. ThreadsKnow'
  BY <1>4, KnowsNothing DEF ThreadsKnow
<1>6. Live' \subseteq Live /\ Live \subseteq {io[t].obj} /\ io[t].obj \in Live
  BY <1>1, <1>2, <1>3, <1>4, HeldAlone, LiveKept DEF AcksInv, EmptyHanded, Live
<1>7. k0 <= now /\ k0 \in Nat
  BY <1>6, LiveEntry, TimeIsNat DEF AcksInv, Cookies, InTime
<1>8. \A m \in toClient' : m \in toClient \/ (m.type # "Ack" /\ m.cookie = k0) \/ m.stamp >= 0
  BY <1>7 DEF SendConnectChallenge, Send
<1>9. \A k \in Time : IsOut(k)' => IsOut(k) \/ k = k0
  BY <1>1 DEF SendConnectChallenge, Send, IsOut, Answers
<1>10. \A k \in Time : IsOut(k)' =>
            \/ IsOut(k)
            \/ routed' = 0 /\ k <= now' /\ \A e \in Live' : k <= pendings'[e].cookieTime
  BY <1>1, <1>2, <1>6, <1>7, <1>9
<1>11. \A m \in toClient' : m \in toClient \/ ~(m.type = "Ack" /\ m.stamp < 0) \/ Made(m.cookie)'
  BY <1>7, <1>8, PartsNext DEF SendConnectChallenge, Send
<1>12. Cookies'
  BY <1>1, <1>6, <1>10, <1>11, MadeKept, CookiesKept DEF AcksInv
<1> QED
  BY <1>2, <1>5, <1>12 DEF AcksInv

(* The connection made has the numbers of the entry's cookie; every cookie    *)
(* the client may still have is that one or an older one.                     *)
LEMMA AddClientAcks ==
  ASSUME TypeInv, TypeInv', AloneInv, AcksInv, NEW t, IoThreads = {t}, AddClient(t)
  PROVE  AcksInv'
<1>0. PICK k0, obj : k0 = io[t].msg.cookie /\ obj = io[t].obj
  OBVIOUS
<1>1. /\ UNCHANGED <<now, pendings, cache, jobs, client, resend, toServer, toClient>>
      /\ now \in Nat /\ io[t].pc = "add"
  BY TimeIsNat, Parts DEF AddClient, Wheel
<1>2. Entries' = Entries /\ LastBucketOnly' /\ routed = 0
  BY <1>1 DEF Entries, AcksInv, LastBucketOnly, AloneInv, Handshaking
<1>3. /\ pendings[obj].cookieTime = k0
      /\ pendings[obj].serverSeq = ServerByte[k0] /\ pendings[obj].clientSeq = ClientByte[k0]
      /\ obj \in Live /\ Live \subseteq {obj}
  BY <1>0, <1>1, HeldEntry, HeldAlone, Parts DEF AcksInv, ThreadsKnow, Knows, EmptyHanded, Live
<1>4. io'[t].pc = "ack" /\ io'[t].obj = obj /\ io'[t].msg.cookie = k0
  BY <1>0, GotoFields DEF AddClient
<1>5. Made(k0)' /\ \A k : Made(k) => Made(k)'
  <2>1. /\ conns' = Append(conns, NewConnection(pendings[obj])) /\ conns \in Seq(Connection)
        /\ Len(conns) \in Nat /\ Len(conns') = Len(conns) + 1 /\ DOMAIN conns = 1 .. Len(conns)
        /\ DOMAIN conns' = 1 .. Len(conns) + 1
        /\ conns'[Len(conns) + 1] = NewConnection(pendings[obj])
        /\ \A c \in 1 .. Len(conns) : conns'[c] = conns[c]
    BY <1>0, Parts DEF AddClient, ServerTables
  <2>2. Made(k0)'
    BY <1>3, <2>1 DEF Made, NewConnection
  <2>3. \A k : Made(k) => Made(k)'
    BY <2>1 DEF Made
  <2> QED
    BY <2>2, <2>3
<1>6. ThreadsKnow'
  BY <1>0, <1>1, <1>2, <1>4, <1>5 DEF AcksInv, ThreadsKnow, Knows, EmptyHanded
<1>7. Live' \subseteq Live
  BY <1>0, <1>1, <1>2, <1>4, LiveKept DEF EmptyHanded
<1>8. k0 <= now /\ k0 \in Nat
  BY <1>3, LiveEntry, TimeIsNat DEF AcksInv, Cookies, InTime
<1>9. ASSUME NEW k \in Time, IsOut(k)' PROVE Past(k)'
  <2>1. k <= k0 /\ k \in Nat
    BY <1>1, <1>3, <1>9, TimeIsNat DEF IsOut, Answers, AcksInv, Cookies, InTime
  <2>2. CASE k = k0
    BY <1>5, <2>2 DEF Past
  <2>3. CASE k # k0
    <3>1. k < k0 /\ k < now'
      BY <1>1, <1>8, <2>1, <2>3
    <3> QED
      BY <1>1, <1>3, <1>7, <3>1 DEF Past
  <2> QED
    BY <2>2, <2>3
<1>10. \A k \in Time : IsOut(k)' => IsOut(k)
  BY <1>1 DEF IsOut, Answers
<1>11. Cookies'
  BY <1>1, <1>5, <1>7, <1>9, <1>10, CookiesKept DEF AcksInv
<1> QED
  BY <1>2, <1>6, <1>11 DEF AcksInv

LEMMA SendAckAcks ==
  ASSUME TypeInv, TypeInv', AcksInv, NEW t, IoThreads = {t}, NEW arrives,
         SendChallengeAck(t, arrives)
  PROVE  AcksInv'
<1>1. /\ UNCHANGED <<now, pendings, cache, conns, routed, jobs, client, resend, toServer>>
      /\ now \in Nat /\ io[t].pc = "ack"
  BY TimeIsNat, Parts DEF SendChallengeAck, Wheel
<1>2. Entries' = Entries /\ LastBucketOnly'
  BY <1>1 DEF Entries, AcksInv, LastBucketOnly
<1>3. Made(io[t].msg.cookie) /\ pendings[io[t].obj].type = "Ack"
  BY <1>1 DEF AcksInv, ThreadsKnow, Knows
<1>4. io'[t].pc = "idle"
  BY IdleThread, Parts DEF SendChallengeAck, Threads
<1>5. ThreadsKnow'
  BY <1>4, KnowsNothing DEF ThreadsKnow
<1>6. Live' \subseteq Live
  BY <1>1, <1>2, <1>4, LiveKept DEF EmptyHanded
<1>7. \A m \in toClient' : m \in toClient \/ (m.type = "Ack" /\ m.cookie = io[t].msg.cookie)
  BY <1>3 DEF SendChallengeAck, Send, ChallengeAck
<1>8. \A k \in Time : IsOut(k)' => IsOut(k)
  BY <1>1, <1>7 DEF IsOut, Answers
<1>9. \A m \in toClient' : m \in toClient \/ ~(m.type = "Ack" /\ m.stamp < 0) \/ Made(m.cookie)'
  BY <1>1, <1>3, <1>7, MadeKept
<1>10. Cookies'
  BY <1>1, <1>6, <1>8, <1>9, MadeKept, CookiesKept DEF AcksInv
<1> QED
  BY <1>2, <1>5, <1>10 DEF AcksInv

LEMMA IoAcks ==
  ASSUME TypeInv, TypeInv', AloneInv, AcksInv, NEW t, IoThreads = {t}, IoStep(t) PROVE AcksInv'
BY FindPendingAcks, CreatePendingAcks, HandleAcks, VerifyAcks, AcceptAcks, AddClientAcks,
   BeginChallengeAcks, SendChallengeAcks, SendAckAcks DEF IoStep

\* No acknowledgement is under way yet.
LEMMA InitAcks == Init => AcksInv
<1> SUFFICES ASSUME Init PROVE AcksInv
  OBVIOUS
<1>1. ThreadsKnow /\ LastBucketOnly /\ JobsPast /\ AcksAgree /\ AnswersPast
  BY DEF Init, ThreadsKnow, Knows, Idle, EmptyHanded, LastBucketOnly, JobsPast, AcksAgree,
         AnswersPast
<1>2. \A m \in Answers : m.type = "Initial"
  BY DEF Init, Answers, InitialPacket
<1>3. \A k \in Time : ~IsOut(k)
  BY <1>2 DEF Init, IsOut
<1>4. Live = {}
  BY DEF Init, Live
<1> QED
  BY <1>1, <1>3, <1>4 DEF AcksInv, Cookies, InTime

\* Every step keeps what is said of the acknowledgements.
LEMMA NextAcks ==
  ASSUME NEW t0, IoThreads = {t0}
  PROVE  TypeInv /\ TypeInv' /\ AloneInv /\ AcksInv /\ [Next]_vars => AcksInv'
<1> SUFFICES ASSUME TypeInv, TypeInv', AloneInv, AcksInv, [Next]_vars PROVE AcksInv'
  OBVIOUS
<1>1. CASE \E t \in IoThreads : IoStep(t) \/ \E m \in toServer : Route(t, m)
  BY <1>1, IoAcks, RouteAcks
<1>2. CASE TickHousekeeping \/ \E c \in DOMAIN conns : Close(c)
  BY <1>2, TickAcks, CloseAcks
<1>3. CASE \E j \in jobs, arrives \in Arrivals : RunJob(j, arrives)
  BY <1>3, RunJobAcks
<1>4. CASE ~(\/ \E t \in IoThreads : IoStep(t) \/ \E m \in toServer : Route(t, m)
             \/ TickHousekeeping \/ \E c \in DOMAIN conns : Close(c)
             \/ \E j \in jobs, arrives \in Arrivals : RunJob(j, arrives))
  BY <1>4, ClientAcks DEF Next
<1> QED
  BY <1>1, <1>2, <1>3, <1>4

(* The inductive invariant of the server with one I/O thread. *)
LEMMA AcksAlone ==
  ASSUME NEW t0, IoThreads = {t0} PROVE Spec => [](TypeInv /\ AloneInv /\ AcksInv)
<1>1. Init => TypeInv /\ AloneInv /\ AcksInv
  BY InitTypes, InitAcks DEF Init, AloneInv, OnePerClient, Idle, Handshaking
<1>2. TypeInv /\ AloneInv /\ AcksInv /\ [Next]_vars => (TypeInv /\ AloneInv /\ AcksInv)'
  BY NextTypes, NextAcks, RouteAlone, IoAlone, CloseAlone, OthersAlone DEF Next
<1> QED
  BY <1>1, <1>2, PTL DEF Spec

(* With one I/O thread every Ack the server sends, the first one and those a
   worker sends again (UdpPacketProcessor.cpp:278), announces the numbers of a
   connection that has been made, although pending entries outlive connections,
   renew their cookies and are made anew.  With two threads TLC finds a
   counterexample. *)
THEOREM AcksAgreeAlone ==
  ASSUME NEW t0, IoThreads = {t0} PROVE Spec => []AcksAgree
<1>1. AcksInv => AcksAgree
  BY DEF AcksInv, Cookies
<1> QED
  BY <1>1, AcksAlone, PTL

-----------------------------------------------------------------------------
(* Agreement.  While no connection has been closed there is one at most, and  *)
(* it is the one datagrams are routed to; a client that is done has the       *)
(* numbers of some connection.                                                *)
AllOpen == \A c \in DOMAIN conns : ~conns[c].closed
OneConnection == AllOpen => Len(conns) <= 1 /\ routed = Len(conns)
HasNumbers ==
    client.state = "Initialized" =>
        \E c \in DOMAIN conns : conns[c].out = client.in /\ conns[c].in = client.out

\* There is no connection yet.
LEMMA InitAgreement == Init => OneConnection /\ HasNumbers
BY DEF Init, OneConnection, HasNumbers

\* No step makes a second connection of a client.
LEMMA NextOneConnection ==
  ASSUME NEW t0, IoThreads = {t0}, TypeInv, AloneInv, OneConnection, [Next]_vars
  PROVE  OneConnection'
<1>1. CASE \E t \in IoThreads : AddClient(t)
  <2>1. PICK t \in IoThreads : AddClient(t)
    BY <1>1
  <2>2. routed = 0
    BY <2>1 DEF AloneInv, AddClient, Handshaking
  <2>3. /\ Len(conns) \in Nat /\ Len(conns') = Len(conns) + 1 /\ routed' = Len(conns) + 1
        /\ DOMAIN conns = 1 .. Len(conns) /\ DOMAIN conns' = 1 .. Len(conns')
        /\ \A c \in 1 .. Len(conns) : conns'[c] = conns[c]
    BY <2>1, <2>2, Parts DEF AddClient, ServerTables
  <2>4. AllOpen' => AllOpen
    BY <2>3 DEF AllOpen
  <2> QED
    BY <2>2, <2>3, <2>4 DEF OneConnection
<1>2. CASE \E c \in DOMAIN conns : Close(c)
  <2>1. ~AllOpen'
    BY <1>2, Parts DEF Close, ServerTables, Connection, AllOpen
  <2> QED
    BY <2>1 DEF OneConnection
<1>3. CASE /\ ~ \E t \in IoThreads : AddClient(t)
           /\ ~ \E c \in DOMAIN conns : Close(c)
  <2>1. UNCHANGED <<conns, routed>>
    BY <1>3 DEF Next, IoStep, FindPending, CreatePending, HandleConnectionless, VerifyResponse,
         AcceptResponse, BeginChallenge, SendConnectChallenge, SendChallengeAck, Route, RunJob,
         TickHousekeeping, ReceiveChallenge, ReceiveAck, ResendRead, ResendSend
  <2> QED
    BY <2>1 DEF OneConnection, AllOpen
<1> QED
  BY <1>1, <1>2, <1>3

\* A connection keeps its numbers, and a client that connects has them.
LEMMA NextHasNumbers ==
  ASSUME TypeInv, AcksAgree, HasNumbers, [Next]_vars PROVE HasNumbers'
<1>1. CASE \E m \in toClient : ReceiveAck(m)
  <2>1. PICK m \in toClient : ReceiveAck(m)
    BY <1>1
  <2>2. client'.in = ServerByte[m.cookie] /\ client'.out = ClientByte[m.cookie] /\ UNCHANGED conns
    BY <2>1, Parts DEF ReceiveAck, Client
  <2> QED
    BY <2>1, <2>2 DEF ReceiveAck, AcksAgree, HasNumbers
<1>2. CASE ~ \E m \in toClient : ReceiveAck(m)
  <2>1. /\ client'.state = "Initialized" => client.state = "Initialized"
        /\ client'.in = client.in /\ client'.out = client.out
    BY <1>2, Parts DEF Client, Next, IoStep, FindPending, CreatePending, HandleConnectionless,
       VerifyResponse, AcceptResponse, AddClient, BeginChallenge, SendConnectChallenge,
       SendChallengeAck, Route, RunJob, TickHousekeeping, Close, ReceiveChallenge, ResendRead,
       ResendSend
  <2>2. \A c \in DOMAIN conns : /\ c \in DOMAIN conns'
                                /\ conns'[c].out = conns[c].out /\ conns'[c].in = conns[c].in
    <3>1. CASE \E t \in IoThreads : AddClient(t)
      BY <3>1, Parts DEF AddClient, ServerTables
    <3>2. CASE \E c \in DOMAIN conns : Close(c)
      BY <3>2, Parts DEF Close, ServerTables, Connection
    <3>3. CASE UNCHANGED conns
      BY <3>3
    <3> QED
      BY <3>1, <3>2, <3>3 DEF Next, IoStep, FindPending, CreatePending, HandleConnectionless,
         VerifyResponse, AcceptResponse, BeginChallenge, SendConnectChallenge, SendChallengeAck,
         Route, RunJob, TickHousekeeping, ReceiveChallenge, ReceiveAck, ResendRead, ResendSend
  <2> QED
    BY <2>1, <2>2 DEF HasNumbers
<1> QED
  BY <1>1, <1>2

(* With one I/O thread, a client that is done and a server that has closed
   nothing agree on the two sequence numbers, crosswise
   (NetConnection.cpp:521-522), whatever was lost, repeated or reordered. *)
THEOREM AgreementAlone ==
  ASSUME NEW t0, IoThreads = {t0} PROVE Spec => []Agreement
<1>1. TypeInv /\ AloneInv /\ AcksAgree /\ OneConnection /\ HasNumbers /\ [Next]_vars
        => OneConnection' /\ HasNumbers'
  BY NextOneConnection, NextHasNumbers
<1>2. AcksInv => AcksAgree
  BY DEF AcksInv, Cookies
<1>3. TypeInv /\ OneConnection /\ HasNumbers => Agreement
  <2> SUFFICES ASSUME TypeInv, OneConnection, HasNumbers, client.state = "Initialized", AllOpen
               PROVE  routed # 0 /\ client.in = conns[routed].out /\ client.out = conns[routed].in
    BY DEF Agreement, AllOpen
  <2>1. PICK c \in DOMAIN conns : conns[c].out = client.in /\ conns[c].in = client.out
    BY DEF HasNumbers
  <2>2. DOMAIN conns = 1 .. Len(conns) /\ Len(conns) \in Nat
    BY Parts DEF ServerTables
  <2>3. c = routed /\ routed # 0
    BY <2>1, <2>2 DEF OneConnection
  <2> QED
    BY <2>1, <2>3
<1> QED
  BY <1>1, <1>2, <1>3, InitAgreement, AcksAlone, PTL DEF Spec
=============================================================================
