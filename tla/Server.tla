------------------------------- MODULE Server -------------------------------
(***************************************************************************)
(* Connections on a server, from the datagram that makes one to the last   *)
(* reference to it: the tables of IpNetDriver, the jobs of each            *)
(* connection, the timeout scan, Close, and the players and rooms of the   *)
(* game server.                                                            *)
(*                                                                         *)
(* I/O threads and, for datagrams the simulator held back, the tick thread *)
(* route datagrams and add connections.  The tick thread posts jobs for    *)
(* the connections it finds in a snapshot of the list and closes those     *)
(* that were silent for too long.  Workers run the jobs, which handle      *)
(* messages of the client and may close the connection themselves.         *)
(*                                                                         *)
(* Whether a datagram completes a handshake, whether a connection was      *)
(* silent, what a job finds to do: these are choices here (Handshake and   *)
(* NetConnection say how they are made).                                   *)
(***************************************************************************)
EXTENDS Integers, Sequences, FiniteSets, SequencesExt

CONSTANTS
    Keys, NoKey,    \* addresses of clients, as Reader->GetHashKey
    IoThreads,
    Tick,           \* the thread of TickLoop
    NumWorkers,     \* JobSystem::GetThreadCount
    MaxPlayer,      \* Room::maxPlayer
    MaxConns,       \* bound: connections ever made
    MaxQueue        \* bound: jobs in the queue of a worker

Workers == 0 .. NumWorkers - 1
Receivers == IoThreads \cup {Tick}
Threads == Receivers \cup Workers
Conns == 1 .. MaxConns
Unassigned == -1

\* Jobs of a connection.
Job == [conn : Conns, kind : {"receive", "dispatch", "flush"}]

\* Where a thread is.
Receiving == {"idle", "deliver", "unrouted"}
Adding == {"enter", "lockRooms", "seat", "publish", "assign"}
Removing == {"unlist", "leaveMaps", "findSeat", "leave"}
Working == {"receive", "dispatch", "flush", "verify", "netSpeed"}

ASSUME ConstantsOK ==
    /\ NumWorkers \in Nat \ {0} /\ MaxConns \in Nat
    /\ MaxPlayer \in Nat \ {0} /\ MaxQueue \in Nat
    /\ NoKey \notin Keys /\ Tick \notin IoThreads
    /\ Receivers \cap Workers = {}

VARIABLES
    made,       \* connections made, as the ids PlayerUniqueIdAllocator gave
    closed,     \* connections in state USOCK_Closed
    routed,     \* HashToConnectionMap, 0 for none
    listed,     \* RemoteConnections, and the keys of ConnectionMap
    owner,      \* NetConnection::OwnerThreadId
    nextOwner,  \* NextThreadIndex modulo the number of workers
    rudp,       \* keys of ConnectionRUDPMap
    reliable,   \* keys of ConnectionReliableMap
    rooms,      \* RoomManager::Rooms, each as the connections of its players
    verified,   \* connections whose player has an id: Player::VerifiedUser
    queue,      \* per worker, the jobs pinned to it
    stray,      \* connections for which a job was posted to no worker
    sweep,      \* the loop of the tick thread: [phase, all, at]
    thread      \* per thread, where it is and what it holds

tables == << routed, listed >>
players == << rooms, verified >>
service == << rudp, reliable, players >>
jobs == << queue, stray >>
owners == << owner, nextOwner >>
vars == << made, closed, tables, owners, service, jobs, sweep, thread >>

Phases == {"timeouts", "stale", "dispatch", "flush"}
State(pc, conn, key, room) == [pc |-> pc, conn |-> conn, key |-> key, room |-> room]
Idle == State("idle", 0, NoKey, 0)

ThreadState ==
    [pc : Receiving \cup Adding \cup Removing \cup Working \cup {"sweep", "close"},
     conn : 0 .. MaxConns, key : Keys \cup {NoKey}, room : Nat]

TypeOK ==
    /\ made \in 0 .. MaxConns
    /\ closed \subseteq Conns
    /\ routed \in [Keys -> 0 .. MaxConns]
    /\ listed \in Seq(Conns)
    /\ owner \in [Conns -> Workers \cup {Unassigned}]
    /\ nextOwner \in Workers
    /\ rudp \subseteq Conns /\ reliable \subseteq Conns
    /\ rooms \in Seq(SUBSET Conns)
    /\ verified \subseteq Conns
    /\ queue \in [Workers -> Seq(Job)]
    /\ stray \subseteq Conns
    /\ sweep \in [phase : Phases, all : Seq(Conns), at : Nat \ {0}]
    /\ thread \in [Threads -> ThreadState]

Init ==
    /\ made = 0 /\ closed = {}
    /\ routed = [k \in Keys |-> 0] /\ listed = << >>
    /\ owner = [c \in Conns |-> Unassigned] /\ nextOwner = 0
    /\ rudp = {} /\ reliable = {} /\ rooms = << {} >>
    /\ verified = {}
    /\ queue = [w \in Workers |-> << >>] /\ stray = {}
    /\ sweep = [phase |-> "timeouts", all |-> << >>, at |-> 1]
    /\ thread = [t \in Threads |-> Idle]

At(t, pc) == thread[t].pc = pc
Conn(t) == thread[t].conn
Becomes(t, state) == thread' = [thread EXCEPT ![t] = state]
Goto(t, pc) == Becomes(t, State(pc, Conn(t), thread[t].key, thread[t].room))
GotoRoom(t, pc, room) == Becomes(t, State(pc, Conn(t), thread[t].key, room))

\* Where a thread goes on after it handled a datagram or closed a connection.
Rest(t) == IF t = Tick THEN State("sweep", 0, NoKey, 0)
           ELSE IF t \in Workers THEN State("flush", Conn(t), NoKey, 0)
           ELSE Idle
Return(t) == Becomes(t, Rest(t))

\* Some shared_ptr to connection c exists, of the tables or of a thread.
Holds(t, c) == Conn(t) = c /\ thread[t].pc \notin {"idle", "deliver"}
Held(c) == \/ \E k \in Keys : routed[k] = c
           \/ c \in ToSet(listed) \/ c \in ToSet(sweep.all)
           \/ \E t \in Threads : Holds(t, c)
-----------------------------------------------------------------------------
(* Jobs. *)

Post_AnyWorker(c, kind) ==
    /\ \E w \in Workers : /\ Len(queue[w]) < MaxQueue
                           /\ queue' = [queue EXCEPT ![w] = Append(@, [conn |-> c, kind |-> kind])]
    /\ UNCHANGED stray

\* AddAsyncJob with the index of the owner.  An index that no worker has reads
\* a queue outside the array, after which the model says nothing of that job.
Post(c, kind) ==
    IF owner[c] \in Workers
      THEN /\ Len(queue[owner[c]]) < MaxQueue
           /\ queue' = [queue EXCEPT ![owner[c]] = Append(@, [conn |-> c, kind |-> kind])]
           /\ UNCHANGED stray
      ELSE stray' = stray \cup {c} /\ UNCHANGED queue

\* A worker takes the next job, which does nothing when the connection is gone.
TakeJob(w) ==
    /\ At(w, "idle") /\ queue[w] # << >>
    /\ LET j == Head(queue[w]) IN
       IF Held(j.conn) THEN Becomes(w, State(j.kind, j.conn, NoKey, 0)) ELSE UNCHANGED thread
    /\ queue' = [queue EXCEPT ![w] = Tail(@)]
    /\ UNCHANGED << made, closed, tables, owners, service, stray, sweep >>

EndJob(w) ==
    /\ thread[w].pc \in {"receive", "dispatch", "flush"}
    /\ Becomes(w, Idle)
    /\ UNCHANGED << made, closed, tables, owners, service, jobs, sweep >>

\* ChannelRecordDesync while a packet is received, ReliableBufferOverflow in a
\* dispatch job.
CloseInJob(w) ==
    /\ thread[w].pc \in {"receive", "dispatch"}
    /\ Goto(w, "close")
    /\ UNCHANGED << made, closed, tables, owners, service, jobs, sweep >>
-----------------------------------------------------------------------------
(* DispatchReceivedDatagram and AddClient. *)

\* A thread takes a datagram: an I/O thread, or the tick thread among the
\* datagrams the simulator has held for too long.
MayReceive(t) == IF t = Tick THEN At(t, "sweep") /\ sweep.phase = "stale"
                 ELSE At(t, "idle")

\* The look-up; what is kept of the connection found is a plain pointer.
Route(t, k) ==
    /\ MayReceive(t)
    /\ Becomes(t, IF routed[k] # 0 THEN State("deliver", routed[k], NoKey, 0)
                  ELSE State("unrouted", 0, k, 0))
    /\ UNCHANGED << made, closed, tables, owners, service, jobs, sweep >>

\* ReceivedRawPacket.  The connection may be gone by now; what comes of it then
\* is a job that does nothing, or none.
Deliver(t) ==
    /\ At(t, "deliver")
    /\ \/ Post(Conn(t), "receive")
       \/ ~Held(Conn(t)) /\ UNCHANGED jobs
    /\ Return(t)
    /\ UNCHANGED << made, closed, tables, owners, service, sweep >>

\* The datagram completes no handshake, ...
Ignore(t) ==
    /\ At(t, "unrouted")
    /\ Return(t)
    /\ UNCHANGED << made, closed, tables, owners, service, jobs, sweep >>

\* ... or it does: AddClient allocates the id of a new connection.
AddClient(t) ==
    /\ At(t, "unrouted") /\ made < MaxConns
    /\ made' = made + 1
    /\ Becomes(t, State("enter", made + 1, thread[t].key, 0))
    /\ UNCHANGED << closed, tables, owners, service, jobs, sweep >>

\* AddPlayerConnection and NetworkService::AddPlayer.  Nothing else knows of
\* the connection yet, so its two entries are made in one step.
EnterMaps(t) ==
    /\ At(t, "enter")
    /\ rudp' = rudp \cup {Conn(t)} /\ reliable' = reliable \cup {Conn(t)}
    /\ Goto(t, "lockRooms")
    /\ UNCHANGED << made, closed, tables, owners, players, jobs, sweep >>

\* A thread has RoomsMutex for itself while it looks for a seat.
RoomsFree == \A t \in Threads : ~At(t, "seat")

LockRooms_TryLock(t) ==
    /\ At(t, "lockRooms")
    /\ IF RoomsFree THEN GotoRoom(t, "seat", 1) ELSE Goto(t, "publish")
    /\ UNCHANGED << made, closed, tables, owners, service, jobs, sweep >>

LockRooms(t) ==
    /\ At(t, "lockRooms") /\ RoomsFree
    /\ GotoRoom(t, "seat", 1)
    /\ UNCHANGED << made, closed, tables, owners, service, jobs, sweep >>

HasSpace_OneMore(room) == Cardinality(room) <= MaxPlayer

HasSpace(room) == Cardinality(room) < MaxPlayer

\* RoomManager::AddPlayer, a room at a time: PlayersMutex is taken and given
\* back for each.  Only the holder of RoomsMutex adds players, so the second
\* test of a room that had space finds space.
TakeSeat(t) ==
    LET r == thread[t].room IN
    /\ At(t, "seat")
    /\ \/ /\ r <= Len(rooms) /\ HasSpace(rooms[r])
          /\ rooms' = [rooms EXCEPT ![r] = @ \cup {Conn(t)}]
          /\ GotoRoom(t, "publish", 0)
       \/ /\ r <= Len(rooms) /\ ~HasSpace(rooms[r])
          /\ GotoRoom(t, "seat", r + 1)
          /\ UNCHANGED rooms
       \/ /\ r > Len(rooms)
          /\ rooms' = Append(rooms, {Conn(t)})
          /\ GotoRoom(t, "publish", 0)
    /\ UNCHANGED << made, closed, tables, owners, rudp, reliable, verified, jobs, sweep >>

Publish_Overwrites(t) ==
    /\ At(t, "publish")
    /\ routed' = [routed EXCEPT ![thread[t].key] = Conn(t)]
    /\ listed' = Append(listed, Conn(t))
    /\ Goto(t, "assign")
    /\ UNCHANGED << made, closed, owners, service, jobs, sweep >>

\* AddClient_Internal: three tables under one lock, then the owner.  The table
\* by address keeps an entry it already has.
Publish(t) ==
    LET k == thread[t].key IN
    /\ At(t, "publish")
    /\ routed' = [routed EXCEPT ![k] = IF @ = 0 THEN Conn(t) ELSE @]
    /\ listed' = Append(listed, Conn(t))
    /\ Goto(t, "assign")
    /\ UNCHANGED << made, closed, owners, service, jobs, sweep >>

NextOwner_NoModulo == nextOwner + 1

NextOwner == (nextOwner + 1) % NumWorkers

AssignConnectionThreadIndex(t) ==
    /\ At(t, "assign")
    /\ owner' = [owner EXCEPT ![Conn(t)] = nextOwner]
    /\ nextOwner' = NextOwner
    /\ Return(t)
    /\ UNCHANGED << made, closed, tables, service, jobs, sweep >>
-----------------------------------------------------------------------------
(* NetConnection::Close and IpNetDriver::RemoveConnection. *)

Exchange_TestListed(t) ==
    /\ At(t, "close")
    /\ IF Conn(t) \notin ToSet(listed) THEN Return(t) /\ UNCHANGED closed
       ELSE Goto(t, "unlist") /\ closed' = closed \cup {Conn(t)}
    /\ UNCHANGED << made, tables, owners, service, jobs, sweep >>

\* State.exchange(USOCK_Closed): only the first goes on.
Exchange(t) ==
    /\ At(t, "close")
    /\ IF Conn(t) \in closed THEN Return(t) /\ UNCHANGED closed
       ELSE Goto(t, "unlist") /\ closed' = closed \cup {Conn(t)}
    /\ UNCHANGED << made, tables, owners, service, jobs, sweep >>

RoutesWithout_None(c) == routed

\* The routes without those to c, by pointer.
RoutesWithout(c) == [k \in Keys |-> IF routed[k] = c THEN 0 ELSE routed[k]]

\* It was listed once, by the AddClient_Internal that made it.
Without(seq, c) ==
    IF c \in ToSet(seq) THEN RemoveAt(seq, CHOOSE i \in DOMAIN seq : seq[i] = c) ELSE seq

Unlist(t) ==
    /\ At(t, "unlist")
    /\ routed' = RoutesWithout(Conn(t))
    /\ listed' = Without(listed, Conn(t))
    /\ Goto(t, "leaveMaps")
    /\ UNCHANGED << made, closed, owners, service, jobs, sweep >>

\* RemovePlayerConnection and NetworkService::RemovePlayer.
LeaveMaps(t) ==
    /\ At(t, "leaveMaps")
    /\ rudp' = rudp \ {Conn(t)} /\ reliable' = reliable \ {Conn(t)}
    /\ Goto(t, "findSeat")
    /\ UNCHANGED << made, closed, tables, owners, players, jobs, sweep >>

SeatOf_FirstRoom(c) == IF c \in rooms[1] THEN 1 ELSE 0

\* FindRoomWithConnection: the first room with a player of the connection.
SeatOf(c) ==
    IF \E r \in DOMAIN rooms : c \in rooms[r]
      THEN CHOOSE r \in DOMAIN rooms :
               c \in rooms[r] /\ \A q \in 1 .. r - 1 : c \notin rooms[q]
      ELSE 0

\* Under RoomsMutex; the room is used after it is given back.
FindSeat(t) ==
    /\ At(t, "findSeat") /\ RoomsFree
    /\ IF SeatOf(Conn(t)) = 0 THEN Return(t) ELSE GotoRoom(t, "leave", SeatOf(Conn(t)))
    /\ UNCHANGED << made, closed, tables, owners, service, jobs, sweep >>

Leave(t) ==
    /\ At(t, "leave")
    /\ rooms' = [rooms EXCEPT ![thread[t].room] = @ \ {Conn(t)}]
    /\ verified' = verified \ {Conn(t)}
    /\ Return(t)
    /\ UNCHANGED << made, closed, tables, owners, rudp, reliable, jobs, sweep >>

RemoveConnection(t) == Exchange(t) \/ Unlist(t) \/ LeaveMaps(t) \/ FindSeat(t) \/ Leave(t)
-----------------------------------------------------------------------------
(* Messages of the client, handled in a dispatch job. *)

\* Protocol_NMT_Login with a good password: RoomManager::VerifiedUser looks for
\* the room under RoomsMutex, ...
Login(w) ==
    /\ At(w, "dispatch") /\ RoomsFree
    /\ SeatOf(Conn(w)) # 0
    /\ GotoRoom(w, "verify", SeatOf(Conn(w)))
    /\ UNCHANGED << made, closed, tables, owners, service, jobs, sweep >>

\* ... and asks that room for the player afterwards.
Verify(w) ==
    /\ At(w, "verify")
    /\ verified' = IF Conn(w) \in rooms[thread[w].room] THEN verified \cup {Conn(w)} ELSE verified
    /\ GotoRoom(w, "dispatch", 0)
    /\ UNCHANGED << made, closed, tables, owners, rudp, reliable, rooms, jobs, sweep >>

\* Protocol_NMT_NetSpeed: operator[] makes the entry when there is none, and the
\* entry is updated after the mutex is given back.
NetSpeed(w) ==
    /\ At(w, "dispatch")
    /\ rudp' = rudp \cup {Conn(w)}
    /\ Goto(w, "netSpeed")
    /\ UNCHANGED << made, closed, tables, owners, reliable, players, jobs, sweep >>

UpdateStatus(w) ==
    /\ At(w, "netSpeed")
    /\ Goto(w, "dispatch")
    /\ UNCHANGED << made, closed, tables, owners, service, jobs, sweep >>

HandleMessage(w) == Login(w) \/ Verify(w) \/ NetSpeed(w) \/ UpdateStatus(w)
-----------------------------------------------------------------------------
(* The tick thread: TickSweep. *)

\* With the housekeeping that is done each second, or without.
BeginSweep ==
    /\ At(Tick, "idle")
    /\ \E phase \in {"timeouts", "stale"} :
          sweep' = [phase |-> phase, all |-> IF phase = "timeouts" THEN listed ELSE << >>, at |-> 1]
    /\ Goto(Tick, "sweep")
    /\ UNCHANGED << made, closed, tables, owners, service, jobs >>

InLoop == At(Tick, "sweep") /\ sweep.at <= Len(sweep.all)
Visited == sweep.all[sweep.at]
Advance == sweep' = [sweep EXCEPT !.at = @ + 1]

\* CheckConnectionTimeouts: closed already, or heard of lately, ...
KeepConnection ==
    /\ InLoop /\ sweep.phase = "timeouts"
    /\ Advance
    /\ UNCHANGED << made, closed, tables, owners, service, jobs, thread >>

\* ... or silent for too long.
TimeOut ==
    /\ InLoop /\ sweep.phase = "timeouts" /\ Visited \notin closed
    /\ Becomes(Tick, State("close", Visited, NoKey, 0))
    /\ Advance
    /\ UNCHANGED << made, closed, tables, owners, service, jobs >>

\* TickDispatch and TickFlush.
PostTickJob ==
    /\ InLoop /\ sweep.phase \in {"dispatch", "flush"}
    /\ Post(Visited, sweep.phase)
    /\ Advance
    /\ UNCHANGED << made, closed, tables, owners, service, thread >>

\* The next loop of the sweep has a snapshot of its own.
NextPhase ==
    /\ At(Tick, "sweep") /\ sweep.at > Len(sweep.all)
    /\ \/ /\ sweep.phase = "timeouts"
          /\ sweep' = [phase |-> "stale", all |-> << >>, at |-> 1]
          /\ UNCHANGED thread
       \/ /\ sweep.phase = "stale"
          /\ sweep' = [phase |-> "dispatch", all |-> listed, at |-> 1]
          /\ UNCHANGED thread
       \/ /\ sweep.phase = "dispatch"
          /\ sweep' = [phase |-> "flush", all |-> listed, at |-> 1]
          /\ UNCHANGED thread
       \/ /\ sweep.phase = "flush"
          /\ sweep' = [phase |-> "timeouts", all |-> << >>, at |-> 1]
          /\ Goto(Tick, "idle")
    /\ UNCHANGED << made, closed, tables, owners, service, jobs >>
-----------------------------------------------------------------------------
Receive(t) ==
    \/ Deliver(t) \/ Ignore(t) \/ AddClient(t)
    \/ EnterMaps(t) \/ LockRooms(t) \/ TakeSeat(t)
    \/ Publish(t) \/ AssignConnectionThreadIndex(t)

TickStep == BeginSweep \/ KeepConnection \/ TimeOut \/ PostTickJob \/ NextPhase

WorkerStep(w) == TakeJob(w) \/ EndJob(w) \/ CloseInJob(w) \/ HandleMessage(w) \/ RemoveConnection(w)

Next ==
    \/ \E t \in Receivers : Receive(t) \/ RemoveConnection(t) \/ \E k \in Keys : Route(t, k)
    \/ TickStep
    \/ \E w \in Workers : WorkerStep(w)

Spec == Init /\ [][Next]_vars

(***************************************************************************)
(* The threads of the system go on: those that receive, close or work.     *)
(* SF: the tick thread comes to the end of the datagrams held back, and is *)
(* not kept for ever from a queue that is full only by the bound MaxQueue; *)
(* a job comes to an end after finitely many messages.                     *)
(***************************************************************************)
Fairness ==
    /\ \A t \in Receivers : WF_vars(Receive(t)) /\ WF_vars(RemoveConnection(t))
    /\ SF_vars(TickStep)
    /\ \A w \in Workers : WF_vars(WorkerStep(w)) /\ SF_vars(EndJob(w))

FairSpec == Spec /\ Fairness
-----------------------------------------------------------------------------
IsAdding(c) == \E t \in Threads : Conn(t) = c /\ thread[t].pc \in Adding
IsRemoving(c) == \E t \in Threads : Conn(t) = c /\ thread[t].pc \in Removing
Seats(c) == {r \in DOMAIN rooms : c \in rooms[r]}

\* Between adding and removing it, a connection is in all tables or in none,
\* according to its state: the driver's list, the two maps and a room.
\* (ConnectionRUDPMap may have an entry of a connection that is gone: NetSpeed.)
TablesAgree ==
    \A c \in 1 .. made : ~IsAdding(c) /\ ~IsRemoving(c) =>
        IF c \in closed
          THEN c \notin ToSet(listed) /\ c \notin reliable /\ Seats(c) = {}
          ELSE c \in ToSet(listed) /\ c \in reliable /\ c \in rudp /\ Seats(c) # {}

\* A connection has one seat, whatever leaves while AddPlayer goes from room to
\* room, and no room has more players than maxPlayer.
Seating ==
    /\ \A c \in Conns : Cardinality(Seats(c)) <= 1
    /\ \A r \in DOMAIN rooms : Cardinality(rooms[r]) <= MaxPlayer

\* While a job of an open connection runs, its player has a seat: a login that
\* comes with the first datagram finds the room (FindRoomWithConnection).
SeatedBeforeServed ==
    \A w \in Workers : Conn(w) \in Conns \ closed => Seats(Conn(w)) # {}

\* However many threads close a connection at once, one of them removes it.
RemovedOnce ==
    \A t, u \in Threads :
        Conn(t) = Conn(u) /\ thread[t].pc \in Removing /\ thread[u].pc \in Removing => t = u

\* The jobs of a connection run on one worker, so never two of them at a time:
\* nothing in NetConnection is locked against its own jobs.
Confined ==
    \A v, w \in Workers : Conn(v) = Conn(w) /\ Conn(v) # 0 => v = w

\* An address leads to the connection that was made for it until that one is
\* closed, also when a second handshake of the address was completed meanwhile.
RouteKept ==
    [][\A k \in Keys : routed[k] # 0 /\ routed'[k] # routed[k] => routed[k] \in closed]_vars

\* A connection that is closed leaves every table and is freed, for good: no
\* table, snapshot or job holds on to it for ever (the jobs have weak_ptrs).
Forgotten(c) == c \notin ToSet(listed) /\ c \notin reliable /\ Seats(c) = {} /\ ~Held(c)
ClosedIsForgotten == \A c \in Conns : c \in closed ~> []Forgotten(c)

\* Every job of a connection goes to the worker it is assigned to
\* (docs/reference/engine-design.md: all its jobs are pinned to that queue).
JobsArePinned == stray = {}
=============================================================================
