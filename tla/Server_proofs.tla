--------------------------- MODULE Server_proofs ----------------------------
(***************************************************************************)
(* The types of Server, that the jobs of a connection run on one worker,   *)
(* that one thread removes it, that its route stays, that the tables agree *)
(* on it, and that a player has one seat, for all numbers of addresses,    *)
(* threads, connections and players.                                       *)
(*                                                                         *)
(* Tables and seats: a connection is hidden in the hands of its maker      *)
(* until it is published; from then on it is in every table, until the one *)
(* thread that won the exchange takes it out of them, in a fixed order.    *)
(* So where that thread is says which tables still have the connection and *)
(* whether its player still has a seat (TablesInv).                        *)
(***************************************************************************)
EXTENDS Server, SequenceTheorems, FiniteSetTheorems, WellFoundedInduction, TLAPS

Pc(t) == thread[t].pc

\* A thread that is at work on a connection knows it.
KnowsConn == \A t \in Threads : Pc(t) \notin {"idle", "sweep", "unrouted"} => Conn(t) \in Conns

\* Connections that are being added: each by one receiver, and without an owner.
AddingOK ==
    /\ \A t \in Threads : Pc(t) \in Adding =>
          t \in Receivers /\ Conn(t) <= made /\ owner[Conn(t)] = Unassigned
    /\ \A t, u \in Threads : Pc(t) \in Adding /\ Pc(u) \in Adding /\ Conn(t) = Conn(u) => t = u
    /\ \A c \in Conns : c > made => owner[c] = Unassigned

\* What is in a queue, or in the hands of a worker, is of the worker.
QueuedOK == \A w \in Workers : \A i \in DOMAIN queue[w] : owner[queue[w][i].conn] = w
JobsOK ==
    /\ QueuedOK
    /\ \A w \in Workers : Conn(w) # 0 => owner[Conn(w)] = w

RemovingOK ==
    /\ \A t \in Threads : Pc(t) \in Removing => Conn(t) \in closed
    /\ RemovedOnce

Books == KnowsConn /\ AddingOK /\ JobsOK /\ RemovingOK
IInv == TypeOK /\ Books
-----------------------------------------------------------------------------
PCs == Receiving \cup Adding \cup Removing \cup Working \cup {"sweep", "close"}
HasNoConn == {"idle", "sweep", "unrouted"}

LEMMA StateFields ==
  ASSUME NEW pc \in PCs, NEW c \in 0 .. MaxConns, NEW k \in Keys \cup {NoKey}, NEW r \in Nat
  PROVE  /\ State(pc, c, k, r) \in ThreadState
         /\ State(pc, c, k, r).pc = pc /\ State(pc, c, k, r).conn = c
BY DEF State, ThreadState, PCs

LEMMA BecomesEffect ==
  ASSUME TypeOK, NEW t \in Threads, NEW s \in ThreadState, Becomes(t, s)
  PROVE  /\ thread' \in [Threads -> ThreadState]
         /\ Pc(t)' = s.pc /\ Conn(t)' = s.conn
         /\ \A u \in Threads : u # t => Pc(u)' = Pc(u) /\ Conn(u)' = Conn(u)
BY DEF TypeOK, Becomes, Pc, Conn

(* The fields of a thread's state. *)
LEMMA ThreadFields ==
  ASSUME TypeOK, NEW t \in Threads
  PROVE  /\ Pc(t) \in PCs /\ Conn(t) \in 0 .. MaxConns
         /\ thread[t].key \in Keys \cup {NoKey} /\ thread[t].room \in Nat
BY DEF TypeOK, ThreadState, PCs, Pc, Conn

LEMMA RestFields ==
  ASSUME ConstantsOK, TypeOK, NEW t \in Threads
  PROVE  /\ Rest(t) \in ThreadState
         /\ Rest(t).pc \in {"idle", "sweep", "flush"}
         /\ Rest(t).pc = "flush" => Rest(t).conn = Conn(t)
         /\ Rest(t).conn \in {0, Conn(t)}
<1>1. Conn(t) \in 0 .. MaxConns /\ 0 \in 0 .. MaxConns
  BY ThreadFields DEF ConstantsOK
<1>2. {"idle", "sweep", "flush"} \subseteq PCs
  BY DEF PCs, Receiving, Working
<1> QED
  BY <1>1, <1>2, StateFields DEF Rest, Idle

(* A step of a thread that neither begins to add nor to remove a connection,  *)
(* and takes up a connection as a worker only when it is the owner.           *)
LEMMA ThreadStep ==
  ASSUME IInv, NEW t \in Threads, NEW s \in ThreadState, Becomes(t, s),
         UNCHANGED << made, closed, owner >>, QueuedOK',
         s.pc \in HasNoConn \/ s.conn \in Conns,
         s.pc \in Adding => Pc(t) \in Adding /\ s.conn = Conn(t),
         s.pc \in Removing => Pc(t) \in Removing /\ s.conn = Conn(t),
         t \in Workers => s.conn = 0 \/ owner[s.conn] = t
  PROVE  Books'
<1> TypeOK /\ KnowsConn /\ AddingOK /\ JobsOK /\ RemovingOK
  BY DEF IInv, Books
<1>1. /\ Pc(t)' = s.pc /\ Conn(t)' = s.conn
      /\ \A u \in Threads : u # t => Pc(u)' = Pc(u) /\ Conn(u)' = Conn(u)
  BY BecomesEffect
<1>2. KnowsConn'
  BY <1>1 DEF KnowsConn, HasNoConn
<1>3. AddingOK'
  <2>1. \A u \in Threads : Pc(u)' \in Adding => Pc(u) \in Adding /\ Conn(u)' = Conn(u)
    BY <1>1
  <2> QED
    BY <2>1 DEF AddingOK
<1>4. JobsOK'
  <2>1. \A w \in Workers : w \in Threads
    BY DEF Threads
  <2>2. \A w \in Workers : Conn(w)' # 0 => owner'[Conn(w)'] = w
    BY <1>1, <2>1 DEF JobsOK
  <2> QED
    BY <2>2 DEF JobsOK
<1>5. RemovingOK'
  <2>1. \A u \in Threads : Pc(u)' \in Removing => Pc(u) \in Removing /\ Conn(u)' = Conn(u)
    BY <1>1
  <2>2. \A u, v \in Threads :
          Conn(u)' = Conn(v)' /\ Pc(u)' \in Removing /\ Pc(v)' \in Removing => u = v
    BY <2>1 DEF RemovingOK, RemovedOnce, Pc
  <2> QED
    BY <2>1, <2>2 DEF RemovingOK, RemovedOnce, Pc
<1> QED
  BY <1>2, <1>3, <1>4, <1>5 DEF Books

LEMMA QueuedStays == ASSUME IInv, UNCHANGED << owner, queue >> PROVE QueuedOK'
BY DEF IInv, Books, JobsOK, QueuedOK

(* A step that touches no queue and takes up no connection. *)
LEMMA PlainStep ==
  ASSUME IInv, NEW t \in Threads, NEW s \in ThreadState, Becomes(t, s),
         UNCHANGED << made, closed, owner, queue >>,
         s.pc \in HasNoConn \/ s.conn \in Conns,
         s.pc \in Adding => Pc(t) \in Adding /\ s.conn = Conn(t),
         s.pc \in Removing => Pc(t) \in Removing /\ s.conn = Conn(t),
         t \in Workers => s.conn \in {0, Conn(t)}
  PROVE  Books'
<1>1. QueuedOK'
  BY QueuedStays
<1>2. t \in Workers => s.conn = 0 \/ owner[s.conn] = t
  BY DEF IInv, Books, JobsOK
<1> QED
  BY <1>1, <1>2, ThreadStep

(* A step that leaves the threads, the owners and the queues alone. *)
LEMMA QuietStep ==
  ASSUME IInv, UNCHANGED << made, closed, owner, queue, thread >>
  PROVE  Books'
BY DEF IInv, Books, KnowsConn, AddingOK, JobsOK, QueuedOK, RemovingOK, RemovedOnce, Pc, Conn

(* The forms a plain step has: to another place with the same connection, and *)
(* back to where the thread goes on.                                          *)
LEMMA GotoStep ==
  ASSUME IInv, NEW t \in Threads, NEW pc \in PCs, NEW r \in Nat,
         GotoRoom(t, pc, r) \/ (Goto(t, pc) /\ r = thread[t].room),
         UNCHANGED << made, closed, owner, queue >>,
         pc \in HasNoConn \/ Pc(t) \notin HasNoConn,
         pc \in Adding => Pc(t) \in Adding,
         pc \in Removing => Pc(t) \in Removing
  PROVE  thread' \in [Threads -> ThreadState] /\ Books'
<1> TypeOK /\ KnowsConn
  BY DEF IInv, Books
<1> DEFINE s == State(pc, Conn(t), thread[t].key, r)
<1>1. /\ Conn(t) \in 0 .. MaxConns /\ thread[t].key \in Keys \cup {NoKey}
      /\ Pc(t) \notin HasNoConn => Conn(t) \in Conns
  BY ThreadFields DEF KnowsConn, HasNoConn
<1>2. s \in ThreadState /\ s.pc = pc /\ s.conn = Conn(t)
  BY <1>1, StateFields
<1>3. Becomes(t, s)
  BY DEF Goto, GotoRoom
<1> HIDE DEF s
<1> QED
  BY <1>1, <1>2, <1>3, BecomesEffect, PlainStep

LEMMA ReturnStep ==
  ASSUME ConstantsOK, IInv, NEW t \in Threads, Return(t),
         UNCHANGED << made, closed, owner >>, QueuedOK',
         t \in Receivers \/ Pc(t) \notin HasNoConn
  PROVE  thread' \in [Threads -> ThreadState] /\ Books'
<1> TypeOK /\ KnowsConn /\ Books
  BY DEF IInv, Books
<1>1. PICK s : s = Rest(t)
  OBVIOUS
<1>2. /\ s \in ThreadState /\ s.pc \in {"idle", "sweep", "flush"}
      /\ s.pc = "flush" => s.conn = Conn(t)
      /\ s.conn \in {0, Conn(t)}
  BY <1>1, RestFields
<1>3. s.pc = "flush" => t \notin Receivers
  BY <1>1 DEF Rest, State, Idle, Receivers, ConstantsOK
<1>4. s.pc \in HasNoConn \/ s.conn \in Conns
  BY <1>2, <1>3 DEF KnowsConn, HasNoConn
<1>5. s.pc \notin Adding \cup Removing
  BY <1>2 DEF Adding, Removing
<1>6. Becomes(t, s)
  BY <1>1 DEF Return
<1>7. t \in Workers => s.conn = 0 \/ owner[s.conn] = t
  BY <1>2 DEF Books, JobsOK
<1> QED
  BY <1>2, <1>4, <1>5, <1>6, <1>7, BecomesEffect, ThreadStep
-----------------------------------------------------------------------------
LEMMA InitInv == ASSUME ConstantsOK, Init PROVE IInv
<1>1. 0 \in Workers /\ 0 \in 0 .. MaxConns /\ Unassigned \notin Workers
  BY DEF ConstantsOK, Workers, Unassigned
<1>2. \A t \in Threads : thread[t] = State("idle", 0, NoKey, 0)
  BY DEF Init, Idle
<1>3. State("idle", 0, NoKey, 0) \in ThreadState
      /\ \A t \in Threads : Pc(t) = "idle" /\ Conn(t) = 0
  BY <1>1, <1>2 DEF State, ThreadState, Receiving, Pc, Conn
<1>4. TypeOK
  <2>1. thread \in [Threads -> ThreadState]
    BY <1>3 DEF Init, Idle
  <2>2. << {} >> \in Seq(SUBSET Conns) /\ << >> \in Seq(Conns) /\ << >> \in Seq(Job)
    OBVIOUS
  <2>3. sweep \in [phase : Phases, all : Seq(Conns), at : Nat \ {0}]
    BY <2>2 DEF Init, Phases
  <2> QED
    BY <1>1, <2>1, <2>2, <2>3 DEF Init, TypeOK
<1>5. "idle" \notin Adding \cup Removing
  BY DEF Adding, Removing
<1>6. KnowsConn
  BY <1>3 DEF KnowsConn
<1>7. AddingOK
  BY <1>3, <1>5 DEF AddingOK, Init
<1>8. JobsOK
  <2>1. \A w \in Workers : w \in Threads /\ DOMAIN queue[w] = {}
    BY DEF Init, Threads
  <2> QED
    BY <1>3, <2>1 DEF JobsOK, QueuedOK
<1>9. RemovingOK
  BY <1>3, <1>5 DEF RemovingOK, RemovedOnce, Pc
<1> QED
  BY <1>4, <1>6, <1>7, <1>8, <1>9 DEF IInv, Books

LEMMA WithoutType ==
  ASSUME NEW seq \in Seq(Conns), NEW c
  PROVE  Without(seq, c) \in Seq(Conns)
<1>1. CASE c \in ToSet(seq)
  <2>1. PICK j \in DOMAIN seq : j = CHOOSE i \in DOMAIN seq : seq[i] = c
    BY <1>1 DEF ToSet
  <2>2. j \in 1 .. Len(seq)
    OBVIOUS
  <2>3. SubSeq(seq, 1, j - 1) \in Seq(Conns) /\ SubSeq(seq, j + 1, Len(seq)) \in Seq(Conns)
    BY <2>2, SubSeqProperties
  <2>4. Without(seq, c) = SubSeq(seq, 1, j - 1) \o SubSeq(seq, j + 1, Len(seq))
    BY <1>1, <2>1 DEF Without, RemoveAt
  <2> QED
    BY <2>3, <2>4, ConcatProperties
<1>2. CASE c \notin ToSet(seq)
  BY <1>2 DEF Without
<1> QED
  BY <1>1, <1>2
-----------------------------------------------------------------------------
(* Each action keeps the invariant. *)

LEMMA EnterMapsStep == ASSUME ConstantsOK, IInv, NEW t \in Threads, EnterMaps(t) PROVE IInv'
<1> TypeOK /\ Books
  BY DEF IInv
<1>1. /\ Pc(t) = "enter" /\ thread[t].room \in Nat
      /\ UNCHANGED << made, closed, owner, queue >>
  BY ThreadFields DEF EnterMaps, At, Pc, tables, owners, service, players, jobs
<1>2. Goto(t, "lockRooms") /\ "lockRooms" \in PCs
  BY DEF EnterMaps, PCs, Receiving, Adding, Removing, Working
<1>3. thread' \in [Threads -> ThreadState] /\ Books'
  BY <1>1, <1>2, GotoStep DEF HasNoConn, Adding, Removing
<1>4. rudp' \subseteq Conns /\ reliable' \subseteq Conns
  BY <1>1 DEF EnterMaps, TypeOK, Books, KnowsConn
<1> QED
  BY <1>3, <1>4 DEF IInv, TypeOK, EnterMaps, tables, owners, players, jobs

LEMMA LeaveMapsStep == ASSUME ConstantsOK, IInv, NEW t \in Threads, LeaveMaps(t) PROVE IInv'
<1> TypeOK /\ Books
  BY DEF IInv
<1>1. /\ Pc(t) = "leaveMaps" /\ thread[t].room \in Nat
      /\ UNCHANGED << made, closed, owner, queue >>
  BY ThreadFields DEF LeaveMaps, At, Pc, tables, owners, service, players, jobs
<1>2. Goto(t, "findSeat") /\ "findSeat" \in PCs
  BY DEF LeaveMaps, PCs, Receiving, Adding, Removing, Working
<1>3. thread' \in [Threads -> ThreadState] /\ Books'
  BY <1>1, <1>2, GotoStep DEF HasNoConn, Adding, Removing
<1>4. rudp' \subseteq Conns /\ reliable' \subseteq Conns
  BY <1>1 DEF LeaveMaps, TypeOK, Books, KnowsConn
<1> QED
  BY <1>3, <1>4 DEF IInv, TypeOK, LeaveMaps, tables, owners, players, jobs

LEMMA UpdateStatusStep == ASSUME ConstantsOK, IInv, NEW t \in Threads, UpdateStatus(t) PROVE IInv'
<1> TypeOK /\ Books
  BY DEF IInv
<1>1. /\ Pc(t) = "netSpeed" /\ thread[t].room \in Nat
      /\ UNCHANGED << made, closed, owner, queue >>
  BY ThreadFields DEF UpdateStatus, At, Pc, tables, owners, service, players, jobs
<1>2. Goto(t, "dispatch") /\ "dispatch" \in PCs
  BY DEF UpdateStatus, PCs, Receiving, Adding, Removing, Working
<1>3. thread' \in [Threads -> ThreadState] /\ Books'
  BY <1>1, <1>2, GotoStep DEF HasNoConn, Adding, Removing
<1> QED
  BY <1>3 DEF IInv, TypeOK, UpdateStatus, tables, owners, service, players, jobs

LEMMA NetSpeedStep == ASSUME ConstantsOK, IInv, NEW t \in Threads, NetSpeed(t) PROVE IInv'
<1> TypeOK /\ Books
  BY DEF IInv
<1>1. /\ Pc(t) = "dispatch" /\ thread[t].room \in Nat
      /\ UNCHANGED << made, closed, owner, queue >>
  BY ThreadFields DEF NetSpeed, At, Pc, tables, owners, service, players, jobs
<1>2. Goto(t, "netSpeed") /\ "netSpeed" \in PCs
  BY DEF NetSpeed, PCs, Receiving, Adding, Removing, Working
<1>3. thread' \in [Threads -> ThreadState] /\ Books'
  BY <1>1, <1>2, GotoStep DEF HasNoConn, Adding, Removing
<1>4. rudp' \subseteq Conns /\ reliable' \subseteq Conns
  BY <1>1 DEF NetSpeed, TypeOK, Books, KnowsConn
<1> QED
  BY <1>3, <1>4 DEF IInv, TypeOK, NetSpeed, tables, owners, players, jobs

LEMMA LockRoomsStep == ASSUME ConstantsOK, IInv, NEW t \in Threads, LockRooms(t) PROVE IInv'
<1> TypeOK /\ Books
  BY DEF IInv
<1>1. /\ Pc(t) = "lockRooms" /\ thread[t].room \in Nat
      /\ UNCHANGED << made, closed, owner, queue >>
  BY ThreadFields DEF LockRooms, At, Pc, tables, owners, service, players, jobs
<1>2. GotoRoom(t, "seat", 1) /\ "seat" \in PCs
  BY DEF LockRooms, PCs, Adding
<1>3. thread' \in [Threads -> ThreadState] /\ Books'
  BY <1>1, <1>2, GotoStep DEF HasNoConn, Adding, Removing
<1> QED
  BY <1>3 DEF IInv, TypeOK, LockRooms, tables, owners, service, players, jobs

LEMMA CloseInJobStep == ASSUME ConstantsOK, IInv, NEW t \in Threads, CloseInJob(t) PROVE IInv'
<1> TypeOK /\ Books
  BY DEF IInv
<1>1. /\ Pc(t) \in {"receive", "dispatch"} /\ thread[t].room \in Nat
      /\ UNCHANGED << made, closed, owner, queue >>
  BY ThreadFields DEF CloseInJob, At, Pc, tables, owners, service, players, jobs
<1>2. Goto(t, "close") /\ "close" \in PCs
  BY DEF CloseInJob, PCs
<1>3. thread' \in [Threads -> ThreadState] /\ Books'
  BY <1>1, <1>2, GotoStep DEF HasNoConn, Adding, Removing
<1> QED
  BY <1>3 DEF IInv, TypeOK, CloseInJob, tables, owners, service, players, jobs

LEMMA SeatOfType == ASSUME TypeOK, NEW c PROVE SeatOf(c) \in Nat
<1>1. DOMAIN rooms \subseteq Nat
  BY DEF TypeOK
<1>2. CASE \E r \in DOMAIN rooms : c \in rooms[r]
  <2>1. \E r \in DOMAIN rooms : c \in rooms[r] /\ \A q \in 1 .. r - 1 : c \notin rooms[q]
    <3> DEFINE S == {r \in DOMAIN rooms : c \in rooms[r]}
    <3>1. S # {} /\ S \subseteq Nat
      BY <1>1, <1>2
    <3>2. PICK m \in S : \A r \in S : m <= r
      <4> DEFINE R == {e \in Nat \X Nat : e[1] < e[2]}
      <4>1. IsWellFoundedOn(R, Nat)
        BY NatLessThanWellFounded DEF OpToRel
      <4>2. PICK m \in S : \A r \in S : << r, m >> \notin R
        BY <3>1, <4>1, WFMin
      <4>3. \A a, b \in Nat : a < b => << a, b >> \in R
        OBVIOUS
      <4>4. \A r \in S : m \in Nat /\ r \in Nat /\ ~(r < m)
        BY <3>1, <4>2, <4>3
      <4> HIDE DEF R, S
      <4> QED
        BY <4>4
    <3>3. \A q \in 1 .. m - 1 : q \in DOMAIN rooms
      BY <3>2 DEF TypeOK
    <3> QED
      BY <3>2, <3>3, <1>1
  <2> QED
    BY <1>1, <1>2, <2>1 DEF SeatOf
<1> QED
  BY <1>2 DEF SeatOf

LEMMA LoginStep == ASSUME ConstantsOK, IInv, NEW t \in Threads, Login(t) PROVE IInv'
<1> TypeOK /\ Books
  BY DEF IInv
<1>1. /\ Pc(t) = "dispatch" /\ thread[t].room \in Nat
      /\ UNCHANGED << made, closed, owner, queue >>
  BY ThreadFields DEF Login, At, Pc, tables, owners, service, players, jobs
<1>2. GotoRoom(t, "verify", SeatOf(Conn(t))) /\ "verify" \in PCs /\ SeatOf(Conn(t)) \in Nat
  BY SeatOfType DEF Login, PCs, Working
<1>3. thread' \in [Threads -> ThreadState] /\ Books'
  BY <1>1, <1>2, GotoStep DEF HasNoConn, Adding, Removing
<1> QED
  BY <1>3 DEF IInv, TypeOK, Login, tables, owners, service, players, jobs

LEMMA VerifyStep == ASSUME ConstantsOK, IInv, NEW t \in Threads, Verify(t) PROVE IInv'
<1> TypeOK /\ Books
  BY DEF IInv
<1>1. /\ Pc(t) = "verify" /\ thread[t].room \in Nat
      /\ UNCHANGED << made, closed, owner, queue >>
  BY ThreadFields DEF Verify, At, Pc, tables, owners, service, players, jobs
<1>2. GotoRoom(t, "dispatch", 0) /\ "dispatch" \in PCs
  BY DEF Verify, PCs, Working
<1>3. thread' \in [Threads -> ThreadState] /\ Books'
  BY <1>1, <1>2, GotoStep DEF HasNoConn, Adding, Removing
<1>4. verified' \subseteq Conns
  BY <1>1 DEF Verify, TypeOK, Books, KnowsConn
<1> QED
  BY <1>3, <1>4 DEF IInv, TypeOK, Verify, tables, owners, service, players, jobs

LEMMA UnlistStep == ASSUME ConstantsOK, IInv, NEW t \in Threads, Unlist(t) PROVE IInv'
<1> TypeOK /\ Books
  BY DEF IInv
<1>1. /\ Pc(t) = "unlist" /\ thread[t].room \in Nat
      /\ UNCHANGED << made, closed, owner, queue >>
  BY ThreadFields DEF Unlist, At, Pc, tables, owners, service, players, jobs
<1>2. Goto(t, "leaveMaps") /\ "leaveMaps" \in PCs
  BY DEF Unlist, PCs, Removing
<1>3. thread' \in [Threads -> ThreadState] /\ Books'
  BY <1>1, <1>2, GotoStep DEF HasNoConn, Adding, Removing
<1>4. routed' \in [Keys -> 0 .. MaxConns]
  BY DEF Unlist, RoutesWithout, TypeOK, ConstantsOK
<1>5. listed' \in Seq(Conns)
  BY WithoutType DEF Unlist, TypeOK
<1> QED
  BY <1>3, <1>4, <1>5 DEF IInv, TypeOK, Unlist, tables, owners, service, players, jobs

LEMMA PublishStep == ASSUME ConstantsOK, IInv, NEW t \in Threads, Publish(t) PROVE IInv'
<1> TypeOK /\ Books
  BY DEF IInv
<1>1. /\ Pc(t) = "publish" /\ thread[t].room \in Nat
      /\ UNCHANGED << made, closed, owner, queue >>
  BY ThreadFields DEF Publish, At, Pc, tables, owners, service, players, jobs
<1>2. Goto(t, "assign") /\ "assign" \in PCs
  BY DEF Publish, PCs, Adding
<1>3. thread' \in [Threads -> ThreadState] /\ Books'
  BY <1>1, <1>2, GotoStep DEF HasNoConn, Adding, Removing
<1>4. Conn(t) \in Conns
  BY <1>1 DEF Books, KnowsConn
<1>5. routed' \in [Keys -> 0 .. MaxConns]
  <2>1. PICK k : k = thread[t].key
    OBVIOUS
  <2>2. k \in Keys => (IF routed[k] = 0 THEN Conn(t) ELSE routed[k]) \in 0 .. MaxConns
    BY <1>4 DEF TypeOK, Conns
  <2>3. routed' = [routed EXCEPT ![k] = IF routed[k] = 0 THEN Conn(t) ELSE routed[k]]
    BY <2>1 DEF Publish
  <2> QED
    BY <2>2, <2>3 DEF TypeOK
<1>6. listed' \in Seq(Conns)
  BY <1>4 DEF Publish, TypeOK
<1> QED
  BY <1>3, <1>5, <1>6 DEF IInv, TypeOK, Publish, tables, owners, service, players, jobs

LEMMA TakeSeatStep == ASSUME ConstantsOK, IInv, NEW t \in Threads, TakeSeat(t) PROVE IInv'
<1> TypeOK /\ Books
  BY DEF IInv
<1>1. /\ Pc(t) = "seat" /\ thread[t].room \in Nat
      /\ UNCHANGED << made, closed, owner, queue >>
  BY ThreadFields DEF TakeSeat, At, Pc, tables, owners, service, players, jobs
<1>2. PICK pc \in {"publish", "seat"}, next \in Nat : GotoRoom(t, pc, next)
  BY <1>1 DEF TakeSeat
<1>3. pc \in PCs
  BY DEF PCs, Adding
<1>4. thread' \in [Threads -> ThreadState] /\ Books'
  BY <1>1, <1>2, <1>3, GotoStep DEF HasNoConn, Adding, Removing
<1>5. Conn(t) \in Conns
  BY <1>1 DEF Books, KnowsConn
<1>6. rooms' \in Seq(SUBSET Conns)
  <2>1. PICK r : r = thread[t].room
    OBVIOUS
  <2>2. CASE r <= Len(rooms) /\ rooms' = [rooms EXCEPT ![r] = @ \cup {Conn(t)}]
    <3>1. r \notin DOMAIN rooms => rooms' = rooms
      BY <2>2 DEF TypeOK
    <3>2. r \in DOMAIN rooms => rooms[r] \cup {Conn(t)} \in SUBSET Conns
      BY <1>5 DEF TypeOK
    <3>3. rooms \in Seq(SUBSET Conns) /\ (r \in DOMAIN rooms => r \in 1 .. Len(rooms))
      BY DEF TypeOK
    <3>4. PICK room : room = rooms[r] \cup {Conn(t)}
      OBVIOUS
    <3>5. rooms' = [rooms EXCEPT ![r] = room]
      BY <2>2, <3>4
    <3> QED
      BY <3>1, <3>2, <3>3, <3>4, <3>5, ExceptSeq
  <2>3. CASE rooms' = Append(rooms, {Conn(t)})
    BY <1>5, <2>3 DEF TypeOK
  <2>4. \/ r <= Len(rooms) /\ rooms' = [rooms EXCEPT ![r] = @ \cup {Conn(t)}]
        \/ rooms' = Append(rooms, {Conn(t)})
        \/ rooms' = rooms
    BY <2>1 DEF TakeSeat
  <2> QED
    BY <2>2, <2>3, <2>4 DEF TypeOK
<1> QED
  BY <1>4, <1>6 DEF IInv, TypeOK, TakeSeat, tables, owners, service, players, jobs

LEMMA FindSeatStep == ASSUME ConstantsOK, IInv, NEW t \in Threads, FindSeat(t) PROVE IInv'
<1> TypeOK /\ Books
  BY DEF IInv
<1>1. /\ Pc(t) = "findSeat" /\ thread[t].room \in Nat
      /\ UNCHANGED << made, closed, owner, queue >>
  BY ThreadFields DEF FindSeat, At, Pc, tables, owners, service, players, jobs
<1>2. SeatOf(Conn(t)) \in Nat /\ "leave" \in PCs
  BY SeatOfType DEF PCs, Removing
<1>3. Return(t) \/ GotoRoom(t, "leave", SeatOf(Conn(t)))
  BY DEF FindSeat
<1>4. thread' \in [Threads -> ThreadState] /\ Books'
  <2>1. CASE Return(t)
    BY <1>1, <2>1, QueuedStays, ReturnStep DEF HasNoConn
  <2>2. CASE GotoRoom(t, "leave", SeatOf(Conn(t)))
    BY <1>1, <1>2, <2>2, GotoStep DEF HasNoConn, Adding, Removing
  <2> QED
    BY <1>3, <2>1, <2>2
<1> QED
  BY <1>4 DEF IInv, TypeOK, FindSeat, tables, owners, service, players, jobs

LEMMA LeaveStep == ASSUME ConstantsOK, IInv, NEW t \in Threads, Leave(t) PROVE IInv'
<1> TypeOK /\ Books
  BY DEF IInv
<1>1. /\ Pc(t) = "leave" /\ thread[t].room \in Nat
      /\ UNCHANGED << made, closed, owner, queue >>
  BY ThreadFields DEF Leave, At, Pc, tables, owners, service, players, jobs
<1>2. thread' \in [Threads -> ThreadState] /\ Books'
  BY <1>1, QueuedStays, ReturnStep DEF Leave, HasNoConn
<1>3. verified' \subseteq Conns
  BY DEF Leave, TypeOK
<1>4. rooms' \in Seq(SUBSET Conns)
  <2>1. PICK r, room : r = thread[t].room /\ room = rooms[r] \ {Conn(t)}
    OBVIOUS
  <2>2. rooms' = [rooms EXCEPT ![r] = room]
    BY <2>1 DEF Leave
  <2>3. r \in DOMAIN rooms => r \in 1 .. Len(rooms) /\ room \in SUBSET Conns
    BY <2>1 DEF TypeOK
  <2>4. r \notin DOMAIN rooms => rooms' = rooms
    BY <2>2 DEF TypeOK
  <2>5. rooms \in Seq(SUBSET Conns)
    BY DEF TypeOK
  <2> QED
    BY <2>2, <2>3, <2>4, <2>5, ExceptSeq
<1> QED
  BY <1>2, <1>3, <1>4 DEF IInv, TypeOK, Leave, tables, owners, service, players, jobs

LEMMA IgnoreStep == ASSUME ConstantsOK, IInv, NEW t \in Threads, t \in Receivers, Ignore(t) PROVE IInv'
<1> TypeOK /\ Books
  BY DEF IInv
<1>1. /\ Pc(t) = "unrouted" /\ thread[t].room \in Nat
      /\ UNCHANGED << made, closed, owner, queue >>
  BY ThreadFields DEF Ignore, At, Pc, tables, owners, service, players, jobs
<1>2. thread' \in [Threads -> ThreadState] /\ Books'
  BY <1>1, QueuedStays, ReturnStep DEF Ignore
<1> QED
  BY <1>2 DEF IInv, TypeOK, Ignore, tables, owners, service, players, jobs

LEMMA EndJobStep == ASSUME ConstantsOK, IInv, NEW t \in Threads, EndJob(t) PROVE IInv'
<1> TypeOK /\ Books
  BY DEF IInv
<1>1. UNCHANGED << made, closed, owner, queue >>
  BY DEF EndJob, jobs, owners
<1>2. PICK s : s = State("idle", 0, NoKey, 0)
  OBVIOUS
<1>3. s \in ThreadState /\ s.pc = "idle" /\ s.conn = 0
  <2>1. "idle" \in PCs /\ 0 \in 0 .. MaxConns
    BY DEF PCs, Receiving, ConstantsOK
  <2> QED
    BY <1>2, <2>1, StateFields
<1>4. Becomes(t, s)
  BY <1>2 DEF EndJob, Idle
<1>5. thread' \in [Threads -> ThreadState] /\ Books'
  BY <1>1, <1>3, <1>4, BecomesEffect, PlainStep DEF HasNoConn, Adding, Removing
<1> QED
  BY <1>5 DEF IInv, TypeOK, EndJob, tables, owners, service, players, jobs

LEMMA RouteStep == ASSUME ConstantsOK, IInv, NEW t \in Threads, t \in Receivers, NEW k \in Keys, Route(t, k) PROVE IInv'
<1> TypeOK /\ Books
  BY DEF IInv
<1>1. UNCHANGED << made, closed, owner, queue >>
  BY DEF Route, jobs, owners
<1>2. PICK s : s = IF routed[k] # 0 THEN State("deliver", routed[k], NoKey, 0)
                   ELSE State("unrouted", 0, k, 0)
  OBVIOUS
<1>3. /\ s \in ThreadState
      /\ s.pc \in {"deliver", "unrouted"}
      /\ s.pc = "deliver" => s.conn \in Conns
  <2>1. /\ {"deliver", "unrouted"} \subseteq PCs /\ 0 \in 0 .. MaxConns
        /\ routed[k] \in 0 .. MaxConns /\ (routed[k] # 0 => routed[k] \in Conns)
    BY DEF PCs, Receiving, ConstantsOK, TypeOK, Conns
  <2>2. CASE routed[k] # 0
    <3>1. s = State("deliver", routed[k], NoKey, 0)
      BY <1>2, <2>2
    <3> QED
      BY <2>1, <2>2, <3>1, StateFields
  <2>3. CASE routed[k] = 0
    <3>1. s = State("unrouted", 0, k, 0)
      BY <1>2, <2>3
    <3> QED
      BY <2>1, <3>1, StateFields
  <2> QED
    BY <2>2, <2>3
<1>4. Becomes(t, s)
  BY <1>2 DEF Route
<1>5. t \notin Workers
  BY DEF ConstantsOK
<1>6. thread' \in [Threads -> ThreadState] /\ Books'
  BY <1>1, <1>3, <1>4, <1>5, BecomesEffect, PlainStep DEF HasNoConn, Adding, Removing
<1> QED
  BY <1>6 DEF IInv, TypeOK, Route, tables, owners, service, players, jobs

LEMMA SweepType ==
  ASSUME NEW all \in Seq(Conns), NEW phase \in Phases
  PROVE  [phase |-> phase, all |-> all, at |-> 1] \in
            [phase : Phases, all : Seq(Conns), at : Nat \ {0}]
OBVIOUS

LEMMA AdvanceType ==
  ASSUME TypeOK, Advance
  PROVE  sweep' \in [phase : Phases, all : Seq(Conns), at : Nat \ {0}]
<1>1. sweep \in [phase : Phases, all : Seq(Conns), at : Nat \ {0}]
  BY DEF TypeOK
<1>2. sweep.at + 1 \in Nat \ {0}
  BY <1>1
<1>3. sweep' = [sweep EXCEPT !.at = sweep.at + 1]
  BY DEF Advance
<1> QED
  BY <1>1, <1>2, <1>3

LEMMA KeepConnectionStep == ASSUME ConstantsOK, IInv, KeepConnection PROVE IInv'
<1> TypeOK /\ Books
  BY DEF IInv
<1>1. UNCHANGED << made, closed, owner, queue, thread >>
  BY DEF KeepConnection, jobs, owners
<1>2. sweep' \in [phase : Phases, all : Seq(Conns), at : Nat \ {0}]
  BY AdvanceType DEF KeepConnection
<1>3. Books'
  BY <1>1, QuietStep
<1> QED
  BY <1>1, <1>2, <1>3 DEF IInv, TypeOK, KeepConnection, tables, owners, service, players, jobs

LEMMA BeginSweepStep == ASSUME ConstantsOK, IInv, BeginSweep PROVE IInv'
<1> TypeOK /\ Books
  BY DEF IInv
<1> Tick \in Threads
  BY DEF Threads, Receivers
<1>1. /\ UNCHANGED << made, closed, owner, queue >> /\ Goto(Tick, "sweep")
      /\ thread[Tick].room \in Nat /\ "sweep" \in PCs
  BY ThreadFields DEF BeginSweep, jobs, owners, PCs
<1>2. listed \in Seq(Conns) /\ << >> \in Seq(Conns) /\ {"timeouts", "stale"} \subseteq Phases
  BY DEF TypeOK, Phases
<1>3. sweep' \in [phase : Phases, all : Seq(Conns), at : Nat \ {0}]
  <2>1. PICK phase \in {"timeouts", "stale"} :
          sweep' = [phase |-> phase, all |-> IF phase = "timeouts" THEN listed ELSE << >>, at |-> 1]
    BY DEF BeginSweep
  <2>2. PICK all : all = IF phase = "timeouts" THEN listed ELSE << >>
    OBVIOUS
  <2> QED
    BY <1>2, <2>1, <2>2, SweepType
<1>4. thread' \in [Threads -> ThreadState] /\ Books'
  BY <1>1, GotoStep DEF HasNoConn, Adding, Removing
<1> QED
  BY <1>3, <1>4 DEF IInv, TypeOK, BeginSweep, tables, owners, service, players, jobs

LEMMA NextPhaseStep == ASSUME ConstantsOK, IInv, NextPhase PROVE IInv'
<1> TypeOK /\ Books
  BY DEF IInv
<1> Tick \in Threads
  BY DEF Threads, Receivers
<1>1. /\ UNCHANGED << made, closed, owner, queue >>
      /\ (Goto(Tick, "idle") \/ UNCHANGED thread)
      /\ thread[Tick].room \in Nat /\ "idle" \in PCs
  BY ThreadFields DEF NextPhase, jobs, owners, PCs, Receiving
<1>2. listed \in Seq(Conns) /\ << >> \in Seq(Conns)
  BY DEF TypeOK
<1>3. sweep' \in [phase : Phases, all : Seq(Conns), at : Nat \ {0}]
  <2>1. PICK phase \in Phases, all \in {listed, << >>} :
          sweep' = [phase |-> phase, all |-> all, at |-> 1]
    <3>1. {"timeouts", "stale", "dispatch", "flush"} = Phases
      BY DEF Phases
    <3> QED
      BY <3>1 DEF NextPhase
  <2> QED
    BY <1>2, <2>1, SweepType
<1>4. thread' \in [Threads -> ThreadState] /\ Books'
  <2>1. CASE Goto(Tick, "idle")
    BY <1>1, <2>1, GotoStep DEF HasNoConn, Adding, Removing
  <2>2. CASE UNCHANGED thread
    BY <1>1, <2>2, QuietStep DEF TypeOK
  <2> QED
    BY <1>1, <2>1, <2>2
<1> QED
  BY <1>3, <1>4 DEF IInv, TypeOK, NextPhase, tables, owners, service, players, jobs

LEMMA TimeOutStep == ASSUME ConstantsOK, IInv, TimeOut PROVE IInv'
<1> TypeOK /\ Books
  BY DEF IInv
<1> Tick \in Threads /\ Tick \notin Workers
  BY DEF Threads, Receivers, ConstantsOK
<1>1. UNCHANGED << made, closed, owner, queue >>
  BY DEF TimeOut, jobs, owners
<1>2. sweep' \in [phase : Phases, all : Seq(Conns), at : Nat \ {0}]
  BY AdvanceType DEF TimeOut
<1>3. Visited \in Conns
  BY DEF TimeOut, InLoop, Visited, TypeOK
<1>4. PICK s : s = State("close", Visited, NoKey, 0)
  OBVIOUS
<1>5. s \in ThreadState /\ s.pc = "close" /\ s.conn \in Conns
  BY <1>3, <1>4, StateFields DEF PCs, Conns
<1>6. Becomes(Tick, s)
  BY <1>4 DEF TimeOut
<1>7. thread' \in [Threads -> ThreadState] /\ Books'
  BY <1>1, <1>5, <1>6, BecomesEffect, PlainStep DEF Adding, Removing
<1> QED
  BY <1>2, <1>7 DEF IInv, TypeOK, TimeOut, tables, owners, service, players, jobs

(* A job is appended to the queue of the owner, or to none. *)
LEMMA PostEffect ==
  ASSUME TypeOK, Books, NEW c \in Conns, NEW kind \in {"receive", "dispatch", "flush"},
         Post(c, kind), UNCHANGED owner
  PROVE  /\ queue' \in [Workers -> Seq(Job)] /\ stray' \subseteq Conns
         /\ QueuedOK'
<1>1. PICK job : job = [conn |-> c, kind |-> kind]
  OBVIOUS
<1>2. job \in Job /\ job.conn = c
  BY <1>1 DEF Job
<1>3. queue \in [Workers -> Seq(Job)] /\ stray \subseteq Conns /\ QueuedOK
  BY DEF TypeOK, Books, JobsOK
<1>4. CASE owner[c] \notin Workers
  BY <1>3, <1>4 DEF Post, QueuedOK
<1>5. CASE owner[c] \in Workers
  <2>1. PICK v \in Workers : v = owner[c]
    BY <1>5
  <2>2. queue' = [queue EXCEPT ![v] = Append(queue[v], job)] /\ stray' = stray
    BY <1>1, <1>5, <2>1 DEF Post
  <2>3. Append(queue[v], job) \in Seq(Job)
    BY <1>2, <1>3
  <2>4. \A w \in Workers : \A i \in DOMAIN queue'[w] : owner[queue'[w][i].conn] = w
    <3> SUFFICES ASSUME NEW w \in Workers, NEW i \in DOMAIN queue'[w]
                 PROVE  owner[queue'[w][i].conn] = w
      OBVIOUS
    <3>1. CASE w # v
      BY <1>3, <2>2, <3>1 DEF QueuedOK
    <3>2. CASE w = v
      <4>1. queue'[w] = Append(queue[v], job) /\ queue[v] \in Seq(Job)
        BY <1>3, <2>2, <3>2
      <4>2. CASE i \in DOMAIN queue[v]
        <5>1. queue'[w][i] = queue[v][i]
          BY <4>1, <4>2
        <5> QED
          BY <1>3, <3>2, <4>2, <5>1 DEF QueuedOK
      <4>3. CASE i \notin DOMAIN queue[v]
        <5>1. queue'[w][i] = job
          BY <4>1, <4>3
        <5> QED
          BY <1>2, <2>1, <3>2, <5>1
      <4> QED
        BY <4>2, <4>3
    <3> QED
      BY <3>1, <3>2
  <2> QED
    BY <1>3, <2>2, <2>3, <2>4 DEF QueuedOK
<1> QED
  BY <1>4, <1>5

LEMMA PostTickJobStep == ASSUME ConstantsOK, IInv, PostTickJob PROVE IInv'
<1> TypeOK /\ Books
  BY DEF IInv
<1>1. /\ UNCHANGED << made, closed, owner, thread >>
      /\ Post(Visited, sweep.phase) /\ sweep.phase \in {"dispatch", "flush"}
  BY DEF PostTickJob, jobs, owners
<1>2. Visited \in Conns
  BY DEF PostTickJob, InLoop, Visited, TypeOK
<1>3. queue' \in [Workers -> Seq(Job)] /\ stray' \subseteq Conns /\ QueuedOK'
  BY <1>1, <1>2, PostEffect
<1>4. sweep' \in [phase : Phases, all : Seq(Conns), at : Nat \ {0}]
  BY AdvanceType DEF PostTickJob
<1>5. Books'
  BY <1>1, <1>3 DEF Books, KnowsConn, AddingOK, JobsOK, RemovingOK, RemovedOnce, Pc, Conn
<1> QED
  BY <1>1, <1>3, <1>4, <1>5 DEF IInv, TypeOK, PostTickJob, tables, owners, service, players, jobs

LEMMA DeliverStep == ASSUME ConstantsOK, IInv, NEW t \in Threads, Deliver(t) PROVE IInv'
<1> TypeOK /\ Books
  BY DEF IInv
<1>1. /\ Pc(t) = "deliver" /\ UNCHANGED << made, closed, owner >> /\ Return(t)
      /\ (Post(Conn(t), "receive") \/ UNCHANGED jobs)
  BY DEF Deliver, At, Pc, owners
<1>2. Conn(t) \in Conns
  BY <1>1 DEF Books, KnowsConn
<1>3. queue' \in [Workers -> Seq(Job)] /\ stray' \subseteq Conns /\ QueuedOK'
  <2>1. CASE Post(Conn(t), "receive")
    BY <1>1, <1>2, <2>1, PostEffect
  <2>2. CASE UNCHANGED jobs
    BY <1>1, <2>2, QueuedStays DEF jobs, TypeOK
  <2> QED
    BY <1>1, <2>1, <2>2
<1>4. thread' \in [Threads -> ThreadState] /\ Books'
  BY <1>1, <1>3, ReturnStep DEF HasNoConn
<1> QED
  BY <1>3, <1>4 DEF IInv, TypeOK, Deliver, tables, owners, service, players, jobs

LEMMA TakeJobStep == ASSUME ConstantsOK, IInv, NEW t \in Threads, t \in Workers, TakeJob(t) PROVE IInv'
<1> TypeOK /\ Books
  BY DEF IInv
<1>1. UNCHANGED << made, closed, owner >> /\ Pc(t) = "idle"
  BY DEF TakeJob, owners, At, Pc
<1>2. PICK q : q = queue[t]
  OBVIOUS
<1>3. q \in Seq(Job) /\ q # << >> /\ queue' = [queue EXCEPT ![t] = Tail(q)]
  BY <1>2 DEF TakeJob, TypeOK
<1>4. Tail(q) \in Seq(Job) /\ \A i \in DOMAIN Tail(q) : i + 1 \in DOMAIN q /\ Tail(q)[i] = q[i + 1]
  BY <1>3, HeadTailProperties
<1>5. queue' \in [Workers -> Seq(Job)]
  BY <1>3, <1>4 DEF TypeOK
<1>6. QueuedOK'
  <2> SUFFICES ASSUME NEW w \in Workers, NEW i \in DOMAIN queue'[w]
               PROVE  owner[queue'[w][i].conn] = w
    BY <1>1 DEF QueuedOK
  <2>1. QueuedOK
    BY DEF Books, JobsOK
  <2>2. CASE w # t
    BY <1>3, <2>1, <2>2 DEF QueuedOK, TypeOK
  <2>3. CASE w = t
    <3>1. queue'[w] = Tail(q)
      BY <1>3, <2>3 DEF TypeOK
    <3> QED
      BY <1>2, <1>4, <2>1, <2>3, <3>1 DEF QueuedOK
  <2> QED
    BY <2>2, <2>3
<1>7. thread' \in [Threads -> ThreadState] /\ Books'
  <2>1. CASE UNCHANGED thread
    BY <1>1, <1>6, <2>1 DEF TypeOK, Books, KnowsConn, AddingOK, JobsOK, RemovingOK, RemovedOnce, Pc, Conn
  <2>2. CASE ~UNCHANGED thread
    <3>1. PICK j : j = Head(q)
      OBVIOUS
    <3>2. j \in Job /\ 1 \in DOMAIN q /\ j = q[1]
      BY <1>3, <3>1, HeadTailProperties
    <3>3. /\ j.conn \in Conns /\ j.conn \in 0 .. MaxConns
          /\ j.kind \in {"receive", "dispatch", "flush"}
      BY <3>2 DEF Job, Conns
    <3>4. owner[j.conn] = t
      BY <1>2, <3>2 DEF Books, JobsOK, QueuedOK
    <3>5. PICK s : s = State(j.kind, j.conn, NoKey, 0)
      OBVIOUS
    <3>6. s \in ThreadState /\ s.pc \in {"receive", "dispatch", "flush"} /\ s.conn = j.conn
      <4>1. j.kind \in PCs
        BY <3>3 DEF PCs, Working
      <4> QED
        BY <3>3, <3>5, <4>1, StateFields
    <3>7. Becomes(t, s)
      BY <1>2, <2>2, <3>1, <3>5 DEF TakeJob
    <3> QED
      BY <1>1, <1>6, <3>3, <3>4, <3>6, <3>7, BecomesEffect, ThreadStep DEF Adding, Removing
  <2> QED
    BY <2>1, <2>2
<1> QED
  BY <1>5, <1>7 DEF IInv, TypeOK, TakeJob, tables, owners, service, players, jobs

LEMMA ExchangeStep == ASSUME ConstantsOK, IInv, NEW t \in Threads, Exchange(t) PROVE IInv'
<1> TypeOK /\ Books
  BY DEF IInv
<1>1. /\ Pc(t) = "close" /\ UNCHANGED << made, owner, queue >>
      /\ thread[t].room \in Nat /\ Conn(t) \in Conns
  BY ThreadFields DEF Exchange, At, Pc, owners, jobs, Books, KnowsConn
<1>2. CASE Conn(t) \in closed
  <2>1. Return(t) /\ UNCHANGED closed
    BY <1>2 DEF Exchange
  <2>2. thread' \in [Threads -> ThreadState] /\ Books'
    BY <1>1, <2>1, QueuedStays, ReturnStep DEF HasNoConn
  <2> QED
    BY <2>1, <2>2 DEF IInv, TypeOK, Exchange, tables, owners, service, players, jobs
<1>3. CASE Conn(t) \notin closed
  <2>1. Goto(t, "unlist") /\ closed' = closed \cup {Conn(t)}
    BY <1>3 DEF Exchange
  <2>2. PICK s : s = State("unlist", Conn(t), thread[t].key, thread[t].room)
    OBVIOUS
  <2>3. s \in ThreadState /\ s.pc = "unlist" /\ s.conn = Conn(t)
    <3>1. /\ "unlist" \in PCs /\ Conn(t) \in 0 .. MaxConns
          /\ thread[t].key \in Keys \cup {NoKey} /\ thread[t].room \in Nat
      BY ThreadFields DEF PCs, Removing
    <3> QED
      BY <2>2, <3>1, StateFields
  <2>4. Becomes(t, s)
    BY <2>1, <2>2 DEF Goto
  <2>5. /\ thread' \in [Threads -> ThreadState]
        /\ Pc(t)' = "unlist" /\ Conn(t)' = Conn(t)
        /\ \A u \in Threads : u # t => Pc(u)' = Pc(u) /\ Conn(u)' = Conn(u)
    BY <2>3, <2>4, BecomesEffect
  <2>6. KnowsConn'
    BY <1>1, <2>5 DEF Books, KnowsConn
  <2>7. AddingOK'
    <3>1. \A u \in Threads : Pc(u)' \in Adding => Pc(u) \in Adding /\ Conn(u)' = Conn(u)
      BY <2>5 DEF Adding
    <3> QED
      BY <1>1, <3>1 DEF Books, AddingOK
  <2>8. JobsOK'
    <3>1. \A w \in Workers : w \in Threads
      BY DEF Threads
    <3> QED
      BY <1>1, <2>5, <3>1, QueuedStays DEF Books, JobsOK
  <2>9. RemovingOK'
    <3>1. \A u \in Threads : u # t /\ Pc(u)' \in Removing =>
            Pc(u) \in Removing /\ Conn(u)' = Conn(u) /\ Conn(u) \in closed
      BY <2>5 DEF Books, RemovingOK
    <3>2. \A u \in Threads : Pc(u)' \in Removing => Conn(u)' \in closed'
      BY <2>1, <2>5, <3>1
    <3>3. \A u, v \in Threads :
            Conn(u)' = Conn(v)' /\ Pc(u)' \in Removing /\ Pc(v)' \in Removing => u = v
      BY <1>3, <2>5, <3>1 DEF Books, RemovingOK, RemovedOnce, Pc
    <3> QED
      BY <3>2, <3>3 DEF RemovingOK, RemovedOnce, Pc
  <2>10. closed' \subseteq Conns
    BY <1>1, <2>1 DEF TypeOK
  <2> QED
    BY <2>5, <2>6, <2>7, <2>8, <2>9, <2>10
       DEF IInv, Books, TypeOK, Exchange, tables, owners, service, players, jobs
<1> QED
  BY <1>2, <1>3

LEMMA AddClientStep == ASSUME ConstantsOK, IInv, NEW t \in Threads, t \in Receivers, AddClient(t) PROVE IInv'
<1> TypeOK /\ Books
  BY DEF IInv
<1>1. made' = made + 1 /\ UNCHANGED << closed, owner, queue >> /\ t \notin Workers
  BY DEF AddClient, owners, jobs, ConstantsOK
<1>2. made \in Nat /\ made' \in 0 .. MaxConns /\ made' \in Conns
  BY DEF AddClient, TypeOK, Conns, ConstantsOK
<1>3. PICK s : s = State("enter", made', thread[t].key, 0)
  OBVIOUS
<1>4. s \in ThreadState /\ s.pc = "enter" /\ s.conn = made'
  <2>1. "enter" \in PCs /\ thread[t].key \in Keys \cup {NoKey} /\ 0 \in Nat
    BY ThreadFields DEF PCs, Adding
  <2> QED
    BY <1>2, <1>3, <2>1, StateFields
<1>5. Becomes(t, s)
  BY <1>1, <1>3 DEF AddClient
<1>6. /\ thread' \in [Threads -> ThreadState]
      /\ Pc(t)' = "enter" /\ Conn(t)' = made'
      /\ \A u \in Threads : u # t => Pc(u)' = Pc(u) /\ Conn(u)' = Conn(u)
  BY <1>4, <1>5, BecomesEffect
<1>7. KnowsConn'
  BY <1>2, <1>6 DEF Books, KnowsConn
<1>8. AddingOK'
  <2>1. \A u \in Threads : u # t /\ Pc(u)' \in Adding =>
          Pc(u) \in Adding /\ Conn(u)' = Conn(u) /\ Conn(u) <= made
    BY <1>6 DEF Books, AddingOK
  <2>2. \A u \in Threads : u # t /\ Pc(u)' \in Adding => Conn(u)' # made' /\ Conn(u)' <= made'
    BY <1>1, <1>2, <2>1, ThreadFields
  <2>3. owner'[made'] = Unassigned
    BY <1>1, <1>2 DEF Books, AddingOK
  <2>4. \A u \in Threads : Pc(u)' \in Adding =>
          u \in Receivers /\ Conn(u)' <= made' /\ owner'[Conn(u)'] = Unassigned
    BY <1>1, <1>2, <1>6, <2>1, <2>2, <2>3 DEF Books, AddingOK
  <2>5. \A u, v \in Threads :
          Pc(u)' \in Adding /\ Pc(v)' \in Adding /\ Conn(u)' = Conn(v)' => u = v
    BY <1>6, <2>1, <2>2 DEF Books, AddingOK
  <2>6. \A c \in Conns : c > made' => owner'[c] = Unassigned
    BY <1>1, <1>2 DEF Books, AddingOK, Conns
  <2> QED
    BY <2>4, <2>5, <2>6 DEF AddingOK
<1>9. JobsOK'
  <2>1. \A w \in Workers : w \in Threads /\ w # t
    BY <1>1 DEF Threads
  <2> QED
    BY <1>1, <1>6, <2>1, QueuedStays DEF Books, JobsOK
<1>10. RemovingOK'
  <2>1. \A u \in Threads : Pc(u)' \in Removing => u # t /\ Pc(u) \in Removing /\ Conn(u)' = Conn(u)
    BY <1>6 DEF Removing
  <2> QED
    BY <1>1, <2>1 DEF Books, RemovingOK, RemovedOnce, Pc
<1> QED
  BY <1>2, <1>6, <1>7, <1>8, <1>9, <1>10
     DEF IInv, Books, TypeOK, AddClient, tables, owners, service, players, jobs

LEMMA AssignConnectionThreadIndexStep == ASSUME ConstantsOK, IInv, NEW t \in Threads, AssignConnectionThreadIndex(t) PROVE IInv'
<1> TypeOK /\ Books
  BY DEF IInv
<1>1. /\ Pc(t) = "assign" /\ Return(t) /\ UNCHANGED << made, closed, queue >>
      /\ Conn(t) \in Conns /\ t \notin Workers
  <2>1. Pc(t) = "assign" /\ Return(t) /\ UNCHANGED << made, closed, queue >>
    BY DEF AssignConnectionThreadIndex, jobs, At, Pc
  <2>2. t \in Receivers
    BY <2>1 DEF Books, AddingOK, Adding
  <2> QED
    BY <2>1, <2>2 DEF Books, KnowsConn, ConstantsOK
<1>2. nextOwner \in Workers /\ nextOwner' \in Workers /\ Unassigned \notin Workers
  BY DEF AssignConnectionThreadIndex, NextOwner, Workers, Unassigned, TypeOK, ConstantsOK
<1>3. owner' = [owner EXCEPT ![Conn(t)] = nextOwner] /\ owner \in [Conns -> Workers \cup {Unassigned}]
  BY DEF AssignConnectionThreadIndex, TypeOK
<1>4. owner' \in [Conns -> Workers \cup {Unassigned}] /\ \A c \in Conns : c # Conn(t) => owner'[c] = owner[c]
  BY <1>1, <1>2, <1>3
<1>5. PICK s : s = Rest(t)
  OBVIOUS
<1>6. s \in ThreadState /\ s.pc \in {"idle", "sweep"}
  <2>1. s.pc # "flush"
    BY <1>1, <1>5 DEF Rest, State, Idle
  <2> QED
    BY <1>5, <2>1, RestFields
<1>7. /\ thread' \in [Threads -> ThreadState]
      /\ Pc(t)' \in {"idle", "sweep"}
      /\ \A u \in Threads : u # t => Pc(u)' = Pc(u) /\ Conn(u)' = Conn(u)
  BY <1>1, <1>5, <1>6, BecomesEffect DEF Return
<1>8. owner[Conn(t)] = Unassigned /\ Conn(t) <= made
  BY <1>1 DEF Books, AddingOK, Adding
<1>9. KnowsConn'
  BY <1>7 DEF Books, KnowsConn
<1>10. AddingOK'
  <2>1. \A u \in Threads : Pc(u)' \in Adding =>
          u # t /\ Pc(u) \in Adding /\ Conn(u)' = Conn(u) /\ Conn(u) # Conn(t) /\ Conn(u) \in Conns
    BY <1>1, <1>7 DEF Adding, Books, AddingOK, KnowsConn
  <2>2. \A c \in Conns : c > made => c # Conn(t)
    BY <1>8 DEF TypeOK, Conns
  <2> QED
    BY <1>1, <1>4, <2>1, <2>2 DEF Books, AddingOK
<1>11. JobsOK'
  <2>1. \A w \in Workers, c \in Conns : owner[c] = w => owner'[c] = w
    BY <1>2, <1>4, <1>8
  <2>2. \A w \in Workers : w \in Threads /\ w # t /\ Conn(w) \in 0 .. MaxConns
    BY <1>1, ThreadFields DEF Threads
  <2>3. \A w \in Workers : Conn(w)' # 0 => owner'[Conn(w)'] = w
    BY <1>7, <2>1, <2>2 DEF Books, JobsOK, Conns
  <2>4. QueuedOK'
    <3>1. \A w \in Workers : \A i \in DOMAIN queue[w] : queue[w][i].conn \in Conns
      <4> SUFFICES ASSUME NEW w \in Workers, NEW i \in DOMAIN queue[w]
                   PROVE  queue[w][i].conn \in Conns
        OBVIOUS
      <4>1. queue[w] \in Seq(Job)
        BY DEF TypeOK
      <4>2. queue[w][i] \in Job
        BY <4>1
      <4> QED
        BY <4>2 DEF Job
    <3> QED
      BY <1>1, <2>1, <3>1 DEF Books, JobsOK, QueuedOK
  <2> QED
    BY <2>3, <2>4 DEF JobsOK
<1>12. RemovingOK'
  <2>1. \A u \in Threads : Pc(u)' \in Removing => u # t /\ Pc(u) \in Removing /\ Conn(u)' = Conn(u)
    BY <1>7 DEF Removing
  <2> QED
    BY <1>1, <2>1 DEF Books, RemovingOK, RemovedOnce, Pc
<1> QED
  BY <1>2, <1>4, <1>7, <1>9, <1>10, <1>11, <1>12
     DEF IInv, Books, TypeOK, AssignConnectionThreadIndex, tables, service, players, jobs
-----------------------------------------------------------------------------
\* Every step keeps the invariant.
LEMMA Step == ASSUME ConstantsOK, IInv, [Next]_vars PROVE IInv'
<1> Receivers \subseteq Threads /\ Workers \subseteq Threads
  BY DEF Threads
<1>1. CASE \E t \in Receivers : Receive(t)
  BY <1>1, DeliverStep, IgnoreStep, AddClientStep, EnterMapsStep, LockRoomsStep, TakeSeatStep,
     PublishStep, AssignConnectionThreadIndexStep DEF Receive
<1>2. CASE \E t \in Threads : RemoveConnection(t)
  BY <1>2, ExchangeStep, UnlistStep, LeaveMapsStep, FindSeatStep, LeaveStep DEF RemoveConnection
<1>3. CASE \E t \in Receivers, k \in Keys : Route(t, k)
  BY <1>3, RouteStep
<1>4. CASE TickStep
  BY <1>4, BeginSweepStep, KeepConnectionStep, TimeOutStep, PostTickJobStep, NextPhaseStep DEF TickStep
<1>5. CASE \E w \in Workers : TakeJob(w) \/ EndJob(w) \/ CloseInJob(w) \/ HandleMessage(w)
  BY <1>5, TakeJobStep, EndJobStep, CloseInJobStep, LoginStep, VerifyStep, NetSpeedStep,
     UpdateStatusStep DEF HandleMessage
<1>6. CASE UNCHANGED vars
  <2>1. Books'
    BY <1>6, QuietStep DEF vars, owners, jobs
  <2> QED
    BY <1>6, <2>1 DEF IInv, TypeOK, vars, tables, owners, service, players, jobs
<1> QED
  BY <1>1, <1>2, <1>3, <1>4, <1>5, <1>6 DEF Next, WorkerStep

(* The inductive invariant of the types, the books of the queues and the owners:
   what every theorem below rests on. *)
THEOREM Invariance == Spec => []IInv
<1>1. Init => IInv
  BY ConstantsOK, InitInv
<1>2. IInv /\ [Next]_vars => IInv'
  BY ConstantsOK, Step
<1> QED
  BY <1>1, <1>2, PTL DEF Spec

\* Every variable has its type: among others, the owner of a connection is a
\* worker or, until AssignConnectionThreadIndex has run, none.
THEOREM TypeCorrect == Spec => []TypeOK
<1>1. IInv => TypeOK
  BY DEF IInv
<1> QED
  BY <1>1, Invariance, PTL

\* AddAsyncJob with the index of the owner: two workers never run jobs of one
\* connection at a time, although the tick thread and all I/O threads post them.
THEOREM JobsConfined == Spec => []Confined
<1>1. IInv => Confined
  <2> SUFFICES ASSUME IInv, NEW v \in Workers, NEW w \in Workers,
                      Conn(v) = Conn(w), Conn(v) # 0
               PROVE  v = w
    BY DEF Confined
  <2>1. owner[Conn(v)] = v /\ owner[Conn(w)] = w
    BY DEF IInv, Books, JobsOK
  <2> QED
    BY <2>1
<1> QED
  BY <1>1, Invariance, PTL

\* NetConnection::Close: State.exchange lets one of the threads that close a
\* connection at once go on to RemoveConnection.
THEOREM OneRemoves == Spec => []RemovedOnce
<1>1. IInv => RemovedOnce
  BY DEF IInv, Books, RemovingOK
<1> QED
  BY <1>1, Invariance, PTL

\* AddClient_Internal inserts a route where there is none and RemoveConnection
\* erases by pointer: only Close ends the route of a connection.
THEOREM RouteStays == Spec => RouteKept
<1>1. IInv /\ [Next]_vars =>
        [\A k \in Keys : routed[k] # 0 /\ routed'[k] # routed[k] => routed[k] \in closed]_vars
  <2> SUFFICES ASSUME IInv, Next, NEW k \in Keys, routed[k] # 0, routed'[k] # routed[k]
               PROVE  routed[k] \in closed
    OBVIOUS
  <2>1. routed \in [Keys -> 0 .. MaxConns]
    BY DEF IInv, TypeOK
  <2>2. \A t \in Threads : ~Publish(t)
    <3> SUFFICES ASSUME NEW t \in Threads, Publish(t) PROVE FALSE
      OBVIOUS
    <3>1. PICK key : key = thread[t].key
      OBVIOUS
    <3>2. routed' = [routed EXCEPT ![key] = IF routed[key] = 0 THEN Conn(t) ELSE routed[key]]
      BY <3>1 DEF Publish
    <3> QED
      BY <2>1, <3>2
  <2>3. PICK t \in Threads : Unlist(t)
    <3>1. ~UNCHANGED routed
      OBVIOUS
    <3> QED
      BY <2>2, <3>1
      DEF Next, Receive, RemoveConnection, TickStep, WorkerStep, HandleMessage, Threads, tables,
          Deliver, Ignore, AddClient, EnterMaps, LockRooms, TakeSeat, AssignConnectionThreadIndex,
          Exchange, LeaveMaps, FindSeat, Leave, Route, BeginSweep, KeepConnection, TimeOut,
          PostTickJob, NextPhase, TakeJob, EndJob, CloseInJob, Login, Verify, NetSpeed, UpdateStatus
  <2>4. routed[k] = Conn(t)
    BY <2>1, <2>3 DEF Unlist, RoutesWithout
  <2>5. Conn(t) \in closed
    BY <2>3 DEF Unlist, At, Pc, IInv, Books, RemovingOK, Removing
  <2> QED
    BY <2>4, <2>5
<1> QED
  BY <1>1, Invariance, PTL DEF Spec, RouteKept
-----------------------------------------------------------------------------
(***************************************************************************)
(* Where a connection is listed, mapped and seated, at every point of being*)
(* added and removed.  A connection is hidden until it is published: only  *)
(* the thread that adds it knows of it, so nothing can close it.  From then*)
(* on it is in the tables until it is closed, and after that as long as    *)
(* the one thread that removes it has not come to the table.               *)
(***************************************************************************)
Early == {"enter", "lockRooms", "seat", "publish"}
InStage(c, pcs) == \E t \in Threads : Conn(t) = c /\ Pc(t) \in pcs
Hidden(c) == c > made \/ InStage(c, Early)
IsSeated(c) == \E r \in DOMAIN rooms : c \in rooms[r]

HiddenOK(c) ==
    Hidden(c) =>
        /\ c \notin closed /\ c \notin ToSet(listed) /\ c \notin ToSet(sweep.all)
        /\ \A k \in Keys : routed[k] # c
        /\ \A t \in Threads : Conn(t) = c => Pc(t) \in Early

ListedOK(c) == c \in ToSet(listed) <=> ~Hidden(c) /\ (c \notin closed \/ InStage(c, {"unlist"}))

MapsOK(c) ==
    /\ c \in reliable <=> (IF Hidden(c) THEN InStage(c, {"lockRooms", "seat", "publish"})
                           ELSE c \notin closed \/ InStage(c, {"unlist", "leaveMaps"}))
    /\ c \in reliable => c \in rudp

SeatOK(c) ==
    /\ IsSeated(c) <=> (IF Hidden(c) THEN InStage(c, {"publish"})
                        ELSE c \notin closed \/ InStage(c, Removing))
    /\ \A r, q \in DOMAIN rooms : c \in rooms[r] /\ c \in rooms[q] => r = q

Placed(c) == HiddenOK(c) /\ ListedOK(c) /\ MapsOK(c) /\ SeatOK(c)

NoneHeld == \A t \in Threads : Pc(t) \in HasNoConn => Conn(t) = 0
ListedOnce == \A i, j \in DOMAIN listed : listed[i] = listed[j] => i = j
RoomSizes == \A r \in DOMAIN rooms : Cardinality(rooms[r]) <= MaxPlayer
KnowsRoom ==
    \A t \in Threads :
        /\ Pc(t) = "seat" => thread[t].room # 0
        /\ Pc(t) = "leave" =>
              thread[t].room \in DOMAIN rooms /\ Conn(t) \in rooms[thread[t].room]

TablesInv ==
    (\A c \in Conns : Placed(c)) /\ NoneHeld /\ ListedOnce /\ RoomSizes /\ KnowsRoom

(* Nothing but the thread that adds it has a hidden connection in its hands. *)
LEMMA HiddenAlone ==
  ASSUME ConstantsOK, IInv, TablesInv, NEW c \in Conns, Hidden(c), NEW t \in Threads, Conn(t) = c
  PROVE  /\ Pc(t) \in Early /\ owner[c] = Unassigned
         /\ \A u \in Threads : Conn(u) = c => u = t
<1>1. \A u \in Threads : Conn(u) = c => Pc(u) \in Early
  BY DEF TablesInv, Placed, HiddenOK
<1>2. Early \subseteq Adding
  BY DEF Early, Adding
<1> QED
  BY <1>1, <1>2 DEF IInv, Books, AddingOK

(* A connection that a job, a route, a snapshot, or a thread past publishing *)
(* has is not hidden.                                                        *)
LEMMA NotHidden ==
  ASSUME ConstantsOK, IInv, TablesInv, NEW c \in Conns,
         \/ owner[c] # Unassigned
         \/ \E k \in Keys : routed[k] = c
         \/ c \in ToSet(listed) \cup ToSet(sweep.all) \cup closed
         \/ \E t \in Threads : Conn(t) = c /\ Pc(t) \notin Early
  PROVE  ~Hidden(c)
<1>1. HiddenOK(c)
  BY DEF TablesInv, Placed
<1>2. Hidden(c) => owner[c] = Unassigned
  <2>1. c > made => owner[c] = Unassigned
    BY DEF IInv, Books, AddingOK
  <2>2. InStage(c, Early) => owner[c] = Unassigned
    BY DEF IInv, Books, AddingOK, InStage, Early, Adding
  <2> QED
    BY <2>1, <2>2 DEF Hidden
<1> QED
  BY <1>1, <1>2 DEF HiddenOK

\* The stages the tables depend on; places between which they do not change.
Stages ==
    {Early, {"lockRooms", "seat", "publish"}, {"publish"}, {"unlist"}, {"unlist", "leaveMaps"}, Removing}
SamePlace(p, q) ==
    p = q \/ {p, q} \subseteq {"lockRooms", "seat"} \/ {p, q} \subseteq {"findSeat", "leave"}

(* No thread enters or leaves a stage with connection d. *)
LEMMA StagesKept ==
  ASSUME NEW d,
         \A u \in Threads :
            \/ Conn(u)' = Conn(u) /\ SamePlace(Pc(u), Pc(u)')
            \/ /\ Conn(u) # d \/ Pc(u) \notin Early \cup Removing
               /\ Conn(u)' # d \/ Pc(u)' \notin Early \cup Removing
  PROVE  \A pcs \in Stages : InStage(d, pcs)' <=> InStage(d, pcs)
<1> SUFFICES ASSUME NEW pcs \in Stages PROVE InStage(d, pcs)' <=> InStage(d, pcs)
  OBVIOUS
<1>1. pcs \subseteq Early \cup Removing
  BY DEF Stages, Early, Removing
<1>2. \A p, q : SamePlace(p, q) => (p \in pcs <=> q \in pcs)
  BY DEF Stages, SamePlace, Early, Removing
<1>3. \A u \in Threads : Conn(u)' = d /\ Pc(u)' \in pcs <=> Conn(u) = d /\ Pc(u) \in pcs
  <2> SUFFICES ASSUME NEW u \in Threads
               PROVE  Conn(u)' = d /\ Pc(u)' \in pcs <=> Conn(u) = d /\ Pc(u) \in pcs
    OBVIOUS
  <2>1. CASE Conn(u)' = Conn(u) /\ SamePlace(Pc(u), Pc(u)')
    BY <1>2, <2>1
  <2>2. CASE ~ (Conn(u)' = Conn(u) /\ SamePlace(Pc(u), Pc(u)'))
    BY <1>1, <2>2
  <2> QED
    BY <2>1, <2>2
<1> QED
  BY <1>3 DEF InStage

(* A connection stays where it is when neither the tables nor the threads     *)
(* change for it.                                                             *)
LEMMA PlacedStays ==
  ASSUME NEW d \in Conns, Placed(d),
         d > made' <=> d > made,
         \A pcs \in Stages : InStage(d, pcs)' <=> InStage(d, pcs),
         Hidden(d) => \A u \in Threads : Conn(u)' = d => Pc(u)' \in Early,
         d \in closed' <=> d \in closed,
         d \in ToSet(listed') <=> d \in ToSet(listed),
         d \in ToSet(sweep'.all) => d \in ToSet(sweep.all) \cup ToSet(listed),
         \A k \in Keys : routed'[k] = d => \E j \in Keys : routed[j] = d,
         d \in reliable' <=> d \in reliable,
         d \in rudp => d \in rudp',
         IsSeated(d)' <=> IsSeated(d),
         \A r, q \in DOMAIN rooms' : d \in rooms'[r] /\ d \in rooms'[q] => r = q
  PROVE  Placed(d)'
<1>1. /\ Early \in Stages /\ {"lockRooms", "seat", "publish"} \in Stages /\ {"publish"} \in Stages
      /\ {"unlist"} \in Stages /\ {"unlist", "leaveMaps"} \in Stages /\ Removing \in Stages
  BY DEF Stages
<1>2. Hidden(d)' <=> Hidden(d)
  BY <1>1 DEF Hidden
<1>3. HiddenOK(d)'
  BY <1>2 DEF Placed, HiddenOK
<1>4. ListedOK(d)'
  BY <1>1, <1>2 DEF Placed, ListedOK
<1>5. MapsOK(d)'
  BY <1>1, <1>2 DEF Placed, MapsOK
<1>6. SeatOK(d)'
  BY <1>1, <1>2 DEF Placed, SeatOK
<1> QED
  BY <1>3, <1>4, <1>5, <1>6 DEF Placed

(* A step that changes no table and brings no connection to another stage.    *)
LEMMA QuietTables ==
  ASSUME ConstantsOK, IInv, TablesInv,
         UNCHANGED << made, closed, listed, routed, reliable, rooms >>, rudp \subseteq rudp',
         ToSet(sweep'.all) \subseteq ToSet(sweep.all) \cup ToSet(listed),
         \A u \in Threads :
            \/ Conn(u)' = Conn(u) /\ Pc(u)' = Pc(u) /\ thread'[u].room = thread[u].room
            \/ /\ Conn(u)' = Conn(u) /\ SamePlace(Pc(u), Pc(u)') /\ Pc(u)' \notin HasNoConn
               /\ Pc(u)' = "seat" => thread'[u].room # 0
               /\ Pc(u)' = "leave" => thread'[u].room \in DOMAIN rooms /\ Conn(u) \in rooms[thread'[u].room]
            \/ /\ Pc(u) \notin Early \cup Removing /\ Pc(u)' \notin Early \cup Removing
               /\ Pc(u)' \in HasNoConn => Conn(u)' = 0
               /\ Conn(u)' # 0 => Conn(u)' \in Conns /\ ~Hidden(Conn(u)')
  PROVE  TablesInv'
<1>1. \A u \in Threads :
         \/ Conn(u)' = Conn(u) /\ SamePlace(Pc(u), Pc(u)')
         \/ Pc(u) \notin Early \cup Removing /\ Pc(u)' \notin Early \cup Removing
  BY DEF SamePlace
<1>2. \A d \in Conns : Placed(d)'
  <2> SUFFICES ASSUME NEW d \in Conns PROVE Placed(d)'
    OBVIOUS
  <2>1. Placed(d)
    BY DEF TablesInv
  <2>2. \A pcs \in Stages : InStage(d, pcs)' <=> InStage(d, pcs)
    BY <1>1, StagesKept
  <2>3. ASSUME Hidden(d), NEW u \in Threads, Conn(u)' = d PROVE Pc(u)' \in Early
    <3>1. d # 0
      BY DEF Conns
    <3>2. \A p, q : SamePlace(p, q) /\ p \in Early => q \in Early
      BY DEF SamePlace, Early
    <3>3. Conn(u) = d => Pc(u) \in Early
      BY <2>1, <2>3 DEF Placed, HiddenOK
    <3> QED
      BY <2>3, <3>1, <3>2, <3>3
  <2>4. IsSeated(d)' <=> IsSeated(d)
    BY DEF IsSeated
  <2>5. \A r, q \in DOMAIN rooms' : d \in rooms'[r] /\ d \in rooms'[q] => r = q
    BY <2>1 DEF Placed, SeatOK
  <2> QED
    BY <2>1, <2>2, <2>3, <2>4, <2>5, PlacedStays
<1>3. NoneHeld'
  <2>1. \A p, q : SamePlace(p, q) /\ q \in HasNoConn => p \in HasNoConn
    BY DEF SamePlace, HasNoConn
  <2> QED
    BY <2>1 DEF TablesInv, NoneHeld
<1>4. ListedOnce'
  BY DEF TablesInv, ListedOnce
<1>5. RoomSizes'
  BY DEF TablesInv, RoomSizes
<1>6. KnowsRoom'
  <2>1. "leave" \in Removing /\ "seat" \in Early
    BY DEF Removing, Early
  <2> QED
    BY <2>1 DEF TablesInv, KnowsRoom, Pc, Conn
<1> QED
  BY <1>2, <1>3, <1>4, <1>5, <1>6 DEF TablesInv

(* The same for a step that moves one thread. *)
LEMMA QuietMove ==
  ASSUME ConstantsOK, IInv, TablesInv, NEW t \in Threads, NEW s \in ThreadState, Becomes(t, s),
         UNCHANGED << made, closed, listed, routed, reliable, rooms >>, rudp \subseteq rudp',
         ToSet(sweep'.all) \subseteq ToSet(sweep.all) \cup ToSet(listed),
         \/ /\ s.conn = Conn(t) /\ SamePlace(Pc(t), s.pc) /\ s.pc \notin HasNoConn
            /\ s.pc = "seat" => s.room # 0
            /\ s.pc = "leave" => s.room \in DOMAIN rooms /\ Conn(t) \in rooms[s.room]
         \/ /\ Pc(t) \notin Early \cup Removing /\ s.pc \notin Early \cup Removing
            /\ s.pc \in HasNoConn => s.conn = 0
            /\ s.conn # 0 => s.conn \in Conns /\ ~Hidden(s.conn)
  PROVE  TablesInv'
<1>1. TypeOK
  BY DEF IInv
<1>2. /\ Pc(t)' = s.pc /\ Conn(t)' = s.conn
      /\ \A u \in Threads : u # t => Pc(u)' = Pc(u) /\ Conn(u)' = Conn(u)
  BY <1>1, BecomesEffect
<1>3. /\ thread'[t].room = s.room
      /\ \A u \in Threads : u # t => thread'[u].room = thread[u].room
  BY <1>1 DEF TypeOK, Becomes
<1>4. \A u \in Threads :
         \/ Conn(u)' = Conn(u) /\ Pc(u)' = Pc(u) /\ thread'[u].room = thread[u].room
         \/ /\ Conn(u)' = Conn(u) /\ SamePlace(Pc(u), Pc(u)') /\ Pc(u)' \notin HasNoConn
            /\ Pc(u)' = "seat" => thread'[u].room # 0
            /\ Pc(u)' = "leave" => thread'[u].room \in DOMAIN rooms /\ Conn(u) \in rooms[thread'[u].room]
         \/ /\ Pc(u) \notin Early \cup Removing /\ Pc(u)' \notin Early \cup Removing
            /\ Pc(u)' \in HasNoConn => Conn(u)' = 0
            /\ Conn(u)' # 0 => Conn(u)' \in Conns /\ ~Hidden(Conn(u)')
  <2> SUFFICES ASSUME NEW u \in Threads
               PROVE
         \/ Conn(u)' = Conn(u) /\ Pc(u)' = Pc(u) /\ thread'[u].room = thread[u].room
         \/ /\ Conn(u)' = Conn(u) /\ SamePlace(Pc(u), Pc(u)') /\ Pc(u)' \notin HasNoConn
            /\ Pc(u)' = "seat" => thread'[u].room # 0
            /\ Pc(u)' = "leave" => thread'[u].room \in DOMAIN rooms /\ Conn(u) \in rooms[thread'[u].room]
         \/ /\ Pc(u) \notin Early \cup Removing /\ Pc(u)' \notin Early \cup Removing
            /\ Pc(u)' \in HasNoConn => Conn(u)' = 0
            /\ Conn(u)' # 0 => Conn(u)' \in Conns /\ ~Hidden(Conn(u)')
    OBVIOUS
  <2>1. CASE u # t
    BY <1>2, <1>3, <2>1
  <2>2. CASE u = t
    BY <1>2, <1>3, <2>2
  <2> QED
    BY <2>1, <2>2
<1> QED
  BY <1>4, QuietTables

(* A worker goes on with its job. *)
LEMMA QuietWork ==
  ASSUME ConstantsOK, IInv, TablesInv, NEW t \in Threads, NEW pc \in Working \cup {"close"}, NEW r \in Nat,
         GotoRoom(t, pc, r) \/ (Goto(t, pc) /\ r = thread[t].room), Pc(t) \in Working,
         UNCHANGED << made, closed, listed, routed, reliable, rooms, sweep >>, rudp \subseteq rudp'
  PROVE  TablesInv'
<1> TypeOK /\ KnowsConn
  BY DEF IInv, Books
<1> DEFINE s == State(pc, Conn(t), thread[t].key, r)
<1>1. /\ Conn(t) \in 0 .. MaxConns /\ thread[t].key \in Keys \cup {NoKey}
      /\ Conn(t) \in Conns /\ Pc(t) \notin Early \cup Removing
  BY ThreadFields DEF KnowsConn, Working, Early, Removing
<1>2. pc \in PCs /\ pc \notin Early \cup Removing \cup HasNoConn
  BY DEF PCs, Working, Early, Removing, HasNoConn
<1>3. s \in ThreadState /\ s.pc = pc /\ s.conn = Conn(t)
  BY <1>1, <1>2, StateFields
<1>4. Becomes(t, s)
  BY DEF Goto, GotoRoom
<1>5. ~Hidden(Conn(t))
  BY <1>1, NotHidden
<1> HIDE DEF s
<1>6. ToSet(sweep'.all) \subseteq ToSet(sweep.all) \cup ToSet(listed)
  OBVIOUS
<1> QED
  BY <1>1, <1>2, <1>3, <1>4, <1>5, <1>6, QuietMove

(* A thread returns from what was none of the stages. *)
LEMMA QuietReturn ==
  ASSUME ConstantsOK, IInv, TablesInv, NEW t \in Threads, Return(t), Pc(t) \notin Early \cup Removing,
         UNCHANGED << made, closed, listed, routed, reliable, rooms, rudp, sweep >>
  PROVE  TablesInv'
<1> TypeOK
  BY DEF IInv
<1>1. PICK s : s = Rest(t)
  OBVIOUS
<1>2. /\ s \in ThreadState /\ s.pc \in {"idle", "sweep", "flush"}
      /\ s.conn \in {0, Conn(t)} /\ Conn(t) \in 0 .. MaxConns
  BY <1>1, RestFields, ThreadFields
<1>3. s.pc \in HasNoConn => s.conn = 0
  BY <1>1 DEF Rest, State, Idle, HasNoConn
<1>4. s.pc \notin Early \cup Removing
  BY <1>2 DEF Early, Removing
<1>5. s.conn # 0 => s.conn \in Conns /\ ~Hidden(s.conn)
  <2> SUFFICES ASSUME s.conn # 0 PROVE s.conn \in Conns /\ ~Hidden(s.conn)
    OBVIOUS
  <2>1. s.conn = Conn(t) /\ Conn(t) \in Conns
    BY <1>2 DEF Conns
  <2> QED
    BY <2>1, NotHidden
<1>6. Becomes(t, s)
  BY <1>1 DEF Return
<1>7. ToSet(sweep'.all) \subseteq ToSet(sweep.all) \cup ToSet(listed)
  OBVIOUS
<1> QED
  BY <1>2, <1>3, <1>4, <1>5, <1>6, <1>7, QuietMove

LEMMA WorkTables ==
  ASSUME ConstantsOK, IInv, TablesInv, NEW t \in Workers,
         EndJob(t) \/ CloseInJob(t) \/ HandleMessage(t)
  PROVE  TablesInv'
<1> TypeOK /\ t \in Threads
  BY DEF IInv, Threads
<1>1. thread[t].room \in Nat /\ SeatOf(Conn(t)) \in Nat
  BY ThreadFields, SeatOfType
<1>2. CASE EndJob(t)
  <2>1. PICK s : s = State("idle", 0, NoKey, 0)
    OBVIOUS
  <2>2. s \in ThreadState /\ s.pc = "idle" /\ s.conn = 0
    BY <2>1, StateFields DEF PCs, Receiving, ConstantsOK
  <2>3. Becomes(t, s) /\ Pc(t) \in {"receive", "dispatch", "flush"}
    BY <1>2, <2>1 DEF EndJob, Idle, Pc
  <2>4. UNCHANGED << made, closed, listed, routed, reliable, rooms, rudp, sweep >>
    BY <1>2 DEF EndJob, tables, service, players
  <2> QED
    BY <2>2, <2>3, <2>4, QuietMove DEF Early, Removing
<1>3. CASE CloseInJob(t)
  BY <1>1, <1>3, QuietWork DEF CloseInJob, Pc, Working, tables, service, players
<1>4. CASE Login(t)
  BY <1>1, <1>4, QuietWork DEF Login, At, Pc, Working, tables, service, players
<1>5. CASE Verify(t)
  BY <1>1, <1>5, QuietWork DEF Verify, At, Pc, Working, tables, service, players
<1>6. CASE NetSpeed(t)
  BY <1>1, <1>6, QuietWork DEF NetSpeed, At, Pc, Working, tables, service, players
<1>7. CASE UpdateStatus(t)
  BY <1>1, <1>7, QuietWork DEF UpdateStatus, At, Pc, Working, tables, service, players
<1> QED
  BY <1>2, <1>3, <1>4, <1>5, <1>6, <1>7 DEF HandleMessage

LEMMA TakeJobTables ==
  ASSUME ConstantsOK, IInv, TablesInv, NEW t \in Workers, TakeJob(t)
  PROVE  TablesInv'
<1> TypeOK /\ t \in Threads
  BY DEF IInv, Threads
<1>1. UNCHANGED << made, closed, listed, routed, reliable, rooms, rudp, sweep >> /\ Pc(t) = "idle"
  BY DEF TakeJob, tables, service, players, At, Pc
<1>2. CASE UNCHANGED thread
  BY <1>1, <1>2, QuietTables DEF Pc, Conn
<1>3. CASE ~UNCHANGED thread
  <2>1. PICK q, j : q = queue[t] /\ j = Head(q)
    OBVIOUS
  <2>2. q \in Seq(Job) /\ q # << >>
    BY <2>1 DEF TakeJob, TypeOK
  <2>3. j \in Job /\ 1 \in DOMAIN q /\ j = q[1]
    BY <2>1, <2>2, HeadTailProperties
  <2>4. /\ j.conn \in Conns /\ j.conn \in 0 .. MaxConns
        /\ j.kind \in {"receive", "dispatch", "flush"}
    BY <2>3 DEF Job, Conns
  <2>5. owner[j.conn] = t /\ Unassigned \notin Workers
    BY <2>1, <2>3 DEF IInv, Books, JobsOK, QueuedOK, Workers, Unassigned, ConstantsOK
  <2>6. ~Hidden(j.conn)
    BY <2>4, <2>5, NotHidden
  <2>7. PICK s : s = State(j.kind, j.conn, NoKey, 0)
    OBVIOUS
  <2>8. s \in ThreadState /\ s.pc \in {"receive", "dispatch", "flush"} /\ s.conn = j.conn
    <3>1. j.kind \in PCs
      BY <2>4 DEF PCs, Working
    <3> QED
      BY <2>4, <2>7, <3>1, StateFields
  <2>9. Becomes(t, s)
    BY <1>3, <2>1, <2>7 DEF TakeJob
  <2> QED
    BY <1>1, <2>4, <2>6, <2>8, <2>9, QuietMove DEF Early, Removing, HasNoConn
<1> QED
  BY <1>2, <1>3

LEMMA RouteTables ==
  ASSUME ConstantsOK, IInv, TablesInv, NEW t \in Receivers, NEW k \in Keys, Route(t, k)
  PROVE  TablesInv'
<1> TypeOK /\ t \in Threads
  BY DEF IInv, Threads
<1>1. UNCHANGED << made, closed, listed, routed, reliable, rooms, rudp, sweep >>
  BY DEF Route, tables, service, players
<1>2. Pc(t) \in {"idle", "sweep"}
  BY DEF Route, MayReceive, At, Pc
<1>3. CASE routed[k] # 0
  <2>1. routed[k] \in Conns /\ "deliver" \in PCs /\ routed[k] \in 0 .. MaxConns
    BY <1>3 DEF TypeOK, Conns, PCs, Receiving
  <2>2. ~Hidden(routed[k])
    BY <2>1, NotHidden
  <2>3. PICK s : s = State("deliver", routed[k], NoKey, 0)
    OBVIOUS
  <2>4. s \in ThreadState /\ s.pc = "deliver" /\ s.conn = routed[k]
    BY <2>1, <2>3, StateFields
  <2>5. Becomes(t, s)
    BY <1>3, <2>3 DEF Route
  <2> QED
    BY <1>1, <1>2, <2>1, <2>2, <2>4, <2>5, QuietMove DEF Early, Removing, HasNoConn
<1>4. CASE routed[k] = 0
  <2>1. PICK s : s = State("unrouted", 0, k, 0)
    OBVIOUS
  <2>2. s \in ThreadState /\ s.pc = "unrouted" /\ s.conn = 0
    <3>1. "unrouted" \in PCs /\ 0 \in 0 .. MaxConns /\ k \in Keys \cup {NoKey} /\ 0 \in Nat
      BY DEF PCs, Receiving, ConstantsOK
    <3> QED
      BY <2>1, <3>1, StateFields
  <2>3. Becomes(t, s)
    BY <1>4, <2>1 DEF Route
  <2> QED
    BY <1>1, <1>2, <2>2, <2>3, QuietMove DEF Early, Removing, HasNoConn
<1> QED
  BY <1>3, <1>4

LEMMA ReceiveTables ==
  ASSUME ConstantsOK, IInv, TablesInv, NEW t \in Receivers,
         Deliver(t) \/ Ignore(t) \/ AssignConnectionThreadIndex(t)
  PROVE  TablesInv'
<1>1. t \in Threads
  BY DEF Threads
<1>2. Return(t) /\ Pc(t) \in {"deliver", "unrouted", "assign"}
  BY DEF Deliver, Ignore, AssignConnectionThreadIndex, At, Pc
<1>3. UNCHANGED << made, closed, listed, routed, reliable, rooms, rudp, sweep >>
  BY DEF Deliver, Ignore, AssignConnectionThreadIndex, tables, service, players
<1> QED
  BY <1>1, <1>2, <1>3, QuietReturn DEF Early, Removing

LEMMA LockRoomsTables ==
  ASSUME ConstantsOK, IInv, TablesInv, NEW t \in Threads, LockRooms(t)
  PROVE  TablesInv'
<1> TypeOK
  BY DEF IInv
<1>1. UNCHANGED << made, closed, listed, routed, reliable, rooms, rudp, sweep >> /\ Pc(t) = "lockRooms"
  BY DEF LockRooms, tables, service, players, At, Pc
<1>2. PICK s : s = State("seat", Conn(t), thread[t].key, 1)
  OBVIOUS
<1>3. s \in ThreadState /\ s.pc = "seat" /\ s.conn = Conn(t) /\ s.room = 1
  BY <1>2, ThreadFields, StateFields DEF PCs, Adding, State
<1>4. Becomes(t, s)
  BY <1>2 DEF LockRooms, GotoRoom
<1> QED
  BY <1>1, <1>3, <1>4, QuietMove DEF SamePlace, HasNoConn

LEMMA TickTables ==
  ASSUME ConstantsOK, IInv, TablesInv, TickStep
  PROVE  TablesInv'
<1> TypeOK
  BY DEF IInv
<1> Tick \in Threads
  BY DEF Threads, Receivers
<1>1. UNCHANGED << made, closed, listed, routed, reliable, rooms, rudp >>
  BY DEF TickStep, BeginSweep, KeepConnection, TimeOut, PostTickJob, NextPhase, tables, service, players
<1>2. sweep'.all \in {sweep.all, listed, << >>}
  <2>1. Advance => sweep'.all = sweep.all
    BY DEF Advance, TypeOK
  <2>2. BeginSweep => sweep'.all \in {listed, << >>}
    BY DEF BeginSweep
  <2>3. NextPhase => sweep'.all \in {listed, << >>}
    BY DEF NextPhase
  <2> QED
    BY <2>1, <2>2, <2>3 DEF TickStep, KeepConnection, TimeOut, PostTickJob
<1>3. ToSet(sweep'.all) \subseteq ToSet(sweep.all) \cup ToSet(listed)
  <2>1. ToSet(<< >>) = {}
    BY DEF ToSet
  <2> QED
    BY <1>2, <2>1
<1>4. CASE UNCHANGED thread
  BY <1>1, <1>3, <1>4, QuietTables DEF Pc, Conn
<1>5. CASE TimeOut
  <2>1. Pc(Tick) = "sweep" /\ sweep.at \in DOMAIN sweep.all /\ Visited \in Conns
    BY <1>5 DEF TimeOut, InLoop, At, Pc, Visited, TypeOK
  <2>2. Visited \in ToSet(sweep.all)
    BY <2>1 DEF ToSet, Visited
  <2>3. ~Hidden(Visited)
    BY <2>1, <2>2, NotHidden
  <2>4. PICK s : s = State("close", Visited, NoKey, 0)
    OBVIOUS
  <2>5. s \in ThreadState /\ s.pc = "close" /\ s.conn = Visited
    <3>1. "close" \in PCs /\ Visited \in 0 .. MaxConns
      BY <2>1 DEF PCs, Conns
    <3> QED
      BY <2>4, <3>1, StateFields
  <2>6. Becomes(Tick, s)
    BY <1>5, <2>4 DEF TimeOut
  <2> QED
    BY <1>1, <1>3, <2>1, <2>3, <2>5, <2>6, QuietMove DEF Early, Removing, HasNoConn
<1>6. CASE Goto(Tick, "sweep") \/ Goto(Tick, "idle")
  <2>1. PICK pc \in {"sweep", "idle"} : Goto(Tick, pc)
    BY <1>6
  <2>2. PICK s : s = State(pc, Conn(Tick), thread[Tick].key, thread[Tick].room)
    OBVIOUS
  <2>3. s \in ThreadState /\ s.pc = pc /\ s.conn = Conn(Tick)
    <3>1. pc \in PCs
      BY DEF PCs, Receiving
    <3> QED
      BY <2>2, <3>1, ThreadFields, StateFields
  <2>4. Becomes(Tick, s)
    BY <2>1, <2>2 DEF Goto
  <2>5. CASE Pc(Tick) \in {"idle", "sweep"}
    <3>1. s.conn = 0
      BY <2>3, <2>5 DEF TablesInv, NoneHeld, HasNoConn
    <3> QED
      BY <1>1, <1>3, <2>3, <2>4, <2>5, <3>1, QuietMove DEF Early, Removing, HasNoConn
  <2>6. Pc(Tick) \in {"idle", "sweep"}
    BY <2>1, <2>3 DEF TickStep, BeginSweep, KeepConnection, TimeOut, PostTickJob, NextPhase, InLoop, At, Pc
  <2> QED
    BY <2>5, <2>6
<1> QED
  BY <1>4, <1>5, <1>6 DEF TickStep, BeginSweep, KeepConnection, PostTickJob, NextPhase
-----------------------------------------------------------------------------
(* The steps that bring a connection c to another stage: what they leave      *)
(* alone of the other connections, and of the other threads.                  *)

LEMMA GotoEffect ==
  ASSUME TypeOK, NEW t \in Threads, NEW pc \in PCs, NEW r \in Nat,
         GotoRoom(t, pc, r) \/ (Goto(t, pc) /\ r = thread[t].room)
  PROVE  \E s \in ThreadState : Becomes(t, s) /\ s.pc = pc /\ s.conn = Conn(t) /\ s.room = r
<1> DEFINE s == State(pc, Conn(t), thread[t].key, r)
<1>1. s \in ThreadState /\ s.pc = pc /\ s.conn = Conn(t) /\ s.room = r
  BY ThreadFields, StateFields DEF State
<1>2. Becomes(t, s)
  BY DEF Goto, GotoRoom
<1> QED
  BY <1>1, <1>2

LEMMA OthersPlaced ==
  ASSUME ConstantsOK, IInv, TablesInv,
         NEW t \in Threads, NEW s \in ThreadState, Becomes(t, s),
         NEW c, Conn(t) \in {0, c}, s.conn \in {0, c},
         NEW d \in Conns, d # c,
         d > made' <=> d > made,
         d \in closed' <=> d \in closed,
         d \in ToSet(listed') <=> d \in ToSet(listed),
         \A k \in Keys : routed'[k] = d => routed[k] = d,
         d \in reliable' <=> d \in reliable,
         d \in rudp => d \in rudp',
         IsSeated(d)' <=> IsSeated(d),
         \A r, q \in DOMAIN rooms' : d \in rooms'[r] /\ d \in rooms'[q] => r = q,
         UNCHANGED sweep
  PROVE  Placed(d)'
<1> TypeOK /\ Placed(d) /\ d # 0
  BY DEF IInv, TablesInv, Conns
<1>1. /\ Pc(t)' = s.pc /\ Conn(t)' = s.conn
      /\ \A u \in Threads : u # t => Pc(u)' = Pc(u) /\ Conn(u)' = Conn(u)
  BY BecomesEffect
<1>2. \A pcs \in Stages : InStage(d, pcs)' <=> InStage(d, pcs)
  <2>1. \A u \in Threads :
           \/ Conn(u)' = Conn(u) /\ SamePlace(Pc(u), Pc(u)')
           \/ /\ Conn(u) # d \/ Pc(u) \notin Early \cup Removing
              /\ Conn(u)' # d \/ Pc(u)' \notin Early \cup Removing
    BY <1>1 DEF SamePlace
  <2> QED
    BY <2>1, StagesKept
<1>3. Hidden(d) => \A u \in Threads : Conn(u)' = d => Pc(u)' \in Early
  BY <1>1 DEF Placed, HiddenOK
<1> QED
  BY <1>2, <1>3, PlacedStays

LEMMA StageOf ==
  ASSUME TypeOK, NEW t \in Threads, NEW s \in ThreadState, Becomes(t, s),
         NEW c, Conn(t) = c, NEW pcs,
         \A u \in Threads : u # t /\ Conn(u) = c => Pc(u) \notin pcs
  PROVE  /\ InStage(c, pcs) <=> Pc(t) \in pcs
         /\ InStage(c, pcs)' <=> s.conn = c /\ s.pc \in pcs
<1>1. /\ Pc(t)' = s.pc /\ Conn(t)' = s.conn
      /\ \A u \in Threads : u # t => Pc(u)' = Pc(u) /\ Conn(u)' = Conn(u)
  BY BecomesEffect
<1>2. InStage(c, pcs) <=> Pc(t) \in pcs
  BY DEF InStage
<1>3. InStage(c, pcs)' <=> s.conn = c /\ s.pc \in pcs
  BY <1>1 DEF InStage
<1> QED
  BY <1>2, <1>3

LEMMA OthersLeave ==
  ASSUME IInv, TablesInv,
         NEW t \in Threads, NEW s \in ThreadState, Becomes(t, s),
         s.pc \in HasNoConn => s.conn = 0, s.pc \notin {"seat", "leave"},
         \A u \in Threads : u # t /\ Pc(u) = "leave" =>
            thread[u].room \in DOMAIN rooms' /\ Conn(u) \in rooms'[thread[u].room]
  PROVE  NoneHeld' /\ KnowsRoom'
<1> TypeOK
  BY DEF IInv
<1>1. /\ Pc(t)' = s.pc /\ Conn(t)' = s.conn
      /\ \A u \in Threads : u # t => Pc(u)' = Pc(u) /\ Conn(u)' = Conn(u)
  BY BecomesEffect
<1>2. \A u \in Threads : u # t => thread'[u].room = thread[u].room
  BY DEF TypeOK, Becomes
<1>3. NoneHeld'
  BY <1>1 DEF TablesInv, NoneHeld
<1>4. KnowsRoom'
  BY <1>1, <1>2 DEF TablesInv, KnowsRoom
<1> QED
  BY <1>3, <1>4

(* The thread that adds a connection is the only one that knows of it. *)
LEMMA EarlyMover ==
  ASSUME ConstantsOK, IInv, TablesInv, NEW t \in Threads, Pc(t) \in Early
  PROVE  /\ Conn(t) \in Conns /\ Hidden(Conn(t)) /\ Conn(t) <= made
         /\ \A u \in Threads : u # t => Conn(u) # Conn(t)
<1>1. Conn(t) \in Conns
  BY DEF IInv, Books, KnowsConn, Early
<1>2. Hidden(Conn(t))
  BY DEF Hidden, InStage
<1>3. Conn(t) <= made
  BY DEF IInv, Books, AddingOK, Early, Adding
<1> QED
  BY <1>1, <1>2, <1>3, HiddenAlone

LEMMA AddClientTables ==
  ASSUME ConstantsOK, IInv, TablesInv, NEW t \in Threads, AddClient(t)
  PROVE  TablesInv'
<1> TypeOK /\ Books
  BY DEF IInv
<1>1. /\ UNCHANGED << closed, listed, routed, reliable, rudp, rooms, sweep >> /\ Pc(t) = "unrouted"
      /\ made' = made + 1 /\ made \in Nat /\ made < MaxConns
  BY DEF AddClient, tables, service, players, At, Pc, TypeOK, ConstantsOK
<1>2. PICK c : c = made + 1
  OBVIOUS
<1>3. c \in Conns /\ c \in 0 .. MaxConns /\ c > made /\ ~(c > made')
  BY <1>1, <1>2 DEF Conns, ConstantsOK
<1>4. PICK s : s = State("enter", c, thread[t].key, 0)
  OBVIOUS
<1>5. s \in ThreadState /\ s.pc = "enter" /\ s.conn = c
  <2>1. "enter" \in PCs /\ thread[t].key \in Keys \cup {NoKey} /\ 0 \in Nat
    BY ThreadFields DEF PCs, Adding
  <2> QED
    BY <1>3, <1>4, <2>1, StateFields
<1>6. Becomes(t, s)
  BY <1>2, <1>4 DEF AddClient
<1>7. Conn(t) = 0
  BY <1>1 DEF TablesInv, NoneHeld, HasNoConn
<1>8. \A d \in Conns : d # c => Placed(d)'
  <2> SUFFICES ASSUME NEW d \in Conns, d # c PROVE Placed(d)'
    OBVIOUS
  <2>1. d > made' <=> d > made
    BY <1>1, <1>2 DEF Conns
  <2>2. \A r, q \in DOMAIN rooms' : d \in rooms'[r] /\ d \in rooms'[q] => r = q
    BY <1>1 DEF TablesInv, Placed, SeatOK
  <2>3. IsSeated(d)' <=> IsSeated(d)
    BY <1>1 DEF IsSeated
  <2> QED
    BY <1>1, <1>5, <1>6, <1>7, <2>1, <2>2, <2>3, OthersPlaced
<1>9. Placed(c)'
  <2>1. Hidden(c) /\ Placed(c)
    BY <1>3 DEF Hidden, TablesInv
  <2>2. \A u \in Threads : Conn(u) # c
    <3>1. \A u \in Threads : Conn(u) = c => Pc(u) \in Early
      BY <2>1 DEF Placed, HiddenOK
    <3>2. \A u \in Threads : Pc(u) \in Early => Conn(u) <= made
      BY EarlyMover
    <3> QED
      BY <1>1, <1>2, <3>1, <3>2
  <2>3. /\ Pc(t)' = "enter" /\ Conn(t)' = c
        /\ \A u \in Threads : u # t => Pc(u)' = Pc(u) /\ Conn(u)' = Conn(u)
    BY <1>5, <1>6, BecomesEffect
  <2>4. \A pcs : ~InStage(c, pcs)
    BY <2>2 DEF InStage
  <2>5. \A pcs : InStage(c, pcs)' <=> "enter" \in pcs
    BY <2>2, <2>3 DEF InStage
  <2>6. Hidden(c)'
    BY <2>5 DEF Hidden, Early
  <2>7. HiddenOK(c)'
    BY <1>1, <2>1, <2>2, <2>3 DEF Placed, HiddenOK, Early
  <2>8. ListedOK(c)'
    BY <1>1, <2>1, <2>6 DEF Placed, ListedOK
  <2>9. MapsOK(c)'
    BY <1>1, <2>1, <2>4, <2>5, <2>6 DEF Placed, MapsOK
  <2>10. SeatOK(c)'
    BY <1>1, <2>1, <2>4, <2>5, <2>6 DEF Placed, SeatOK, IsSeated
  <2> QED
    BY <2>7, <2>8, <2>9, <2>10 DEF Placed
<1>10. NoneHeld' /\ KnowsRoom'
  BY <1>1, <1>5, <1>6, OthersLeave DEF HasNoConn, TablesInv, KnowsRoom
<1>11. ListedOnce' /\ RoomSizes'
  BY <1>1 DEF TablesInv, ListedOnce, RoomSizes
<1> QED
  BY <1>8, <1>9, <1>10, <1>11 DEF TablesInv

LEMMA EnterMapsTables ==
  ASSUME ConstantsOK, IInv, TablesInv, NEW t \in Threads, EnterMaps(t)
  PROVE  TablesInv'
<1> TypeOK /\ Books
  BY DEF IInv
<1>1. /\ UNCHANGED << made, closed, listed, routed, rooms, sweep >> /\ Pc(t) = "enter"
  BY DEF EnterMaps, tables, players, At, Pc
<1>2. PICK c : c = Conn(t)
  OBVIOUS
<1>3. /\ c \in Conns /\ Hidden(c) /\ c <= made /\ made \in Nat
      /\ \A u \in Threads : u # t => Conn(u) # c
  BY <1>1, <1>2, EarlyMover DEF Early, TypeOK, ConstantsOK
<1>4. reliable' = reliable \cup {c} /\ rudp' = rudp \cup {c}
  BY <1>2 DEF EnterMaps
<1>5. PICK s \in ThreadState : Becomes(t, s) /\ s.pc = "lockRooms" /\ s.conn = c
  <2>1. "lockRooms" \in PCs /\ thread[t].room \in Nat /\ Goto(t, "lockRooms")
    BY ThreadFields DEF PCs, Adding, EnterMaps
  <2> QED
    BY <1>2, <2>1, GotoEffect
<1>6. \A pcs : /\ InStage(c, pcs) <=> "enter" \in pcs
               /\ InStage(c, pcs)' <=> "lockRooms" \in pcs
  BY <1>1, <1>2, <1>3, <1>5, StageOf
<1>7. \A d \in Conns : d # c => Placed(d)'
  <2> SUFFICES ASSUME NEW d \in Conns, d # c PROVE Placed(d)'
    OBVIOUS
  <2>1. \A r, q \in DOMAIN rooms' : d \in rooms'[r] /\ d \in rooms'[q] => r = q
    BY <1>1 DEF TablesInv, Placed, SeatOK
  <2>2. IsSeated(d)' <=> IsSeated(d)
    BY <1>1 DEF IsSeated
  <2> QED
    BY <1>1, <1>2, <1>4, <1>5, <2>1, <2>2, OthersPlaced
<1>8. Placed(c)'
  <2>1. Placed(c)
    BY <1>3 DEF TablesInv
  <2>2. Hidden(c)'
    BY <1>6 DEF Hidden, Early
  <2>3. /\ Pc(t)' = "lockRooms" /\ Conn(t)' = c
        /\ \A u \in Threads : u # t => Conn(u)' = Conn(u)
    BY <1>5, BecomesEffect
  <2>4. HiddenOK(c)'
    BY <1>1, <1>3, <2>1, <2>3 DEF Placed, HiddenOK, Early
  <2>5. ListedOK(c)'
    BY <1>1, <1>3, <2>1, <2>2 DEF Placed, ListedOK
  <2>6. MapsOK(c)'
    BY <1>4, <1>6, <2>2 DEF MapsOK
  <2>7. SeatOK(c)'
    BY <1>1, <1>3, <1>6, <2>1, <2>2 DEF Placed, SeatOK, IsSeated
  <2> QED
    BY <2>4, <2>5, <2>6, <2>7 DEF Placed
<1>9. NoneHeld' /\ KnowsRoom'
  BY <1>1, <1>5, OthersLeave DEF HasNoConn, TablesInv, KnowsRoom
<1>10. ListedOnce' /\ RoomSizes'
  BY <1>1 DEF TablesInv, ListedOnce, RoomSizes
<1> QED
  BY <1>7, <1>8, <1>9, <1>10 DEF TablesInv

(* A player more in a room that has space for it. *)
LEMMA OneMorePlayer ==
  ASSUME ConstantsOK, NEW room \in SUBSET Conns, HasSpace(room), NEW c \in Conns
  PROVE  Cardinality(room \cup {c}) <= MaxPlayer
<1>1. IsFiniteSet(Conns)
  BY FS_Interval DEF Conns, ConstantsOK
<1>2. IsFiniteSet(room) /\ Cardinality(room) \in Nat
  BY <1>1, FS_Subset, FS_CardinalityType
<1>3. Cardinality(room \cup {c}) <= Cardinality(room) + 1 /\ Cardinality(room \cup {c}) \in Nat
  <2>1. IsFiniteSet(room \cup {c})
    BY <1>2, FS_AddElement
  <2> QED
    BY <1>2, <2>1, FS_AddElement, FS_CardinalityType
<1> QED
  BY <1>2, <1>3 DEF HasSpace, ConstantsOK

(* The new seat: in a room that had space, or in a room of its own. *)
LEMMA SeatEffect ==
  ASSUME ConstantsOK, TypeOK, NEW t \in Threads, TakeSeat(t), GotoRoom(t, "publish", 0),
         NEW c \in Conns, c = Conn(t), ~IsSeated(c), RoomSizes, KnowsRoom
  PROVE  /\ DOMAIN rooms \subseteq DOMAIN rooms'
         /\ \E r \in DOMAIN rooms' :
               /\ c \in rooms'[r]
               /\ \A q \in DOMAIN rooms' : q # r => q \in DOMAIN rooms /\ rooms'[q] = rooms[q]
               /\ \A d \in Conns : d # c /\ d \in rooms'[r] => r \in DOMAIN rooms /\ d \in rooms[r]
               /\ r \in DOMAIN rooms => rooms[r] \subseteq rooms'[r]
         /\ RoomSizes'
<1>1. PICK r : r = thread[t].room
  OBVIOUS
<1>2. rooms \in Seq(SUBSET Conns) /\ r \in Nat
  BY <1>1, ThreadFields DEF TypeOK
<1>3. \/ /\ r <= Len(rooms) /\ HasSpace(rooms[r])
         /\ rooms' = [rooms EXCEPT ![r] = @ \cup {c}]
      \/ rooms' = Append(rooms, {c})
  <2>1. ~GotoRoom(t, "seat", r + 1)
    <3>1. State("publish", Conn(t), thread[t].key, 0) # State("seat", Conn(t), thread[t].key, r + 1)
      BY DEF State
    <3> QED
      BY <3>1 DEF GotoRoom, Becomes, TypeOK
  <2> QED
    BY <1>1, <2>1 DEF TakeSeat
<1>4. CASE r \in DOMAIN rooms /\ HasSpace(rooms[r]) /\ rooms' = [rooms EXCEPT ![r] = @ \cup {c}]
  <2>1. PICK room : room = rooms[r] \cup {c}
    OBVIOUS
  <2>2. DOMAIN rooms' = DOMAIN rooms /\ rooms'[r] = room /\ \A q \in DOMAIN rooms : q # r => rooms'[q] = rooms[q]
    BY <1>2, <1>4, <2>1
  <2>3. rooms[r] \in SUBSET Conns
    BY <1>2, <1>4
  <2>4. Cardinality(room) <= MaxPlayer
    BY <1>4, <2>1, <2>3, OneMorePlayer
  <2>5. RoomSizes'
    BY <2>2, <2>4 DEF RoomSizes
  <2> QED
    BY <1>4, <2>1, <2>2, <2>5
<1>5. CASE rooms' = Append(rooms, {c})
  <2>1. PICK n \in Nat : n = Len(rooms)
    BY <1>2
  <2>2. /\ DOMAIN rooms = 1 .. n /\ DOMAIN rooms' = 1 .. n + 1 /\ rooms'[n + 1] = {c}
        /\ \A q \in 1 .. n : rooms'[q] = rooms[q]
    BY <1>2, <1>5, <2>1
  <2>3. Cardinality({c}) = 1 /\ 1 <= MaxPlayer
    BY FS_Singleton DEF ConstantsOK
  <2>4. \A q \in 1 .. n + 1 : q # n + 1 => q \in 1 .. n
    BY <2>1
  <2>5. RoomSizes'
    BY <2>2, <2>3, <2>4 DEF RoomSizes
  <2>6. n + 1 \in 1 .. n + 1 /\ n + 1 \notin 1 .. n /\ 1 .. n \subseteq 1 .. n + 1
    BY <2>1
  <2> QED
    BY <2>2, <2>4, <2>5, <2>6
<1>6. r <= Len(rooms) /\ rooms' = [rooms EXCEPT ![r] = @ \cup {c}] /\ r \notin DOMAIN rooms => FALSE
  <2>1. r # 0
    BY <1>1 DEF TakeSeat, At, Pc, KnowsRoom
  <2> QED
    BY <1>2, <2>1
<1> QED
  BY <1>3, <1>4, <1>5, <1>6

LEMMA TakeSeatTables ==
  ASSUME ConstantsOK, IInv, TablesInv, NEW t \in Threads, TakeSeat(t)
  PROVE  TablesInv'
<1> TypeOK /\ Books
  BY DEF IInv
<1>1. /\ UNCHANGED << made, closed, listed, routed, reliable, rudp, sweep >> /\ Pc(t) = "seat"
      /\ thread[t].room \in Nat
  BY ThreadFields DEF TakeSeat, tables, At, Pc
<1>2. PICK c : c = Conn(t)
  OBVIOUS
<1>3. /\ c \in Conns /\ Hidden(c) /\ c <= made /\ made \in Nat
      /\ \A u \in Threads : u # t => Conn(u) # c
  BY <1>1, <1>2, EarlyMover DEF Early, TypeOK, ConstantsOK
<1>4. CASE rooms' = rooms /\ GotoRoom(t, "seat", thread[t].room + 1)
  <2>1. thread[t].room + 1 \in Nat /\ thread[t].room + 1 # 0 /\ "seat" \in PCs
    BY <1>1 DEF PCs, Adding
  <2>2. PICK s \in ThreadState :
          Becomes(t, s) /\ s.pc = "seat" /\ s.conn = Conn(t) /\ s.room = thread[t].room + 1
    BY <1>4, <2>1, GotoEffect
  <2> QED
    BY <1>1, <1>4, <2>1, <2>2, QuietMove DEF SamePlace, HasNoConn
<1>5. CASE GotoRoom(t, "publish", 0)
  <2>1. PICK s \in ThreadState : Becomes(t, s) /\ s.pc = "publish" /\ s.conn = c
    <3>1. "publish" \in PCs /\ 0 \in Nat
      BY DEF PCs, Adding
    <3> QED
      BY <1>2, <1>5, <3>1, GotoEffect
  <2>2. \A pcs : /\ InStage(c, pcs) <=> "seat" \in pcs
                 /\ InStage(c, pcs)' <=> "publish" \in pcs
    BY <1>1, <1>2, <1>3, <2>1, StageOf
  <2>3. Placed(c) /\ ~IsSeated(c)
    BY <1>3, <2>2 DEF TablesInv, Placed, SeatOK
  <2>4. RoomSizes' /\ DOMAIN rooms \subseteq DOMAIN rooms'
    BY <1>2, <1>3, <1>5, <2>3, SeatEffect DEF TablesInv
  <2>5. PICK r \in DOMAIN rooms' :
           /\ c \in rooms'[r]
           /\ \A q \in DOMAIN rooms' : q # r => q \in DOMAIN rooms /\ rooms'[q] = rooms[q]
           /\ \A d \in Conns : d # c /\ d \in rooms'[r] => r \in DOMAIN rooms /\ d \in rooms[r]
           /\ r \in DOMAIN rooms => rooms[r] \subseteq rooms'[r]
    BY <1>2, <1>3, <1>5, <2>3, SeatEffect DEF TablesInv
  <2>6. \A d \in Conns : d # c => Placed(d)'
    <3> SUFFICES ASSUME NEW d \in Conns, d # c PROVE Placed(d)'
      OBVIOUS
    <3>1. \A q \in DOMAIN rooms' : d \in rooms'[q] => q \in DOMAIN rooms /\ d \in rooms[q]
      BY <2>5
    <3>2. \A q \in DOMAIN rooms : d \in rooms[q] => q \in DOMAIN rooms' /\ d \in rooms'[q]
      BY <2>4, <2>5
    <3>3. \A p, q \in DOMAIN rooms' : d \in rooms'[p] /\ d \in rooms'[q] => p = q
      BY <3>1 DEF TablesInv, Placed, SeatOK
    <3>4. IsSeated(d)' <=> IsSeated(d)
      BY <3>1, <3>2 DEF IsSeated
    <3> QED
      BY <1>1, <1>2, <2>1, <3>3, <3>4, OthersPlaced
  <2>7. Placed(c)'
    <3>1. Hidden(c)'
      BY <2>2 DEF Hidden, Early
    <3>2. /\ Pc(t)' = "publish" /\ Conn(t)' = c
          /\ \A u \in Threads : u # t => Conn(u)' = Conn(u)
      BY <2>1, BecomesEffect
    <3>3. HiddenOK(c)'
      BY <1>1, <1>3, <2>3, <3>2 DEF Placed, HiddenOK, Early
    <3>4. ListedOK(c)'
      BY <1>1, <1>3, <2>3, <3>1 DEF Placed, ListedOK
    <3>5. MapsOK(c)'
      BY <1>1, <1>3, <2>2, <2>3, <3>1 DEF Placed, MapsOK
    <3>6. SeatOK(c)'
      <4>1. IsSeated(c)'
        BY <2>5 DEF IsSeated
      <4>2. \A q \in DOMAIN rooms' : c \in rooms'[q] => q = r
        BY <2>3, <2>5 DEF IsSeated
      <4> QED
        BY <2>2, <3>1, <4>1, <4>2 DEF SeatOK
    <3> QED
      BY <3>3, <3>4, <3>5, <3>6 DEF Placed
  <2>8. NoneHeld' /\ KnowsRoom'
    <3>1. \A u \in Threads : u # t /\ Pc(u) = "leave" =>
            thread[u].room \in DOMAIN rooms' /\ Conn(u) \in rooms'[thread[u].room]
      <4> SUFFICES ASSUME NEW u \in Threads, Pc(u) = "leave"
                   PROVE  thread[u].room \in DOMAIN rooms' /\ Conn(u) \in rooms'[thread[u].room]
        OBVIOUS
      <4>1. PICK q : q = thread[u].room
        OBVIOUS
      <4>2. q \in DOMAIN rooms /\ Conn(u) \in rooms[q]
        BY <4>1 DEF TablesInv, KnowsRoom
      <4> QED
        BY <2>4, <2>5, <4>1, <4>2
    <3> QED
      BY <2>1, <3>1, OthersLeave DEF HasNoConn
  <2>9. ListedOnce'
    BY <1>1 DEF TablesInv, ListedOnce
  <2> QED
    BY <2>4, <2>6, <2>7, <2>8, <2>9 DEF TablesInv
<1> QED
  BY <1>4, <1>5 DEF TakeSeat

LEMMA AppendOnce ==
  ASSUME NEW seq \in Seq(Conns), NEW c \in Conns
  PROVE  /\ ToSet(Append(seq, c)) = ToSet(seq) \cup {c}
         /\ (\A i, j \in DOMAIN seq : seq[i] = seq[j] => i = j) /\ c \notin ToSet(seq) =>
               \A i, j \in DOMAIN Append(seq, c) : Append(seq, c)[i] = Append(seq, c)[j] => i = j
<1>1. PICK n \in Nat : n = Len(seq)
  OBVIOUS
<1>2. PICK new : new = Append(seq, c)
  OBVIOUS
<1>3. /\ DOMAIN seq = 1 .. n /\ DOMAIN new = 1 .. n + 1 /\ new[n + 1] = c
      /\ \A i \in 1 .. n : new[i] = seq[i]
  BY <1>1, <1>2
<1>4. \A i \in 1 .. n + 1 : i \in 1 .. n \/ i = n + 1
  BY <1>1
<1>5. 1 .. n \subseteq 1 .. n + 1 /\ n + 1 \in 1 .. n + 1
  BY <1>1
<1>6. ToSet(new) = ToSet(seq) \cup {c}
  BY <1>3, <1>4, <1>5 DEF ToSet
<1>7. c \notin ToSet(seq) => \A i \in 1 .. n : seq[i] # c
  BY <1>3 DEF ToSet
<1> QED
  BY <1>2, <1>3, <1>4, <1>6, <1>7

LEMMA PublishTables ==
  ASSUME ConstantsOK, IInv, TablesInv, NEW t \in Threads, Publish(t)
  PROVE  TablesInv'
<1> TypeOK /\ Books
  BY DEF IInv
<1>1. UNCHANGED << made, closed, reliable, rudp, rooms, sweep >> /\ Pc(t) = "publish"
  BY DEF Publish, service, players, At, Pc
<1>2. PICK c : c = Conn(t)
  OBVIOUS
<1>3. /\ c \in Conns /\ Hidden(c) /\ c <= made /\ made \in Nat
      /\ \A u \in Threads : u # t => Conn(u) # c
  BY <1>1, <1>2, EarlyMover DEF Early, TypeOK, ConstantsOK
<1>4. Placed(c) /\ c \notin closed /\ c \notin ToSet(listed)
  BY <1>3 DEF TablesInv, Placed, HiddenOK
<1>5. ToSet(listed') = ToSet(listed) \cup {c} /\ ListedOnce'
  <2>1. listed' = Append(listed, c) /\ listed \in Seq(Conns)
    BY <1>2 DEF Publish, TypeOK
  <2>2. PICK new : new = Append(listed, c)
    OBVIOUS
  <2>3. ToSet(new) = ToSet(listed) \cup {c} /\ \A i, j \in DOMAIN new : new[i] = new[j] => i = j
    BY <1>3, <1>4, <2>1, <2>2, AppendOnce DEF TablesInv, ListedOnce
  <2> QED
    BY <2>1, <2>2, <2>3 DEF ListedOnce
<1>6. \A k \in Keys : routed'[k] \in {c, routed[k]}
  <2>1. PICK key : key = thread[t].key
    OBVIOUS
  <2>2. routed' = [routed EXCEPT ![key] = IF routed[key] = 0 THEN c ELSE routed[key]]
    BY <1>2, <2>1 DEF Publish
  <2> QED
    BY <2>2 DEF TypeOK
<1>7. PICK s \in ThreadState : Becomes(t, s) /\ s.pc = "assign" /\ s.conn = c
  <2>1. "assign" \in PCs /\ thread[t].room \in Nat /\ Goto(t, "assign")
    BY ThreadFields DEF PCs, Adding, Publish
  <2> QED
    BY <1>2, <2>1, GotoEffect
<1>8. \A pcs : /\ InStage(c, pcs) <=> "publish" \in pcs
               /\ InStage(c, pcs)' <=> "assign" \in pcs
  BY <1>1, <1>2, <1>3, <1>7, StageOf
<1>9. \A d \in Conns : d # c => Placed(d)'
  <2> SUFFICES ASSUME NEW d \in Conns, d # c PROVE Placed(d)'
    OBVIOUS
  <2>1. \A r, q \in DOMAIN rooms' : d \in rooms'[r] /\ d \in rooms'[q] => r = q
    BY <1>1 DEF TablesInv, Placed, SeatOK
  <2>2. IsSeated(d)' <=> IsSeated(d)
    BY <1>1 DEF IsSeated
  <2> QED
    BY <1>1, <1>2, <1>5, <1>6, <1>7, <2>1, <2>2, OthersPlaced
<1>10. Placed(c)'
  <2>1. ~Hidden(c)'
    <3>1. "assign" \notin Early /\ ~(c > made)
      BY <1>3 DEF Early, Conns
    <3>2. ~InStage(c, Early)'
      BY <1>8, <3>1
    <3> QED
      BY <1>1, <3>1, <3>2 DEF Hidden
  <2>2. HiddenOK(c)'
    BY <2>1 DEF HiddenOK
  <2>3. ListedOK(c)'
    BY <1>1, <1>4, <1>5, <2>1 DEF ListedOK
  <2>4. MapsOK(c)'
    BY <1>1, <1>3, <1>4, <1>8, <2>1 DEF Placed, MapsOK
  <2>5. SeatOK(c)'
    BY <1>1, <1>3, <1>4, <1>8, <2>1 DEF Placed, SeatOK, IsSeated
  <2> QED
    BY <2>2, <2>3, <2>4, <2>5 DEF Placed
<1>11. NoneHeld' /\ KnowsRoom'
  BY <1>1, <1>7, OthersLeave DEF HasNoConn, TablesInv, KnowsRoom
<1>12. RoomSizes'
  BY <1>1 DEF TablesInv, RoomSizes
<1> QED
  BY <1>5, <1>9, <1>10, <1>11, <1>12 DEF TablesInv
-----------------------------------------------------------------------------
(* Closing and removing. *)

(* The thread that removes a connection is the only one that does. *)
LEMMA RemovingMover ==
  ASSUME ConstantsOK, IInv, TablesInv, NEW t \in Threads, Pc(t) \in Removing
  PROVE  /\ Conn(t) \in Conns /\ Conn(t) \in closed /\ ~Hidden(Conn(t))
         /\ \A u \in Threads : u # t /\ Conn(u) = Conn(t) => Pc(u) \notin Early \cup Removing
<1>1. Conn(t) \in Conns /\ Pc(t) \notin Early
  BY DEF IInv, Books, KnowsConn, Removing, Early
<1>2. Conn(t) \in closed
  BY DEF IInv, Books, RemovingOK
<1>3. ~Hidden(Conn(t))
  BY <1>1, NotHidden
<1>4. \A u \in Threads : u # t /\ Conn(u) = Conn(t) => Pc(u) \notin Removing
  BY DEF IInv, Books, RemovingOK, RemovedOnce, Pc
<1>5. \A u \in Threads : Conn(u) = Conn(t) => Pc(u) \notin Early
  BY <1>3 DEF Hidden, InStage
<1> QED
  BY <1>1, <1>2, <1>3, <1>4, <1>5

(* What a connection that stays published needs. *)
LEMMA PublishedPlaced ==
  ASSUME NEW c \in Conns, ~Hidden(c)',
         c \in ToSet(listed') <=> c \notin closed' \/ InStage(c, {"unlist"})',
         c \in reliable' <=> c \notin closed' \/ InStage(c, {"unlist", "leaveMaps"})',
         c \in reliable' => c \in rudp',
         IsSeated(c)' <=> c \notin closed' \/ InStage(c, Removing)',
         \A r, q \in DOMAIN rooms' : c \in rooms'[r] /\ c \in rooms'[q] => r = q
  PROVE  Placed(c)'
<1>1. HiddenOK(c)' /\ ListedOK(c)'
  BY DEF HiddenOK, ListedOK
<1>2. MapsOK(c)'
  BY DEF MapsOK
<1>3. SeatOK(c)'
  BY DEF SeatOK
<1> QED
  BY <1>1, <1>2, <1>3 DEF Placed

(* The stages of the connection a thread removes, before and after a step. *)
LEMMA RemovingStages ==
  ASSUME ConstantsOK, IInv, TablesInv, NEW t \in Threads, NEW c \in Conns, c = Conn(t), ~Hidden(c),
         NEW s \in ThreadState, Becomes(t, s), s.conn \in {0, c}, s.pc \notin Early, UNCHANGED made,
         \A u \in Threads : u # t /\ Conn(u) = c => Pc(u) \notin Early \cup Removing
  PROVE  /\ ~Hidden(c)'
         /\ \A pcs \in SUBSET Removing :
               /\ InStage(c, pcs) <=> Pc(t) \in pcs
               /\ InStage(c, pcs)' <=> s.conn = c /\ s.pc \in pcs
<1>1. TypeOK
  BY DEF IInv
<1>2. \A pcs \in SUBSET Removing :
         /\ InStage(c, pcs) <=> Pc(t) \in pcs
         /\ InStage(c, pcs)' <=> s.conn = c /\ s.pc \in pcs
  <2> SUFFICES ASSUME NEW pcs \in SUBSET Removing
               PROVE  /\ InStage(c, pcs) <=> Pc(t) \in pcs
                      /\ InStage(c, pcs)' <=> s.conn = c /\ s.pc \in pcs
    OBVIOUS
  <2>1. \A u \in Threads : u # t /\ Conn(u) = c => Pc(u) \notin pcs
    OBVIOUS
  <2> QED
    BY <1>1, <2>1, StageOf
<1>3. ~InStage(c, Early)'
  BY <1>1, StageOf
<1> QED
  BY <1>2, <1>3 DEF Hidden

LEMMA ExchangeTables ==
  ASSUME ConstantsOK, IInv, TablesInv, NEW t \in Threads, Exchange(t)
  PROVE  TablesInv'
<1> TypeOK /\ Books
  BY DEF IInv
<1>1. UNCHANGED << made, listed, routed, reliable, rudp, rooms, sweep >> /\ Pc(t) = "close"
  BY DEF Exchange, tables, service, players, At, Pc
<1>2. PICK c : c = Conn(t)
  OBVIOUS
<1>3. c \in Conns /\ Pc(t) \notin Early \cup Removing
  BY <1>1, <1>2 DEF Books, KnowsConn, Early, Removing
<1>4. ~Hidden(c)
  BY <1>2, <1>3, NotHidden
<1>5. CASE c \in closed
  BY <1>1, <1>2, <1>3, <1>5, QuietReturn DEF Exchange
<1>6. CASE c \notin closed
  <2>1. closed' = closed \cup {c} /\ Goto(t, "unlist")
    BY <1>2, <1>6 DEF Exchange
  <2>2. PICK s \in ThreadState : Becomes(t, s) /\ s.pc = "unlist" /\ s.conn = c
    <3>1. "unlist" \in PCs /\ thread[t].room \in Nat
      BY ThreadFields DEF PCs, Removing
    <3> QED
      BY <1>2, <2>1, <3>1, GotoEffect
  <2>3. \A u \in Threads : u # t /\ Conn(u) = c => Pc(u) \notin Early \cup Removing
    <3>1. \A u \in Threads : Conn(u) = c => Pc(u) \notin Early
      BY <1>4 DEF Hidden, InStage
    <3>2. \A u \in Threads : Conn(u) = c => Pc(u) \notin Removing
      BY <1>6 DEF Books, RemovingOK
    <3> QED
      BY <3>1, <3>2
  <2>4. /\ ~Hidden(c)'
        /\ \A pcs \in SUBSET Removing : InStage(c, pcs)' <=> "unlist" \in pcs
    BY <1>1, <1>2, <1>3, <1>4, <2>2, <2>3, RemovingStages DEF Early
  <2>5. \A d \in Conns : d # c => Placed(d)'
    <3> SUFFICES ASSUME NEW d \in Conns, d # c PROVE Placed(d)'
      OBVIOUS
    <3>1. \A r, q \in DOMAIN rooms' : d \in rooms'[r] /\ d \in rooms'[q] => r = q
      BY <1>1 DEF TablesInv, Placed, SeatOK
    <3>2. IsSeated(d)' <=> IsSeated(d)
      BY <1>1 DEF IsSeated
    <3> QED
      BY <1>1, <1>2, <2>1, <2>2, <3>1, <3>2, OthersPlaced
  <2>6. Placed(c)'
    <3>1. Placed(c)
      BY <1>3 DEF TablesInv
    <3>2. {"unlist"} \in SUBSET Removing /\ {"unlist", "leaveMaps"} \in SUBSET Removing
          /\ Removing \in SUBSET Removing /\ "unlist" \in Removing
      BY DEF Removing
    <3>3. InStage(c, {"unlist"})' /\ InStage(c, {"unlist", "leaveMaps"})' /\ InStage(c, Removing)'
      BY <2>4, <3>2
    <3>4. c \in ToSet(listed') /\ c \in reliable' /\ c \in rudp'
      BY <1>1, <1>4, <1>6, <3>1 DEF Placed, ListedOK, MapsOK
    <3>5. IsSeated(c)' /\ \A r, q \in DOMAIN rooms' : c \in rooms'[r] /\ c \in rooms'[q] => r = q
      BY <1>1, <1>4, <1>6, <3>1 DEF Placed, SeatOK, IsSeated
    <3> QED
      BY <1>3, <2>4, <3>3, <3>4, <3>5, PublishedPlaced
  <2>7. NoneHeld' /\ KnowsRoom'
    BY <1>1, <2>2, OthersLeave DEF HasNoConn, TablesInv, KnowsRoom
  <2>8. ListedOnce' /\ RoomSizes'
    BY <1>1 DEF TablesInv, ListedOnce, RoomSizes
  <2> QED
    BY <2>5, <2>6, <2>7, <2>8 DEF TablesInv
<1> QED
  BY <1>5, <1>6

(* Without takes out the one place of c. *)
LEMMA WithoutOnce ==
  ASSUME NEW seq \in Seq(Conns), NEW c, \A i, j \in DOMAIN seq : seq[i] = seq[j] => i = j
  PROVE  /\ ToSet(Without(seq, c)) = ToSet(seq) \ {c}
         /\ \A i, j \in DOMAIN Without(seq, c) : Without(seq, c)[i] = Without(seq, c)[j] => i = j
<1>1. CASE c \notin ToSet(seq)
  BY <1>1 DEF Without
<1>2. CASE c \in ToSet(seq)
  <2>1. PICK n \in Nat : n = Len(seq)
    OBVIOUS
  <2>2. PICK j \in 1 .. n : seq[j] = c /\ j = CHOOSE i \in DOMAIN seq : seq[i] = c
    <3>1. \E i \in DOMAIN seq : seq[i] = c
      BY <1>2 DEF ToSet
    <3> QED
      BY <2>1, <3>1
  <2>3. PICK pre, post : pre = SubSeq(seq, 1, j - 1) /\ post = SubSeq(seq, j + 1, n)
    OBVIOUS
  <2>4. /\ pre \in Seq(Conns) /\ Len(pre) = j - 1 /\ \A i \in 1 .. j - 1 : pre[i] = seq[i]
        /\ post \in Seq(Conns) /\ Len(post) = n - j /\ \A i \in 1 .. n - j : post[i] = seq[i + j]
    <3>1. 1 \in 1 .. n + 1 /\ j - 1 \in 0 .. n /\ j + 1 \in 1 .. n + 1 /\ n \in 0 .. n /\ j \in Int /\ n \in Int
      BY <2>1
    <3>2. pre \in Seq(Conns) /\ Len(pre) = j - 1 /\ \A i \in 1 .. j - 1 : pre[i] = seq[i]
      BY <2>1, <2>3, <3>1, SubSeqProperties
    <3>3. post \in Seq(Conns) /\ Len(post) = n - j /\ \A i \in 1 .. n - j : post[i] = seq[i + j]
      BY <2>1, <2>3, <3>1, SubSeqProperties
    <3> QED
      BY <3>2, <3>3
  <2>5. PICK new : new = pre \o post
    OBVIOUS
  <2>6. Without(seq, c) = new
    BY <1>2, <2>1, <2>2, <2>3, <2>5 DEF Without, RemoveAt
  <2>7. /\ DOMAIN new = 1 .. n - 1
        /\ \A i \in 1 .. n - 1 : new[i] = IF i < j THEN seq[i] ELSE seq[i + 1]
    <3>1. new \in Seq(Conns) /\ Len(new) = n - 1
      BY <2>1, <2>4, <2>5
    <3>2. DOMAIN new = 1 .. n - 1
      BY <2>1, <3>1
    <3>3. ASSUME NEW i \in 1 .. n - 1, i < j PROVE new[i] = seq[i]
      BY <2>1, <2>4, <2>5, <3>3
    <3>4. ASSUME NEW i \in 1 .. n - 1, ~(i < j) PROVE new[i] = seq[i + 1]
      <4>1. PICK k : k = i - (j - 1)
        OBVIOUS
      <4>2. k \in 1 .. n - j /\ k + j = i + 1
        BY <2>1, <3>4, <4>1
      <4>3. new[i] = post[k]
        BY <2>1, <2>4, <2>5, <3>4, <4>1
      <4> QED
        BY <2>4, <4>2, <4>3
    <3> QED
      BY <3>2, <3>3, <3>4
  <2>8. DOMAIN seq = 1 .. n
    BY <2>1
  <2>9. \A i \in 1 .. n : i = j \/ (i < j /\ i \in 1 .. n - 1) \/ (~(i - 1 < j) /\ i - 1 \in 1 .. n - 1 /\ i - 1 + 1 = i)
    BY <2>1
  <2>10. \A i \in 1 .. n - 1 : (i < j => i \in 1 .. n /\ i # j) /\ (~(i < j) => i + 1 \in 1 .. n /\ i + 1 # j)
    BY <2>1
  <2>11. \A i \in 1 .. n - 1 : new[i] \in ToSet(seq) \ {c}
    <3> SUFFICES ASSUME NEW i \in 1 .. n - 1 PROVE new[i] \in ToSet(seq) \ {c}
      OBVIOUS
    <3>1. PICK k \in 1 .. n : k # j /\ new[i] = seq[k]
      BY <2>7, <2>10
    <3> QED
      BY <2>2, <2>8, <3>1 DEF ToSet
  <2>12. \A i \in 1 .. n : i # j => \E k \in 1 .. n - 1 : new[k] = seq[i]
    <3> SUFFICES ASSUME NEW i \in 1 .. n, i # j PROVE \E k \in 1 .. n - 1 : new[k] = seq[i]
      OBVIOUS
    <3>1. CASE i < j
      BY <2>7, <2>9, <3>1
    <3>2. CASE ~(i < j)
      BY <2>7, <2>9, <3>2
    <3> QED
      BY <3>1, <3>2
  <2>13. ToSet(new) = ToSet(seq) \ {c}
    <3>1. \A x \in ToSet(seq) \ {c} : \E k \in 1 .. n - 1 : new[k] = x
      BY <2>2, <2>8, <2>12 DEF ToSet
    <3>2. \A x : x \in ToSet(new) <=> \E k \in 1 .. n - 1 : new[k] = x
      BY <2>7 DEF ToSet
    <3>3. \A x \in ToSet(new) : x \in ToSet(seq) \ {c}
      BY <2>11, <3>2
    <3>4. \A x \in ToSet(seq) \ {c} : x \in ToSet(new)
      BY <3>1, <3>2
    <3> QED
      BY <3>3, <3>4
  <2>14. \A i, k \in 1 .. n - 1 : new[i] = new[k] => i = k
    <3> SUFFICES ASSUME NEW i \in 1 .. n - 1, NEW k \in 1 .. n - 1, new[i] = new[k] PROVE i = k
      OBVIOUS
    <3>1. PICK x, y : /\ x = (IF i < j THEN i ELSE i + 1) /\ y = (IF k < j THEN k ELSE k + 1)
      OBVIOUS
    <3>2. x \in 1 .. n /\ y \in 1 .. n /\ seq[x] = seq[y]
      BY <2>7, <2>10, <3>1
    <3>3. x = y
      BY <2>8, <3>2
    <3> QED
      BY <3>1, <3>3
  <2> QED
    BY <2>6, <2>7, <2>13, <2>14
<1> QED
  BY <1>1, <1>2

LEMMA UnlistTables ==
  ASSUME ConstantsOK, IInv, TablesInv, NEW t \in Threads, Unlist(t)
  PROVE  TablesInv'
<1> TypeOK /\ Books
  BY DEF IInv
<1>1. UNCHANGED << made, closed, reliable, rudp, rooms, sweep >> /\ Pc(t) = "unlist"
  BY DEF Unlist, service, players, At, Pc
<1>2. PICK c : c = Conn(t)
  OBVIOUS
<1>3. /\ c \in Conns /\ c \in closed /\ ~Hidden(c)
      /\ \A u \in Threads : u # t /\ Conn(u) = c => Pc(u) \notin Early \cup Removing
  BY <1>1, <1>2, RemovingMover DEF Removing
<1>4. ToSet(listed') = ToSet(listed) \ {c} /\ ListedOnce'
  BY <1>2, WithoutOnce DEF Unlist, TypeOK, TablesInv, ListedOnce
<1>5. \A k \in Keys : routed'[k] \in {0, routed[k]}
  BY DEF Unlist, RoutesWithout
<1>6. PICK s \in ThreadState : Becomes(t, s) /\ s.pc = "leaveMaps" /\ s.conn = c
  <2>1. "leaveMaps" \in PCs /\ thread[t].room \in Nat /\ Goto(t, "leaveMaps")
    BY ThreadFields DEF PCs, Removing, Unlist
  <2> QED
    BY <1>2, <2>1, GotoEffect
<1>7. /\ ~Hidden(c)'
      /\ \A pcs \in SUBSET Removing : /\ InStage(c, pcs) <=> "unlist" \in pcs
                                      /\ InStage(c, pcs)' <=> "leaveMaps" \in pcs
  BY <1>1, <1>2, <1>3, <1>6, RemovingStages DEF Early
<1>8. \A d \in Conns : d # c => Placed(d)'
  <2> SUFFICES ASSUME NEW d \in Conns, d # c PROVE Placed(d)'
    OBVIOUS
  <2>1. \A r, q \in DOMAIN rooms' : d \in rooms'[r] /\ d \in rooms'[q] => r = q
    BY <1>1 DEF TablesInv, Placed, SeatOK
  <2>2. IsSeated(d)' <=> IsSeated(d)
    BY <1>1 DEF IsSeated
  <2>3. \A k \in Keys : routed'[k] = d => routed[k] = d
    BY <1>5 DEF Conns
  <2> QED
    BY <1>1, <1>2, <1>4, <1>6, <2>1, <2>2, <2>3, OthersPlaced
<1>9. Placed(c)'
  <2>1. Placed(c)
    BY <1>3 DEF TablesInv
  <2>2. {"unlist"} \in SUBSET Removing /\ {"unlist", "leaveMaps"} \in SUBSET Removing
        /\ Removing \in SUBSET Removing /\ "unlist" \in Removing /\ "leaveMaps" \in Removing
    BY DEF Removing
  <2>3. /\ ~InStage(c, {"unlist"})' /\ InStage(c, {"unlist", "leaveMaps"})' /\ InStage(c, Removing)'
        /\ InStage(c, {"unlist", "leaveMaps"}) /\ InStage(c, Removing)
    BY <1>7, <2>2
  <2>4. c \notin ToSet(listed') /\ c \in reliable' /\ c \in rudp'
    BY <1>1, <1>3, <1>4, <2>1, <2>3 DEF Placed, MapsOK
  <2>5. IsSeated(c)' /\ \A r, q \in DOMAIN rooms' : c \in rooms'[r] /\ c \in rooms'[q] => r = q
    BY <1>1, <1>3, <2>1, <2>3 DEF Placed, SeatOK, IsSeated
  <2> QED
    BY <1>1, <1>3, <1>7, <2>3, <2>4, <2>5, PublishedPlaced
<1>10. NoneHeld' /\ KnowsRoom'
  BY <1>1, <1>6, OthersLeave DEF HasNoConn, TablesInv, KnowsRoom
<1>11. RoomSizes'
  BY <1>1 DEF TablesInv, RoomSizes
<1> QED
  BY <1>4, <1>8, <1>9, <1>10, <1>11 DEF TablesInv

LEMMA LeaveMapsTables ==
  ASSUME ConstantsOK, IInv, TablesInv, NEW t \in Threads, LeaveMaps(t)
  PROVE  TablesInv'
<1> TypeOK /\ Books
  BY DEF IInv
<1>1. UNCHANGED << made, closed, listed, routed, rooms, sweep >> /\ Pc(t) = "leaveMaps"
  BY DEF LeaveMaps, tables, players, At, Pc
<1>2. PICK c : c = Conn(t)
  OBVIOUS
<1>3. /\ c \in Conns /\ c \in closed /\ ~Hidden(c)
      /\ \A u \in Threads : u # t /\ Conn(u) = c => Pc(u) \notin Early \cup Removing
  BY <1>1, <1>2, RemovingMover DEF Removing
<1>4. reliable' = reliable \ {c} /\ rudp' = rudp \ {c}
  BY <1>2 DEF LeaveMaps
<1>5. PICK s \in ThreadState : Becomes(t, s) /\ s.pc = "findSeat" /\ s.conn = c
  <2>1. "findSeat" \in PCs /\ thread[t].room \in Nat /\ Goto(t, "findSeat")
    BY ThreadFields DEF PCs, Removing, LeaveMaps
  <2> QED
    BY <1>2, <2>1, GotoEffect
<1>6. /\ ~Hidden(c)'
      /\ \A pcs \in SUBSET Removing : /\ InStage(c, pcs) <=> "leaveMaps" \in pcs
                                      /\ InStage(c, pcs)' <=> "findSeat" \in pcs
  BY <1>1, <1>2, <1>3, <1>5, RemovingStages DEF Early
<1>7. \A d \in Conns : d # c => Placed(d)'
  <2> SUFFICES ASSUME NEW d \in Conns, d # c PROVE Placed(d)'
    OBVIOUS
  <2>1. \A r, q \in DOMAIN rooms' : d \in rooms'[r] /\ d \in rooms'[q] => r = q
    BY <1>1 DEF TablesInv, Placed, SeatOK
  <2>2. IsSeated(d)' <=> IsSeated(d)
    BY <1>1 DEF IsSeated
  <2> QED
    BY <1>1, <1>2, <1>4, <1>5, <2>1, <2>2, OthersPlaced
<1>8. Placed(c)'
  <2>1. Placed(c)
    BY <1>3 DEF TablesInv
  <2>2. {"unlist"} \in SUBSET Removing /\ {"unlist", "leaveMaps"} \in SUBSET Removing
        /\ Removing \in SUBSET Removing /\ "findSeat" \in Removing /\ "leaveMaps" \in Removing
    BY DEF Removing
  <2>3. /\ ~InStage(c, {"unlist"})' /\ ~InStage(c, {"unlist", "leaveMaps"})' /\ InStage(c, Removing)'
        /\ ~InStage(c, {"unlist"}) /\ InStage(c, Removing)
    BY <1>6, <2>2
  <2>4. c \notin ToSet(listed')
    BY <1>1, <1>3, <2>1, <2>3 DEF Placed, ListedOK
  <2>5. IsSeated(c)' /\ \A r, q \in DOMAIN rooms' : c \in rooms'[r] /\ c \in rooms'[q] => r = q
    BY <1>1, <1>3, <2>1, <2>3 DEF Placed, SeatOK, IsSeated
  <2> QED
    BY <1>1, <1>3, <1>4, <1>6, <2>3, <2>4, <2>5, PublishedPlaced
<1>9. NoneHeld' /\ KnowsRoom'
  BY <1>1, <1>5, OthersLeave DEF HasNoConn, TablesInv, KnowsRoom
<1>10. ListedOnce' /\ RoomSizes'
  BY <1>1 DEF TablesInv, ListedOnce, RoomSizes
<1> QED
  BY <1>7, <1>8, <1>9, <1>10 DEF TablesInv

(* A connection with one seat: FindRoomWithConnection finds it. *)
LEMMA SeatFound ==
  ASSUME TypeOK, NEW c, IsSeated(c), \A r, q \in DOMAIN rooms : c \in rooms[r] /\ c \in rooms[q] => r = q
  PROVE  SeatOf(c) \in DOMAIN rooms /\ c \in rooms[SeatOf(c)] /\ SeatOf(c) \in Nat \ {0}
<1>1. PICK n \in Nat : n = Len(rooms) /\ DOMAIN rooms = 1 .. n
  BY SMTT(30) DEF TypeOK
<1>2. PICK r \in 1 .. n : c \in rooms[r]
  BY <1>1 DEF IsSeated
<1>3. \A q \in 1 .. r - 1 : q \in 1 .. n /\ q # r
  BY <1>1
<1>4. \A q \in 1 .. r - 1 : c \notin rooms[q]
  BY <1>1, <1>2, <1>3
<1>5. \E x \in DOMAIN rooms : c \in rooms[x] /\ \A q \in 1 .. x - 1 : c \notin rooms[q]
  BY <1>1, <1>2, <1>4
<1>6. SeatOf(c) \in DOMAIN rooms /\ c \in rooms[SeatOf(c)]
  BY <1>5 DEF SeatOf
<1> QED
  BY <1>1, <1>6

LEMMA FindSeatTables ==
  ASSUME ConstantsOK, IInv, TablesInv, NEW t \in Threads, FindSeat(t)
  PROVE  TablesInv'
<1> TypeOK /\ Books
  BY DEF IInv
<1>1. UNCHANGED << made, closed, listed, routed, reliable, rudp, rooms, sweep >> /\ Pc(t) = "findSeat"
  BY DEF FindSeat, tables, service, players, At, Pc
<1>2. PICK c : c = Conn(t)
  OBVIOUS
<1>3. c \in Conns /\ c \in closed /\ ~Hidden(c) /\ InStage(c, Removing)
  BY <1>1, <1>2, RemovingMover DEF Removing, InStage
<1>4. SeatOf(c) \in DOMAIN rooms /\ c \in rooms[SeatOf(c)] /\ SeatOf(c) \in Nat \ {0}
  BY <1>3, SeatFound DEF TablesInv, Placed, SeatOK
<1>5. PICK s \in ThreadState : Becomes(t, s) /\ s.pc = "leave" /\ s.conn = c /\ s.room = SeatOf(c)
  <2>1. "leave" \in PCs /\ SeatOf(c) \in Nat /\ GotoRoom(t, "leave", SeatOf(c))
    BY <1>2, <1>4 DEF PCs, Removing, FindSeat
  <2> QED
    BY <1>2, <2>1, GotoEffect
<1>6. ToSet(sweep'.all) \subseteq ToSet(sweep.all) \cup ToSet(listed)
  BY <1>1
<1> QED
  BY <1>1, <1>2, <1>4, <1>5, <1>6, QuietMove DEF SamePlace, HasNoConn

LEMMA LeaveTables ==
  ASSUME ConstantsOK, IInv, TablesInv, NEW t \in Threads, Leave(t)
  PROVE  TablesInv'
<1> TypeOK /\ Books
  BY DEF IInv
<1>1. UNCHANGED << made, closed, listed, routed, reliable, rudp, sweep >> /\ Pc(t) = "leave"
  BY DEF Leave, tables, At, Pc
<1>2. PICK c, r : c = Conn(t) /\ r = thread[t].room
  OBVIOUS
<1>3. /\ c \in Conns /\ c \in closed /\ ~Hidden(c)
      /\ \A u \in Threads : u # t /\ Conn(u) = c => Pc(u) \notin Early \cup Removing
  BY <1>1, <1>2, RemovingMover DEF Removing
<1>4. r \in DOMAIN rooms /\ c \in rooms[r] /\ Placed(c)
  BY <1>1, <1>2, <1>3 DEF TablesInv, KnowsRoom
<1>5. PICK s : s = Rest(t)
  OBVIOUS
<1>6. /\ s \in ThreadState /\ s.pc \in {"idle", "sweep", "flush"} /\ s.conn \in {0, c} /\ Becomes(t, s)
      /\ s.pc \in HasNoConn => s.conn = 0
  <2>1. s.pc \in HasNoConn => s.conn = 0
    BY <1>5 DEF Rest, State, Idle, HasNoConn
  <2> QED
    BY <1>2, <1>5, <2>1, RestFields DEF Leave, Return
<1>7. PICK room : room = rooms[r] \ {c}
  OBVIOUS
<1>8. /\ DOMAIN rooms' = DOMAIN rooms /\ rooms'[r] = room
      /\ \A q \in DOMAIN rooms : q # r => rooms'[q] = rooms[q]
  <2>1. rooms' = [rooms EXCEPT ![r] = room]
    BY <1>2, <1>7 DEF Leave
  <2> QED
    BY <1>4, <2>1
<1>9. /\ ~Hidden(c)'
      /\ \A pcs \in SUBSET Removing : /\ InStage(c, pcs) <=> "leave" \in pcs
                                      /\ ~InStage(c, pcs)'
  <2>1. s.pc \notin Early /\ s.pc \notin Removing
    BY <1>6 DEF Early, Removing
  <2> QED
    BY <1>1, <1>2, <1>3, <1>6, <2>1, RemovingStages
<1>10. \A d \in Conns : d # c => Placed(d)'
  <2> SUFFICES ASSUME NEW d \in Conns, d # c PROVE Placed(d)'
    OBVIOUS
  <2>1. \A q \in DOMAIN rooms : d \in rooms'[q] <=> d \in rooms[q]
    BY <1>7, <1>8
  <2>2. \A p, q \in DOMAIN rooms' : d \in rooms'[p] /\ d \in rooms'[q] => p = q
    BY <1>8, <2>1 DEF TablesInv, Placed, SeatOK
  <2>3. IsSeated(d)' <=> IsSeated(d)
    BY <1>8, <2>1 DEF IsSeated
  <2> QED
    BY <1>1, <1>2, <1>6, <2>2, <2>3, OthersPlaced
<1>11. Placed(c)'
  <2>1. {"unlist"} \in SUBSET Removing /\ {"unlist", "leaveMaps"} \in SUBSET Removing
        /\ Removing \in SUBSET Removing
    BY DEF Removing
  <2>2. /\ ~InStage(c, {"unlist"})' /\ ~InStage(c, {"unlist", "leaveMaps"})' /\ ~InStage(c, Removing)'
        /\ ~InStage(c, {"unlist"}) /\ ~InStage(c, {"unlist", "leaveMaps"})
    BY <1>9, <2>1
  <2>3. c \notin ToSet(listed') /\ c \notin reliable'
    BY <1>1, <1>3, <1>4, <2>2 DEF Placed, ListedOK, MapsOK
  <2>4. \A q \in DOMAIN rooms' : c \notin rooms'[q]
    BY <1>4, <1>7, <1>8 DEF Placed, SeatOK
  <2>5. ~IsSeated(c)'
    BY <2>4 DEF IsSeated
  <2> QED
    BY <1>1, <1>3, <1>9, <2>2, <2>3, <2>4, <2>5, PublishedPlaced
<1>12. NoneHeld' /\ KnowsRoom'
  <2>1. \A u \in Threads : u # t /\ Pc(u) = "leave" =>
          thread[u].room \in DOMAIN rooms' /\ Conn(u) \in rooms'[thread[u].room]
    <3> SUFFICES ASSUME NEW u \in Threads, u # t, Pc(u) = "leave"
                 PROVE  thread[u].room \in DOMAIN rooms' /\ Conn(u) \in rooms'[thread[u].room]
      OBVIOUS
    <3>1. PICK q : q = thread[u].room
      OBVIOUS
    <3>2. q \in DOMAIN rooms /\ Conn(u) \in rooms[q]
      BY <3>1 DEF TablesInv, KnowsRoom
    <3>3. Conn(u) # c
      BY <1>3 DEF Removing
    <3> QED
      BY <1>7, <1>8, <3>1, <3>2, <3>3
  <2> QED
    BY <1>6, <2>1, OthersLeave
<1>13. ListedOnce'
  BY <1>1 DEF TablesInv, ListedOnce
<1>14. RoomSizes'
  <2>1. rooms[r] \in SUBSET Conns
    BY <1>4 DEF TypeOK
  <2>2. IsFiniteSet(Conns)
    BY FS_Interval DEF Conns, ConstantsOK
  <2>3. IsFiniteSet(rooms[r])
    BY <2>1, <2>2, FS_Subset
  <2>4. IsFiniteSet(room) /\ Cardinality(room) <= Cardinality(rooms[r])
    BY <1>7, <2>3, FS_Subset
  <2>5. Cardinality(room) \in Nat /\ Cardinality(rooms[r]) \in Nat
    BY <2>3, <2>4, FS_CardinalityType
  <2>6. Cardinality(room) <= MaxPlayer
    BY <1>4, <2>4, <2>5 DEF TablesInv, RoomSizes, ConstantsOK
  <2> QED
    BY <1>8, <2>6 DEF TablesInv, RoomSizes
<1> QED
  BY <1>10, <1>11, <1>12, <1>13, <1>14 DEF TablesInv
-----------------------------------------------------------------------------
\* No connection is made yet and no player has a seat.
LEMMA InitTables == ASSUME ConstantsOK, Init PROVE TablesInv
<1>1. \A t \in Threads : Pc(t) = "idle" /\ Conn(t) = 0
  BY DEF Init, Idle, State, Pc, Conn
<1>2. made = 0 /\ closed = {} /\ reliable = {} /\ rooms = << {} >>
  BY DEF Init
<1>3. ToSet(listed) = {} /\ ToSet(sweep.all) = {} /\ ListedOnce
  BY DEF Init, ToSet, ListedOnce
<1>4. ASSUME NEW c \in Conns PROVE Placed(c)
  <2>1. Hidden(c) /\ \A pcs : ~InStage(c, pcs)
    BY <1>1, <1>2 DEF Hidden, InStage, Conns
  <2>2. \A t \in Threads : Conn(t) # c
    BY <1>1 DEF Conns
  <2>3. \A k \in Keys : routed[k] # c
    BY DEF Init, Conns
  <2>4. \A r \in DOMAIN rooms : c \notin rooms[r]
    BY <1>2
  <2>5. HiddenOK(c) /\ ListedOK(c)
    BY <1>2, <1>3, <2>1, <2>2, <2>3 DEF HiddenOK, ListedOK
  <2>6. MapsOK(c) /\ SeatOK(c)
    BY <1>2, <2>1, <2>4 DEF MapsOK, SeatOK, IsSeated
  <2> QED
    BY <2>5, <2>6 DEF Placed
<1>5. NoneHeld /\ KnowsRoom
  BY <1>1 DEF NoneHeld, KnowsRoom
<1>6. RoomSizes
  <2>1. Cardinality({}) <= MaxPlayer
    BY FS_EmptySet DEF ConstantsOK
  <2> QED
    BY <1>2, <2>1 DEF RoomSizes
<1> QED
  BY <1>3, <1>4, <1>5, <1>6 DEF TablesInv

\* Every step keeps the invariant of the tables.
LEMMA TablesStep == ASSUME ConstantsOK, IInv, TablesInv, [Next]_vars PROVE TablesInv'
<1> Receivers \subseteq Threads /\ Workers \subseteq Threads
  BY DEF Threads
<1>1. CASE \E t \in Receivers : Receive(t)
  BY <1>1, ReceiveTables, AddClientTables, EnterMapsTables, LockRoomsTables, TakeSeatTables,
     PublishTables DEF Receive
<1>2. CASE \E t \in Threads : RemoveConnection(t)
  BY <1>2, ExchangeTables, UnlistTables, LeaveMapsTables, FindSeatTables, LeaveTables DEF RemoveConnection
<1>3. CASE \E t \in Receivers, k \in Keys : Route(t, k)
  BY <1>3, RouteTables
<1>4. CASE TickStep
  BY <1>4, TickTables
<1>5. CASE \E w \in Workers : TakeJob(w) \/ EndJob(w) \/ CloseInJob(w) \/ HandleMessage(w)
  BY <1>5, TakeJobTables, WorkTables
<1>6. CASE UNCHANGED vars
  BY <1>6, QuietTables DEF vars, tables, service, players, Pc, Conn
<1> QED
  BY <1>1, <1>2, <1>3, <1>4, <1>5, <1>6 DEF Next, WorkerStep

(* The inductive invariant of the tables and the seats, on the same grounds: every
   step of AddClient, the room handlers and the removal of a connection keeps it. *)
THEOREM TablesInvariance == Spec => []TablesInv
<1>1. Init => TablesInv
  BY ConstantsOK, InitTables
<1>2. IInv /\ TablesInv /\ [Next]_vars => TablesInv'
  BY ConstantsOK, TablesStep
<1> QED
  BY <1>1, <1>2, Invariance, PTL DEF Spec

\* AddClient and RemoveConnection each go through the driver's list, the maps of
\* the service and the rooms under locks of their own: between the two of them a
\* connection is nevertheless in all of these or in none, as its state says.
THEOREM AddedOrRemoved == Spec => []TablesAgree
<1>1. IInv /\ TablesInv => TablesAgree
  <2> SUFFICES ASSUME IInv, TablesInv, NEW c \in 1 .. made, ~IsAdding(c), ~IsRemoving(c)
               PROVE  IF c \in closed
                        THEN c \notin ToSet(listed) /\ c \notin reliable /\ Seats(c) = {}
                        ELSE c \in ToSet(listed) /\ c \in reliable /\ c \in rudp /\ Seats(c) # {}
    BY DEF TablesAgree
  <2>1. c \in Conns /\ ~(c > made)
    BY ConstantsOK DEF IInv, TypeOK, Conns, ConstantsOK
  <2>2. \A pcs \in SUBSET (Adding \cup Removing) : ~InStage(c, pcs)
    BY DEF IsAdding, IsRemoving, InStage, Pc
  <2>3. /\ Early \in SUBSET (Adding \cup Removing)
        /\ {"unlist"} \in SUBSET (Adding \cup Removing)
        /\ {"unlist", "leaveMaps"} \in SUBSET (Adding \cup Removing)
        /\ Removing \in SUBSET (Adding \cup Removing)
    BY DEF Early, Adding, Removing
  <2>4. /\ ~InStage(c, Early) /\ ~InStage(c, {"unlist"}) /\ ~InStage(c, {"unlist", "leaveMaps"})
        /\ ~InStage(c, Removing)
    BY <2>2, <2>3
  <2>5. ~Hidden(c) /\ Placed(c)
    BY <2>1, <2>4 DEF Hidden, TablesInv
  <2>6. Seats(c) = {} <=> ~IsSeated(c)
    BY DEF Seats, IsSeated
  <2> QED
    BY <2>4, <2>5, <2>6 DEF Placed, ListedOK, MapsOK, SeatOK
<1> QED
  BY <1>1, Invariance, TablesInvariance, PTL

\* RoomManager::AddPlayer tests a room for space and adds to it later, while
\* players leave: no player sits twice, and no room has more than maxPlayer.
THEOREM SeatsOnce == Spec => []Seating
<1>1. IInv /\ TablesInv => Seating
  <2> SUFFICES ASSUME IInv, TablesInv PROVE Seating
    OBVIOUS
  <2>1. ASSUME NEW c \in Conns PROVE Cardinality(Seats(c)) <= 1
    <3>1. CASE Seats(c) = {}
      BY <3>1, FS_EmptySet
    <3>2. CASE Seats(c) # {}
      <4>1. PICK r : r \in Seats(c)
        BY <3>2
      <4>2. Seats(c) = {r}
        BY <2>1, <4>1 DEF TablesInv, Placed, SeatOK, Seats
      <4>3. Cardinality({r}) = 1
        BY FS_Singleton
      <4> QED
        BY <4>2, <4>3
    <3> QED
      BY <3>1, <3>2
  <2> QED
    BY <2>1 DEF TablesInv, RoomSizes, Seating
<1> QED
  BY <1>1, Invariance, TablesInvariance, PTL

\* AddClient seats the player before AddClient_Internal lets anything route to
\* the connection, so a job of an open connection finds the player in a room.
THEOREM ServedHaveSeats == Spec => []SeatedBeforeServed
<1>1. IInv /\ TablesInv => SeatedBeforeServed
  <2> SUFFICES ASSUME IInv, TablesInv, NEW w \in Workers, Conn(w) \in Conns \ closed
               PROVE  Seats(Conn(w)) # {}
    BY DEF SeatedBeforeServed
  <2>1. owner[Conn(w)] = w /\ w # Unassigned /\ Conn(w) # 0
    BY ConstantsOK DEF IInv, Books, JobsOK, Workers, Unassigned, ConstantsOK, Conns
  <2>2. ~Hidden(Conn(w))
    BY <2>1, ConstantsOK, NotHidden
  <2>3. IsSeated(Conn(w))
    BY <2>2 DEF TablesInv, Placed, SeatOK
  <2> QED
    BY <2>3 DEF Seats, IsSeated
<1> QED
  BY <1>1, Invariance, TablesInvariance, PTL
=============================================================================
