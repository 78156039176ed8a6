--------------------------- MODULE NetConnection ---------------------------
(***************************************************************************)
(* Two established connections of the engine, the client's and the         *)
(* server's, and the datagrams between them.                               *)
(*                                                                         *)
(* Everything a NetConnection does runs in jobs pinned to one worker       *)
(* thread: one job per received datagram (ReceivedPacket), and per tick    *)
(* one that dispatches what was received and assembles packets             *)
(* (TickDispatch) and one that sends them (TickFlush).  A job runs to its  *)
(* end before the next one of that connection starts; pc says which loop   *)
(* of the job is running, and each iteration of a loop is one step.  The   *)
(* jobs of the two sides share nothing but the datagrams, so a job also    *)
(* finishes before the other side moves.                                   *)
(*                                                                         *)
(* The network keeps every datagram: one that is never received is lost,   *)
(* one received twice is duplicated, and any order is possible.            *)
(***************************************************************************)
EXTENDS NetPacketNotify, NetChannel, ChannelRecord

CONSTANTS
    Channels,          \* channel indices
    InitSeq,           \* InitSeq[e]: OutgoingSequence of side e
    Sizes,             \* payload sizes of the units the application submits
    BunchHeaderSize, PacketHeaderSize, PacketMaxSize,
    ReliableBuffer,    \* RELIABLE_BUFFER, 512 in the code
    MaxUnits,          \* bound: MaxUnits[e] units per channel at side e
    MaxPackets,        \* bound: side e ticks until it has made MaxPackets[e]
    MaxPending         \* bound: datagrams received between two ticks

Ep == {"client", "server"}
Peer(e) == IF e = "client" THEN "server" ELSE "client"

ASSUME ConnectionAssumption ==
    /\ Channels \subseteq Nat
    /\ InitSeq \in [Ep -> SeqNums]
    /\ Sizes \subseteq Nat
    /\ BunchHeaderSize \in Nat /\ PacketHeaderSize \in Nat /\ PacketMaxSize \in Nat
    /\ ReliableBuffer \in Nat
    /\ MaxUnits \in [Ep -> Nat] /\ MaxPackets \in [Ep -> Nat] /\ MaxPending \in Nat

VARIABLES
    pc, turn, closed,                    \* the running job, the next tick job
    notify,                              \* PacketNotify
    InPacketId, Pending,                 \* PendingDispatchPacketReaders
    notes, LastNotified,                 \* notifications the header still owes
    OutPacketId, OutPacketQueue,
    asm,                                 \* readyPackets, the last one still open
    Record, LastRecordId,                \* ConnectionChannelRecord
    Submitted, OutBunchQueue, OutUnAcked, OutReliable,   \* per channel, sending
    InReliable, InUnread,                                \* per channel, receiving
    sealed, delivered,                   \* history: all bunches made, dispatched
    dispatched,                          \* history: sequence numbers of dispatched packets
    net                                  \* net[e]: datagrams sent to side e

ctlVars  == << pc, turn, closed >>
recvVars == << InPacketId, Pending, notes, LastNotified >>
sendVars == << OutPacketId, OutPacketQueue, asm >>
recVars  == << Record, LastRecordId >>
outVars  == << Submitted, OutBunchQueue, OutUnAcked, OutReliable, sealed >>
inVars   == << InReliable, InUnread, delivered, dispatched >>
vars == << ctlVars, notify, recvVars, sendVars, recVars, outVars, inVars, net >>

\* InitOutReliable of side e, which is InitInReliable of its peer.
InitReliable(e) == InitSeq[e] % MaxChSequence

\* NetConnection after InitSequence, with every channel open and empty.
Init ==
    /\ pc = [e \in Ep |-> "idle"]
    /\ turn = [e \in Ep |-> "dispatch"]
    /\ closed = [e \in Ep |-> FALSE]
    /\ notify = [e \in Ep |-> NotifyInit(InitSeq[Peer(e)] - 1, InitSeq[e])]
    /\ InPacketId = [e \in Ep |-> InitSeq[Peer(e)] - 1]
    /\ LastNotified = [e \in Ep |-> InitSeq[e] - 1]
    /\ OutPacketId = InitSeq
    /\ Pending = [e \in Ep |-> << >>]
    /\ notes = [e \in Ep |-> << >>]
    /\ OutPacketQueue = [e \in Ep |-> << >>]
    /\ asm = [e \in Ep |-> << >>]
    /\ Record = [e \in Ep |-> << >>]
    /\ LastRecordId = [e \in Ep |-> -1]
    /\ Submitted = [e \in Ep |-> [c \in Channels |-> << >>]]
    /\ OutBunchQueue = [e \in Ep |-> [c \in Channels |-> << >>]]
    /\ OutUnAcked = [e \in Ep |-> [c \in Channels |-> EmptyMap]]
    /\ OutReliable = [e \in Ep |-> [c \in Channels |-> InitReliable(e)]]
    /\ InReliable = [e \in Ep |-> [c \in Channels |-> InitReliable(Peer(e))]]
    /\ InUnread = [e \in Ep |-> [c \in Channels |-> EmptyMap]]
    /\ sealed = [e \in Ep |-> [c \in Channels |-> << >>]]
    /\ delivered = [e \in Ep |-> [c \in Channels |-> << >>]]
    /\ dispatched = [e \in Ep |-> {}]
    /\ net = [e \in Ep |-> {}]

\* No job is running on either side.
Idle == \A e \in Ep : pc[e] = "idle"

-----------------------------------------------------------------------------
(* The application, on any thread: SendNetMessage queues a message.  What  *)
(* one pass of the bunch builder packs together is one unit here.          *)

SendNetMessage(e, c, size) ==
    /\ Idle
    /\ Len(sealed[e][c]) + Len(Submitted[e][c]) < MaxUnits[e]
    /\ Submitted' = [Submitted EXCEPT ![e][c] = Append(@, size)]
    /\ UNCHANGED << ctlVars, notify, recvVars, sendVars, recVars, OutBunchQueue,
                    OutUnAcked, OutReliable, sealed, inVars, net >>

-----------------------------------------------------------------------------
(* The job of a received datagram: ReceivedPacket.                         *)

\* An old or senseless header changes nothing, yet the packet is queued.
ReceiveOld(e, p) ==
    /\ Idle
    /\ Len(Pending[e]) < MaxPending
    /\ ReadHeader(p.header)
    /\ SequenceDelta(notify[e], p.header) = 0
    /\ Pending' = [Pending EXCEPT ![e] = Append(@, p)]
    /\ UNCHANGED << ctlVars, notify, InPacketId, notes, LastNotified, sendVars,
                    recVars, outVars, inVars, net >>

\* A new header updates PacketNotify at once; the notifications it carries are
\* handled next.  During a flush the packet itself is dropped.
ReceiveNew(e, p) ==
    LET h     == p.header
        n     == notify[e]
        u     == Update(n, h)
        flush == IsWaitingForSequenceHistoryFlush(u.notify)
    IN  /\ Idle
        /\ Len(Pending[e]) < MaxPending
        /\ ReadHeader(h)
        /\ SequenceDelta(n, h) > 0
        /\ notify' = [notify EXCEPT ![e] = u.notify]
        /\ notes' = [notes EXCEPT ![e] = Notifications(n, h)]
        /\ InPacketId' = [InPacketId EXCEPT
                            ![e] = @ + IF flush THEN u.delta ELSE SequenceDelta(n, h)]
        /\ Pending' = [Pending EXCEPT ![e] = IF flush THEN @ ELSE Append(@, p)]
        /\ pc' = [pc EXCEPT ![e] = IF AckCount(n, h) > 0 THEN "acks"
                                   ELSE IF flush THEN "retransmit" ELSE "idle"]
        /\ UNCHANGED << turn, closed, LastNotified, sendVars, recVars, outVars,
                        inVars, net >>

\* Close: only the first call does something.
Close(e) == closed' = [closed EXCEPT ![e] = TRUE]

\* The effect of RecivedAck / RecivedNack on the channels of packet id.
NotifyChannels(e, id, cs, isDelivered) ==
    /\ OutUnAcked' = [OutUnAcked EXCEPT ![e] =
         [c \in Channels |-> IF c \in cs THEN Erase(@[c], id) ELSE @[c]]]
    /\ OutBunchQueue' = [OutBunchQueue EXCEPT ![e] =
         [c \in Channels |-> IF c \in cs /\ ~ isDelivered
                             THEN BunchesOf(OutUnAcked[e][c], id) \o @[c]
                             ELSE @[c]]]

\* HandlePacketNotification for the oldest packet not yet reported on.  Its
\* sequence number is OutAckSeq less the notifications still to come.
HandlePacketNotification(e) ==
    LET id    == LastNotified[e] + 1
        acked == ToSeq(notify[e].OutAckSeq - (Len(notes[e]) - 1))
        rec   == Record[e]
    IN  /\ pc[e] = "acks"
        /\ notes' = [notes EXCEPT ![e] = Tail(@)]
        /\ LastNotified' = [LastNotified EXCEPT ![e] = id]
        /\ IF ToSeq(id) = acked /\ rec # << >>
           THEN IF FrontIsPacket(rec, id)
                THEN \E n \in 0 .. Len(rec) - 1 :
                       /\ IsChannelRun(rec, n)
                       /\ Record' = [Record EXCEPT ![e] = DropPacket(@, n)]
                       /\ NotifyChannels(e, id, ChannelRun(rec, n), Head(notes[e]))
                       /\ UNCHANGED closed
                ELSE Close(e) /\ UNCHANGED << Record, OutUnAcked, OutBunchQueue >>
           ELSE UNCHANGED << Record, OutUnAcked, OutBunchQueue, closed >>
        /\ pc' = [pc EXCEPT ![e] =
                    IF Len(notes[e]) > 1 THEN "acks"
                    ELSE IF IsWaitingForSequenceHistoryFlush(notify[e])
                    THEN "retransmit" ELSE "idle"]
        /\ UNCHANGED << turn, notify, InPacketId, Pending, sendVars, LastRecordId,
                        Submitted, OutReliable, sealed, inVars, net >>

\* ForceRetransmitAllUnAcked, packet by packet from the newest: a channel's
\* bunches in flight go back in front of its queue.
ForceRetransmit(e, c, id) ==
    /\ pc[e] = "retransmit"
    /\ id \in DOMAIN OutUnAcked[e][c]
    /\ \A p \in DOMAIN OutUnAcked[e][c] : p <= id
    /\ \A d \in Channels : d < c => DOMAIN OutUnAcked[e][d] = {}
    /\ OutBunchQueue' = [OutBunchQueue EXCEPT ![e][c] = OutUnAcked[e][c][id] \o @]
    /\ OutUnAcked' = [OutUnAcked EXCEPT ![e][c] = Erase(@, id)]
    /\ UNCHANGED << ctlVars, notify, recvVars, sendVars, recVars, Submitted,
                    OutReliable, sealed, inVars, net >>

RetransmitDone(e) ==
    /\ pc[e] = "retransmit"
    /\ \A c \in Channels : DOMAIN OutUnAcked[e][c] = {}
    /\ pc' = [pc EXCEPT ![e] = "idle"]
    /\ UNCHANGED << turn, closed, notify, recvVars, sendVars, recVars, outVars,
                    inVars, net >>

-----------------------------------------------------------------------------
(* The dispatch job of a tick: DispatchPendingPacket, the channels' Tick,  *)
(* AssembleOutgoingPackets.                                                *)

\* A tick that was posted before Close still runs.
TickDispatch(e) ==
    /\ Idle
    /\ turn[e] = "dispatch"
    /\ OutPacketId[e] - InitSeq[e] < MaxPackets[e]
    /\ pc' = [pc EXCEPT ![e] = "dispatch"]
    /\ UNCHANGED << turn, closed, notify, recvVars, sendVars, recVars, outVars,
                    inVars, net >>

\* The next bunch of the packet at the head of Pending, and that packet's rest.
HasBunch(e) == Pending[e] # << >> /\ Head(Pending[e]).bunches # << >>
NextBunch(e) == Head(Head(Pending[e]).bunches)
DropBunch(q) == << [Head(q) EXCEPT !.bunches = Tail(@)] >> \o Tail(q)

\* The number of a bunch next to the one received last.
Relative(e, b) == MakeRelative(b.seq, InReliable[e][b.ch])

\* Variants: only old bunches are put aside; old bunches are not recognised.
InTurn_NotOld(e, b) == Relative(e, b) > InReliable[e][b.ch]
InTurn_OrOld(e, b)  == Relative(e, b) <= InReliable[e][b.ch] + 1

\* The test that decides between buffering a bunch and dispatching it.
InTurn(e, b) == Relative(e, b) = InReliable[e][b.ch] + 1

\* One iteration of the loop of DispatchPacket, for a bunch whose number is not
\* the next one: it is put aside under its relative number, whatever that is.
BufferBunch(e) ==
    LET b == NextBunch(e)
    IN  /\ pc[e] = "dispatch"
        /\ HasBunch(e)
        /\ ~ closed[e]
        /\ ~ InTurn(e, b)
        /\ InUnread' = [InUnread EXCEPT ![e][b.ch] = AddUnread(@, Relative(e, b), b)]
        /\ Pending' = [Pending EXCEPT ![e] = DropBunch(@)]
        /\ UNCHANGED << ctlVars, notify, InPacketId, notes, LastNotified, sendVars,
                        recVars, outVars, InReliable, delivered, dispatched, net >>

\* DispatchRawBunch for the next bunch in order, and then for the buffered
\* bunches that follow it.
DispatchBunch(e) ==
    LET b      == NextBunch(e)
        c      == b.ch
        last   == InReliable[e][c] + 1
        unread == InUnread[e][c]
    IN  /\ pc[e] = "dispatch"
        /\ HasBunch(e)
        /\ ~ closed[e]
        /\ InTurn(e, b)
        /\ \E n \in 0 .. Cardinality(DOMAIN unread) :
             /\ IsDrainLength(unread, last, n)
             /\ InReliable' = [InReliable EXCEPT ![e][c] = last + n]
             /\ delivered' = [delivered EXCEPT ![e][c] =
                                Append(@, b) \o DrainedBunches(unread, last, n)]
             /\ InUnread' = [InUnread EXCEPT ![e][c] = Drained(@, last, n)]
        /\ Pending' = [Pending EXCEPT ![e] = DropBunch(@)]
        /\ UNCHANGED << ctlVars, notify, InPacketId, notes, LastNotified, sendVars,
                        recVars, outVars, dispatched, net >>

\* The packet is done: AckSeq is called with the newest packet received so far,
\* not with the packet that was dispatched.
AckPacket(e) ==
    /\ pc[e] = "dispatch"
    /\ Pending[e] # << >>
    /\ Head(Pending[e]).bunches = << >> \/ closed[e]
    /\ notify' = [notify EXCEPT ![e] = AckSeq(@, ToSeq(InPacketId[e]), TRUE)]
    /\ Pending' = [Pending EXCEPT ![e] = Tail(@)]
    /\ dispatched' = [dispatched EXCEPT ![e] =
         IF closed[e] THEN @ ELSE @ \union {Head(Pending[e]).header.seq}]
    /\ UNCHANGED << ctlVars, InPacketId, notes, LastNotified, sendVars, recVars,
                    outVars, InReliable, InUnread, delivered, net >>

\* TickFlush of every channel: what was submitted is sealed and queued.
TickChannels(e) ==
    LET new   == [c \in Channels |->
                    SealedBunches(c, OutReliable[e][c], Submitted[e][c])]
        queue == [c \in Channels |-> OutBunchQueue[e][c] \o new[c]]
    IN  /\ pc[e] = "dispatch"
        /\ Pending[e] = << >>
        /\ OutBunchQueue' = [OutBunchQueue EXCEPT ![e] = queue]
        /\ sealed' = [sealed EXCEPT ![e] = [c \in Channels |-> @[c] \o new[c]]]
        /\ OutReliable' = [OutReliable EXCEPT
                             ![e] = [c \in Channels |-> @[c] + Len(new[c])]]
        /\ Submitted' = [Submitted EXCEPT ![e] = [c \in Channels |-> << >>]]
        /\ pc' = [pc EXCEPT ![e] = IF \E c \in Channels : queue[c] # << >>
                                   THEN "assemble" ELSE "keepalive"]
        /\ UNCHANGED << turn, closed, notify, recvVars, sendVars, recVars,
                        OutUnAcked, inVars, net >>

\* IsRequireAssembleBunch is false and the keep-alive time has passed: a packet
\* without bunches.
SendKeepAlive(e) ==
    /\ pc[e] = "keepalive"
    /\ OutPacketQueue' = [OutPacketQueue EXCEPT ![e] =
         Append(@, [id |-> OutPacketId[e], size |-> PacketHeaderSize, bunches |-> << >>])]
    /\ Record' = [Record EXCEPT ![e] = PushPacketId(@, LastRecordId[e], OutPacketId[e])]
    /\ LastRecordId' = [LastRecordId EXCEPT ![e] = OutPacketId[e]]
    /\ OutPacketId' = [OutPacketId EXCEPT ![e] = @ + 1]
    /\ pc' = [pc EXCEPT ![e] = "idle"]
    /\ turn' = [turn EXCEPT ![e] = "flush"]
    /\ UNCHANGED << closed, notify, recvVars, asm, outVars, inVars, net >>

\* The same before the keep-alive time has passed.
NothingToSend(e) ==
    /\ pc[e] = "keepalive"
    /\ pc' = [pc EXCEPT ![e] = "idle"]
    /\ turn' = [turn EXCEPT ![e] = "flush"]
    /\ UNCHANGED << closed, notify, recvVars, sendVars, recVars, outVars, inVars, net >>

-----------------------------------------------------------------------------
(* AssembleOutgoingPackets: channels in index order, each queue emptied.   *)

NewPacket(id) == [id |-> id, size |-> PacketHeaderSize, bunches |-> << >>]

LastOf(q)  == q[Len(q)]
FrontOf(q) == SubSeq(q, 1, Len(q) - 1)

IsNextChannel(e, c) ==
    /\ OutBunchQueue[e][c] # << >>
    /\ \A d \in Channels : d < c => OutBunchQueue[e][d] = << >>

TotalSize(b) == BunchHeaderSize + b.size

\* A bunch no packet takes: IsHeaderOnlyBunch, or larger than a packet.
IsDiscarded(b) == b.size = 0 \/ TotalSize(b) > PacketMaxSize

DiscardBunch(e, c) ==
    /\ pc[e] = "assemble"
    /\ IsNextChannel(e, c)
    /\ IsDiscarded(Head(OutBunchQueue[e][c]))
    /\ OutBunchQueue' = [OutBunchQueue EXCEPT ![e][c] = Tail(@)]
    /\ UNCHANGED << ctlVars, notify, recvVars, sendVars, recVars, Submitted,
                    OutUnAcked, OutReliable, sealed, inVars, net >>

\* The packet a bunch of that size goes to.  The first bunch opens a packet;
\* a bunch that does not fit closes the open one and opens the next.
Opened(e)     == IF asm[e] = << >> THEN << NewPacket(OutPacketId[e]) >> ELSE asm[e]
Fits(p, b)    == p.size + TotalSize(b) <= PacketMaxSize
IsFull(e, b)  == ~ Fits(LastOf(Opened(e)), b)
PacketId(e, b) == IF IsFull(e, b) THEN OutPacketId[e] + 1 ELSE OutPacketId[e]

\* Variant: no new packet is started when the open one is full.
Packets_KeepFull(e, b) == Opened(e)

Packets(e, b) == IF IsFull(e, b) THEN Append(Opened(e), NewPacket(PacketId(e, b)))
                                 ELSE Opened(e)

\* createNewPacket once or twice, then PushChannelRecord.
RecordBunch(e, c, b) ==
    LET opened == IF asm[e] = << >>
                  THEN PushPacketId(Record[e], LastRecordId[e], OutPacketId[e])
                  ELSE Record[e]
        last   == IF asm[e] = << >> THEN OutPacketId[e] ELSE LastRecordId[e]
        marked == PushPacketId(opened, last, PacketId(e, b))
    IN  /\ Record' = [Record EXCEPT ![e] = Append(marked, ChannelOf(c))]
        /\ LastRecordId' = [LastRecordId EXCEPT ![e] = PacketId(e, b)]

\* AddUnAckedOutBunch and Append.  The bunch is accounted for before Append is
\* asked whether it fits, and the answer is ignored.
PackBunch(e, c) ==
    LET b  == Head(OutBunchQueue[e][c])
        ps == Packets(e, b)
        p  == LastOf(ps)
    IN  /\ pc[e] = "assemble"
        /\ IsNextChannel(e, c)
        /\ ~ IsDiscarded(b)
        /\ Cardinality(DOMAIN OutUnAcked[e][c]) < ReliableBuffer
        /\ OutBunchQueue' = [OutBunchQueue EXCEPT ![e][c] = Tail(@)]
        /\ RecordBunch(e, c, b)
        /\ OutPacketId' = [OutPacketId EXCEPT ![e] = PacketId(e, b)]
        /\ OutUnAcked' = [OutUnAcked EXCEPT ![e][c] = AddUnAcked(@, p.id, b)]
        /\ asm' = [asm EXCEPT ![e] =
             IF Fits(p, b)
             THEN Append(FrontOf(ps), [p EXCEPT !.size = @ + TotalSize(b),
                                                !.bunches = Append(@, b)])
             ELSE ps]
        /\ UNCHANGED << ctlVars, notify, recvVars, OutPacketQueue, Submitted,
                        OutReliable, sealed, inVars, net >>

\* AddUnAckedOutBunch refuses: the connection is closed and the function returns,
\* the packets it had made so far are gone.
OverflowReliableBuffer(e, c) ==
    LET b == Head(OutBunchQueue[e][c])
    IN  /\ pc[e] = "assemble"
        /\ IsNextChannel(e, c)
        /\ ~ IsDiscarded(b)
        /\ Cardinality(DOMAIN OutUnAcked[e][c]) >= ReliableBuffer
        /\ OutBunchQueue' = [OutBunchQueue EXCEPT ![e][c] = Tail(@)]
        /\ RecordBunch(e, c, b)
        /\ OutPacketId' = [OutPacketId EXCEPT ![e] = PacketId(e, b)]
        /\ asm' = [asm EXCEPT ![e] = << >>]
        /\ Close(e)
        /\ pc' = [pc EXCEPT ![e] = "idle"]
        /\ turn' = [turn EXCEPT ![e] = "flush"]
        /\ UNCHANGED << notify, recvVars, OutPacketQueue, Submitted, OutUnAcked,
                        OutReliable, sealed, inVars, net >>

\* Nothing is left to pack: the open packet is finished unless it is empty.
FinishAssembly(e) ==
    LET unfinished == asm[e] = << >> \/ LastOf(asm[e]).bunches = << >>
    IN  /\ pc[e] = "assemble"
        /\ \A c \in Channels : OutBunchQueue[e][c] = << >>
        /\ OutPacketQueue' = [OutPacketQueue EXCEPT ![e] =
             @ \o IF asm[e] # << >> /\ unfinished THEN FrontOf(asm[e]) ELSE asm[e]]
        /\ OutPacketId' = [OutPacketId EXCEPT ![e] = IF unfinished THEN @ ELSE @ + 1]
        /\ asm' = [asm EXCEPT ![e] = << >>]
        /\ pc' = [pc EXCEPT ![e] = "idle"]
        /\ turn' = [turn EXCEPT ![e] = "flush"]
        /\ UNCHANGED << closed, notify, recvVars, recVars, outVars, inVars, net >>

-----------------------------------------------------------------------------
(* The flush job of a tick.                                                *)

TickFlush(e) ==
    /\ Idle
    /\ turn[e] = "flush"
    /\ pc' = [pc EXCEPT ![e] = IF OutPacketQueue[e] = << >> THEN "idle" ELSE "flush"]
    /\ turn' = [turn EXCEPT ![e] = "dispatch"]
    /\ UNCHANGED << closed, notify, recvVars, sendVars, recVars, outVars, inVars, net >>

\* TryDequeuePacket, UpdatePacketHeader, SendToRemote.
SendPacket(e) ==
    LET p == Head(OutPacketQueue[e])
    IN  /\ pc[e] = "flush"
        /\ net' = [net EXCEPT ![Peer(e)] =
             @ \union {[header |-> WriteHeader(notify[e]), bunches |-> p.bunches]}]
        /\ notify' = [notify EXCEPT ![e] = CommitAndIncrementOutSeq(@)]
        /\ OutPacketQueue' = [OutPacketQueue EXCEPT ![e] = Tail(@)]
        /\ pc' = [pc EXCEPT ![e] = IF Len(OutPacketQueue[e]) > 1 THEN "flush" ELSE "idle"]
        /\ UNCHANGED << turn, closed, recvVars, OutPacketId, asm, recVars, outVars,
                        inVars >>

-----------------------------------------------------------------------------
ReceivedPacket(e) == \E p \in net[e] : ReceiveOld(e, p) \/ ReceiveNew(e, p)

DispatchPendingPacket(e) == BufferBunch(e) \/ DispatchBunch(e) \/ AckPacket(e)

AssembleOutgoingPackets(e) ==
    \/ \E c \in Channels :
         DiscardBunch(e, c) \/ PackBunch(e, c) \/ OverflowReliableBuffer(e, c)
    \/ FinishAssembly(e)
    \/ SendKeepAlive(e)
    \/ NothingToSend(e)

ForceRetransmitAllUnAcked(e) ==
    \/ \E c \in Channels : \E id \in DOMAIN OutUnAcked[e][c] : ForceRetransmit(e, c, id)
    \/ RetransmitDone(e)

Submit(e) == \E c \in Channels, size \in Sizes : SendNetMessage(e, c, size)

Next ==
    \E e \in Ep :
        \/ Submit(e)
        \/ ReceivedPacket(e)
        \/ HandlePacketNotification(e)
        \/ ForceRetransmitAllUnAcked(e)
        \/ TickDispatch(e)
        \/ DispatchPendingPacket(e)
        \/ TickChannels(e)
        \/ AssembleOutgoingPackets(e)
        \/ TickFlush(e)
        \/ SendPacket(e)

Spec == Init /\ [][Next]_vars

-----------------------------------------------------------------------------
(* Properties.                                                             *)

Bunch == [ch: Channels, seq: Int, size: Nat]
Datagram == [header: Header, bunches: Seq(Bunch)]
Packet == [id: Int, size: Nat, bunches: Seq(Bunch)]

PerChannel(S) == [Ep -> [Channels -> S]]

\* Types of the variables.
TypeOK ==
    /\ pc \in [Ep -> {"idle", "acks", "retransmit", "dispatch", "assemble",
                      "keepalive", "flush"}]
    /\ turn \in [Ep -> {"dispatch", "flush"}]
    /\ closed \in [Ep -> BOOLEAN]
    /\ notify \in [Ep -> Notify]
    /\ InPacketId \in [Ep -> Int] /\ OutPacketId \in [Ep -> Int]
    /\ LastNotified \in [Ep -> Int] /\ LastRecordId \in [Ep -> Int]
    /\ notes \in [Ep -> Seq(BOOLEAN)]
    /\ Pending \in [Ep -> Seq(Datagram)]
    /\ OutPacketQueue \in [Ep -> Seq(Packet)]
    /\ asm \in [Ep -> Seq(Packet)]
    /\ Record \in [Ep -> Seq(RecordEntry)]
    /\ Submitted \in PerChannel(Seq(Nat))
    /\ OutBunchQueue \in PerChannel(Seq(Bunch))
    /\ \A e \in Ep : \A c \in Channels :
         OutUnAcked[e][c] \in [DOMAIN OutUnAcked[e][c] -> Seq(Bunch)]
    /\ OutReliable \in PerChannel(Int)
    /\ InReliable \in PerChannel(Int)
    /\ \A e \in Ep : \A c \in Channels :
         InUnread[e][c] \in [DOMAIN InUnread[e][c] -> Bunch]
    /\ sealed \in PerChannel(Seq(Bunch))
    /\ delivered \in PerChannel(Seq(Bunch))
    /\ dispatched \in [Ep -> SUBSET SeqNums]
    /\ net \in [Ep -> SUBSET Datagram]

\* What a channel hands to the application is what the other side sealed, in
\* that order, each bunch once: retransmission, duplicates, reordering and the
\* window arithmetic of MakeRelative never show.
InOrderDelivery ==
    \A e \in Ep, c \in Channels :
        /\ Len(delivered[Peer(e)][c]) <= Len(sealed[e][c])
        /\ \A k \in 1 .. Len(delivered[Peer(e)][c]) :
             delivered[Peer(e)][c][k] = sealed[e][c][k]

\* The same promise as an abstract specification that NetConnection implements:
\* sealing is sending, dispatching is receiving.
Promise == INSTANCE ReliableChannel
             WITH Sides <- Ep, Other <- [e \in Ep |-> Peer(e)],
                  sent <- sealed, received <- delivered
ImplementsReliableChannel == Promise!Spec

Elements(q) == {q[i] : i \in DOMAIN q}

IsQueued(e, b) == b \in Elements(OutBunchQueue[e][b.ch])

\* In a packet whose fate PacketNotify has still to learn.
IsInFlight(e, b) ==
    \E id \in DOMAIN OutUnAcked[e][b.ch] :
        id > LastNotified[e] /\ b \in Elements(OutUnAcked[e][b.ch][id])

HasArrived(e, b) ==
    \/ b \in Elements(delivered[e][b.ch])
    \/ b \in Elements(InUnread[e][b.ch])

\* No bunch falls between the two sides: as long as the connection is open, a
\* bunch that packets take is waiting to be sent, is in a packet that will still
\* be reported on, or has reached the other side.  An ack for a packet that was
\* never dispatched, a nack that loses its bunches or a record that names the
\* wrong packet would break it.  Both sides have to be open: after Close a side
\* goes on acknowledging the packets it no longer dispatches.
NoBunchLost ==
    \A e \in Ep, c \in Channels :
        ~ closed[e] /\ ~ closed[Peer(e)] =>
            \A b \in Elements(sealed[e][c]) :
                IsDiscarded(b) \/ IsQueued(e, b) \/ IsInFlight(e, b)
                               \/ HasArrived(Peer(e), b)

\* A bunch is never under way twice from the sender's point of view: it waits in
\* the queue once or is in one packet in flight.  A nack after a forced
\* retransmission, or the other way round, must not queue it again.
NoDoubleRetransmit ==
    \A e \in Ep, c \in Channels :
        LET q == OutBunchQueue[e][c]
            u == OutUnAcked[e][c]
        IN  /\ \A i, j \in DOMAIN q : q[i] = q[j] => i = j
            /\ \A i \in DOMAIN q, p \in DOMAIN u : q[i] \notin Elements(u[p])
            /\ \A p, r \in DOMAIN u : \A i \in DOMAIN u[p], j \in DOMAIN u[r] :
                 u[p][i] = u[r][j] => p = r /\ i = j

\* Three counters for the same packets never drift apart, whatever the flush
\* mode, keep-alives and the 14-bit wrap do: packet ids, sequence numbers and
\* the markers of the channel record.  HandlePacketNotification's mismatch
\* branch and the desync Close of RecivedAck / RecivedNack are unreachable then.
IdsAligned ==
    \A e \in Ep : ~ closed[e] =>
        LET n     == notify[e]
            ready == Len(OutPacketQueue[e]) + (IF asm[e] = << >> THEN 0 ELSE Len(asm[e]) - 1)
            last  == IF asm[e] = << >> THEN OutPacketId[e] - 1 ELSE OutPacketId[e]
            rec   == Record[e]
            marks == {i \in DOMAIN rec : rec[i].isSequence}
        IN  /\ ToSeq(InPacketId[e]) = n.InSeq
            /\ ToSeq(LastNotified[e] + Len(notes[e])) = n.OutAckSeq
            /\ ToSeq(OutPacketId[e] - ready) = n.OutSeq
            /\ Len(n.AckRecord) = Diff(n.OutSeq, n.OutAckSeq) - 1
            /\ LastNotified[e] <= last
            /\ {rec[i].value : i \in marks} = LastNotified[e] + 1 .. last
            /\ \A i, j \in marks : i < j => rec[i].value < rec[j].value

\* A header never tells the other side that a packet was delivered which was not
\* dispatched here: acks are not handed out for packets lost, dropped by a flush
\* or only queued.
AckedWasDispatched ==
    \A e \in Ep : pc[e] # "dispatch" /\ ~ closed[e] =>
        \A i \in HistoryIndex :
            notify[e].History[i] => ToSeq(notify[e].InAckSeq - i) \in dispatched[e]

\* What a packet was charged with it carries, while the connection is open:
\* AssembleOutgoingPackets enters a bunch in OutUnAckedBunches and in the packet
\* in the same breath.
AccountedIsPacked ==
    \A e \in Ep : ~ closed[e] =>
        \A p \in Elements(OutPacketQueue[e]) \union Elements(asm[e]) :
            \A c \in Channels :
                p.id \in DOMAIN OutUnAcked[e][c] =>
                    Elements(OutUnAcked[e][c][p.id]) \subseteq Elements(p.bunches)

-----------------------------------------------------------------------------
(* Claims of the documentation that the code does not keep.                *)

\* "Storage[0]: whether the most recent 32 packets arrived" (sequence.md): the
\* packet a dispatch job is done with, if nothing was reported about it before,
\* stands in the history as delivered.  AckSeq is given the newest packet id.
DispatchedIsReported ==
    [][\A e \in Ep :
         /\ AckPacket(e)
         /\ ~ closed[e]
         /\ Greater(Head(Pending[e]).header.seq, notify[e].InAckSeq)
         => LET i == Diff(notify'[e].InAckSeq, Head(Pending[e]).header.seq)
            IN  i \in HistoryIndex => notify'[e].History[i]]_vars

\* "kept until its turn comes" (engine-design.md): between two jobs no channel
\* holds the bunch that is due next.  An already dispatched bunch that is put
\* aside again blocks the loop that would dispatch it.
NextBunchIsNotBuffered ==
    \A e \in Ep, c \in Channels :
        pc[e] = "idle" => InReliable[e][c] + 1 \notin DOMAIN InUnread[e][c]

\* "more history words are put into the header of a new packet" (sequence.md):
\* every header that is sent can be read.
HeadersAreReadable == \A e \in Ep : \A p \in net[e] : ReadHeader(p.header)
=============================================================================
