------------------------------ MODULE Messages ------------------------------
(***************************************************************************)
(* Messages on their way through one reliable channel of each connection:  *)
(* from the threads that send them, by the bunch builder that packs them    *)
(* into bunches, into packets, over a network that loses them, to the       *)
(* application of the other side; and what becomes of their buffers.        *)
(*                                                                         *)
(* The bunch with number k of a connection is made[c][k].  Everything else  *)
(* refers to it by its number.                                              *)
(***************************************************************************)
EXTENDS Integers, Sequences, FiniteSets, SequencesExt

CONSTANTS
    Conns,              \* connections
    Threads,            \* application threads that send
    Recipients,         \* sets of connections a message may go to
    Sizes,              \* sizes of messages, their own header included
    PacketMaxSize,      \* ConnectionPacketBuilder::PacketMaxSize, 1024
    PacketHeaderSize,   \* 10
    BunchHeaderSize,    \* what BunchHeader::Encode writes, 10
    MaxBunchPayload,    \* 1200 - 16 - 8
    MaxMsgsPerBunch,    \* 255
    CountSpace,         \* values of the field MessageCount, 256
    BatchLimit,         \* messages taken by one Pump, 256
    MaxMessages         \* bound: messages sent

ASSUME ConstantsOK ==
    /\ Recipients \subseteq SUBSET Conns
    /\ Sizes \subseteq Nat \ {0}
    /\ {PacketMaxSize, PacketHeaderSize, BunchHeaderSize, MaxBunchPayload} \subseteq Nat
    /\ {MaxMsgsPerBunch, CountSpace, BatchLimit} \subseteq Nat \ {0}
    /\ MaxMsgsPerBunch < CountSpace
    /\ MaxMessages \in Nat

VARIABLES
    count,      \* messages sent so far; a message is named by its number
    hand,       \* per thread, the message it is sending
    todo,       \* per thread, the connections that still have to get it
    queue,      \* QueuedMessage
    active,     \* ActiveMsgs and ActivePayload
    made,       \* all bunches sealed, the last one has number OutReliable
    out,        \* QueuedOutBunch and OutBunchQueue: numbers of bunches
    unacked,    \* numbers of the bunches in OutUnAckedBunches
    transit,    \* bunches in datagrams on the network
    arrived,    \* bunches the other side dispatched or buffered
    job,        \* per connection, the loop its worker is in
    taken,      \* messages this Pump has taken
    released,   \* per message, calls of its release callback
    given       \* ghost: the messages submitted to a channel, in order

sending == << count, hand, todo >>
channel == << queue, active, made, out, unacked >>
network == << transit, arrived >>
worker == << job, taken >>
vars == << sending, channel, network, worker, released, given >>

Messages == [id : 1 .. MaxMessages, size : Sizes]
Collections == [msgs : Seq(Messages), payload : Nat]
Bunches == [msgs : Seq(Messages), payload : Nat, count : 0 .. CountSpace - 1]
NoMessage == [id |-> 0, size |-> 0]

\* What ResetActive leaves.
Nothing == [msgs |-> << >>, payload |-> 0]

TypeOK ==
    /\ count \in 0 .. MaxMessages
    /\ hand \in [Threads -> Messages \cup {NoMessage}]
    /\ todo \in [Threads -> SUBSET Conns]
    /\ queue \in [Conns -> Seq(Messages)]
    /\ active \in [Conns -> Collections]
    /\ made \in [Conns -> Seq(Bunches)]
    /\ \A c \in Conns :
           LET numbers == 1 .. Len(made[c])
           IN  /\ out[c] \in Seq(numbers)
               /\ unacked[c] \subseteq numbers
               /\ transit[c] \subseteq numbers
               /\ arrived[c] \subseteq numbers
    /\ job \in [Conns -> {"none", "pump", "assemble"}]
    /\ taken \in [Conns -> 0 .. BatchLimit]
    /\ released \in [1 .. MaxMessages -> Nat]
    /\ given \in [Conns -> Seq(Messages)]

Init ==
    /\ count = 0
    /\ hand = [t \in Threads |-> NoMessage]
    /\ todo = [t \in Threads |-> {}]
    /\ queue = [c \in Conns |-> << >>]
    /\ active = [c \in Conns |-> Nothing]
    /\ made = [c \in Conns |-> << >>]
    /\ out = [c \in Conns |-> << >>]
    /\ unacked = [c \in Conns |-> {}]
    /\ transit = [c \in Conns |-> {}]
    /\ arrived = [c \in Conns |-> {}]
    /\ job = [c \in Conns |-> "none"]
    /\ taken = [c \in Conns |-> 0]
    /\ released = [m \in 1 .. MaxMessages |-> 0]
    /\ given = [c \in Conns |-> << >>]
-----------------------------------------------------------------------------
(* An application thread. *)

\* SendPacket (one recipient) or Room::BroadCast over its snapshot of players:
\* one buffer, whoever is to get it.
Send(t, size, recipients) ==
    /\ todo[t] = {}
    /\ count < MaxMessages
    /\ count' = count + 1
    /\ hand' = [hand EXCEPT ![t] = [id |-> count', size |-> size]]
    /\ todo' = [todo EXCEPT ![t] = recipients]
    /\ UNCHANGED << channel, network, worker, released, given >>

\* SendNetMessage and Submit for one of them.
Submit(t, c) ==
    /\ c \in todo[t]
    /\ todo' = [todo EXCEPT ![t] = @ \ {c}]
    /\ hand' = [hand EXCEPT ![t] = IF todo'[t] = {} THEN NoMessage ELSE @]
    /\ queue' = [queue EXCEPT ![c] = Append(@, hand[t])]
    /\ given' = [given EXCEPT ![c] = Append(@, hand[t])]
    /\ UNCHANGED << count, active, made, out, unacked, network, worker, released >>
-----------------------------------------------------------------------------
(* The bunch builder. *)

\* TryInsert: whether m fits into the bunch under construction, and what it
\* holds then.
Fits(a, m) ==
    /\ Len(a.msgs) < MaxMsgsPerBunch
    /\ a.payload + m.size <= MaxBunchPayload

Insert(a, m) == [msgs |-> Append(a.msgs, m), payload |-> a.payload + m.size]

IsFull(a) == Len(a.msgs) >= MaxMsgsPerBunch \/ a.payload >= MaxBunchPayload

\* Variant: a bit is missing from the field for the count.
Bunch_Narrow(a) ==
    [msgs |-> a.msgs, payload |-> a.payload, count |-> Len(a.msgs) % MaxMsgsPerBunch]

\* The bunch SealAndPush makes; its field for the count is eight bits wide.
Bunch(a) ==
    [msgs |-> a.msgs, payload |-> a.payload, count |-> Len(a.msgs) % CountSpace]

\* Variant: OutReliable is incremented after its use.
Seal_PostIncrement(c, groups, rest) ==
    LET n == Len(made[c])
    IN  /\ made' = [made EXCEPT ![c] = @ \o [i \in DOMAIN groups |-> Bunch(groups[i])]]
        /\ out' = [out EXCEPT ![c] = @ \o [i \in DOMAIN groups |-> n + i - 1]]
        /\ active' = [active EXCEPT ![c] = rest]

\* SealAndPush for each of the given bunches, and what is left in ActiveMsgs.
Seal(c, groups, rest) ==
    LET n == Len(made[c])
    IN  /\ made' = [made EXCEPT ![c] = @ \o [i \in DOMAIN groups |-> Bunch(groups[i])]]
        /\ out' = [out EXCEPT ![c] = @ \o [i \in DOMAIN groups |-> n + i]]
        /\ active' = [active EXCEPT ![c] = rest]

\* Variant: the message that did not fit is not tried again.
Retried_Not(m) == Nothing

\* The second TryInsert: a message larger than a bunch may be is gone.
Retried(m) == IF Fits(Nothing, m) THEN Insert(Nothing, m) ELSE Nothing

\* The worker starts TickDispatch.
StartTick(c) ==
    /\ job[c] = "none"
    /\ queue[c] # << >> \/ out[c] # << >>
    /\ job' = [job EXCEPT ![c] = "pump"]
    /\ taken' = [taken EXCEPT ![c] = 0]
    /\ UNCHANGED << sending, channel, network, released, given >>

\* One iteration of Pump.  If the message does not fit, what was collected is
\* sealed, be it nothing.
TakeMessage(c) ==
    /\ job[c] = "pump"
    /\ taken[c] < BatchLimit
    /\ queue[c] # << >>
    /\ LET m == Head(queue[c])
           fits == Fits(active[c], m)
           a == IF fits THEN Insert(active[c], m) ELSE Retried(m)
           sealed == IF fits THEN << >> ELSE << active[c] >>
       IN  IF IsFull(a) THEN Seal(c, Append(sealed, a), Nothing)
                        ELSE Seal(c, sealed, a)
    /\ queue' = [queue EXCEPT ![c] = Tail(@)]
    /\ taken' = [taken EXCEPT ![c] = @ + 1]
    /\ UNCHANGED << sending, unacked, network, job, released, given >>

\* The end of Pump, which leaves nothing in ActiveMsgs (flushTail).
FlushTail(c) ==
    /\ job[c] = "pump"
    /\ taken[c] = BatchLimit \/ queue[c] = << >>
    /\ Seal(c, IF active[c].msgs = << >> THEN << >> ELSE << active[c] >>, Nothing)
    /\ job' = [job EXCEPT ![c] = "assemble"]
    /\ UNCHANGED << sending, queue, unacked, network, taken, released, given >>
-----------------------------------------------------------------------------
(* Packets. *)

TotalSize(b) == BunchHeaderSize + b.payload
IsHeaderOnly(b) == TotalSize(b) <= BunchHeaderSize

\* What AssembleOutgoingPackets does not even try to send.
IsDiscarded(b) == IsHeaderOnly(b) \/ TotalSize(b) > PacketMaxSize

\* Append fails for a bunch that fits into a packet only without its header.
IsPacked(b) == PacketHeaderSize + TotalSize(b) <= PacketMaxSize

Ids(msgs) == {msgs[i].id : i \in DOMAIN msgs}

\* Variant: the front is read and stays.
Dequeued_Stays(s) == s

\* DequeueReadyBunch takes the front.
Dequeued(s) == Tail(s)

\* DiscardOutReadyBunch, the only place that calls a release callback.
DiscardBunch(c) ==
    /\ job[c] = "assemble"
    /\ out[c] # << >>
    /\ LET b == made[c][Head(out[c])]
       IN  /\ IsDiscarded(b)
           /\ released' = [m \in DOMAIN released |->
                  IF m \in Ids(b.msgs) THEN released[m] + 1 ELSE released[m]]
    /\ out' = [out EXCEPT ![c] = Dequeued(@)]
    /\ UNCHANGED << sending, queue, active, made, unacked, network, worker, given >>

\* AddUnAckedOutBunch and Append, with the sending of the packet by TickFlush.
PackBunch(c) ==
    /\ job[c] = "assemble"
    /\ out[c] # << >>
    /\ LET k == Head(out[c])
       IN  /\ ~IsDiscarded(made[c][k])
           /\ unacked' = [unacked EXCEPT ![c] = @ \cup {k}]
           /\ transit' = [transit EXCEPT ![c] = IF IsPacked(made[c][k]) THEN @ \cup {k} ELSE @]
    /\ out' = [out EXCEPT ![c] = Dequeued(@)]
    /\ UNCHANGED << sending, queue, active, made, arrived, worker, released, given >>

EndTick(c) ==
    /\ job[c] = "assemble"
    /\ out[c] = << >>
    /\ job' = [job EXCEPT ![c] = "none"]
    /\ UNCHANGED << sending, channel, network, taken, released, given >>

\* A header says that the packet of bunch k arrived.  A bunch that Append left
\* out belongs to a packet all the same.
Ack(c, k) ==
    /\ job[c] = "none"
    /\ k \in unacked[c]
    /\ k \in arrived[c] \/ ~IsPacked(made[c][k])
    /\ unacked' = [unacked EXCEPT ![c] = @ \ {k}]
    /\ UNCHANGED << sending, queue, active, made, out, network, worker, released, given >>

\* Variant: the bunch is not put back.
PutBack_Lost(k, s) == s

\* push_front
PutBack(k, s) == << k >> \o s

\* A header says that it was lost, which need not be so: it may be late, or have
\* been one of several dispatched in one tick.
Nack(c, k) ==
    /\ job[c] = "none"
    /\ k \in unacked[c]
    /\ unacked' = [unacked EXCEPT ![c] = @ \ {k}]
    /\ out' = [out EXCEPT ![c] = PutBack(k, @)]
    /\ UNCHANGED << sending, queue, active, made, network, worker, released, given >>
-----------------------------------------------------------------------------
(* The network and the other side. *)

Lose(c, k) ==
    /\ k \in transit[c]
    /\ transit' = [transit EXCEPT ![c] = @ \ {k}]
    /\ UNCHANGED << sending, channel, arrived, worker, released, given >>

\* Received, and dispatched or kept in InUnreadBunchMap.
Arrive(c, k) ==
    /\ k \in transit[c]
    /\ transit' = [transit EXCEPT ![c] = @ \ {k}]
    /\ arrived' = [arrived EXCEPT ![c] = @ \cup {k}]
    /\ UNCHANGED << sending, channel, worker, released, given >>

\* InReliable: the drain loop stops at the first number that is missing.
InReliable(c) == Cardinality({k \in arrived[c] : 1 .. k \subseteq arrived[c]})

\* DispatchRawBunch_Interanl reads as many messages as the header says.
ReadMessages(b) == SubSeq(b.msgs, 1, b.count)

\* The messages the application of the other side has got.
Dispatched(c) == FlattenSeq([k \in 1 .. InReliable(c) |-> ReadMessages(made[c][k])])
-----------------------------------------------------------------------------
WorkerStep(c) ==
    \/ StartTick(c) \/ TakeMessage(c) \/ FlushTail(c)
    \/ PackBunch(c) \/ DiscardBunch(c) \/ EndTick(c)

Next ==
    \/ \E t \in Threads :
          \/ \E size \in Sizes, recipients \in Recipients : Send(t, size, recipients)
          \/ \E c \in Conns : Submit(t, c)
    \/ \E c \in Conns :
          \/ WorkerStep(c)
          \/ \E k \in 1 .. Len(made[c]) :
                \/ Ack(c, k) \/ Nack(c, k)
                \/ Lose(c, k) \/ Arrive(c, k)

Spec == Init /\ [][Next]_vars

\* Threads and workers go on; every packet is reported on in the end, because
\* keep-alives bring headers; and a bunch that is sent again and again arrives.
\* (The numbers of the bunches are bounded; with every bunch holding a message
\* there are no more.)
Fairness ==
    /\ \A t \in Threads, c \in Conns : WF_vars(Submit(t, c))
    /\ \A c \in Conns :
          /\ WF_vars(WorkerStep(c))
          /\ \A k \in 1 .. MaxMessages :
                /\ SF_vars(k \in DOMAIN made[c] /\ (Ack(c, k) \/ Nack(c, k)))
                /\ SF_vars(k \in DOMAIN made[c] /\ Arrive(c, k))

FairSpec == Spec /\ Fairness
-----------------------------------------------------------------------------
\* A message that has a place in some bunch.
Small(m) == m.size <= MaxBunchPayload
SmallOf(msgs) == FlattenSeq([i \in DOMAIN msgs |-> IF Small(msgs[i]) THEN << msgs[i] >> ELSE << >>])

\* The messages of a channel are in its bunches, in the bunch under construction
\* and in the queue, each once and in the order they were submitted in: no
\* message is split, repeated or overtaken when a bunch is sealed early, full or
\* at the end of a batch.  Only one larger than a bunch may be gone.
EachInOneBunch ==
    \A c \in Conns :
        LET held == FlattenSeq([k \in DOMAIN made[c] |-> made[c][k].msgs])
                        \o active[c].msgs \o queue[c]
        IN  SmallOf(held) = SmallOf(given[c])

\* The application gets a prefix of what was submitted, whatever is lost, late
\* or sent again, and although a header counts the messages in eight bits.
DispatchedInOrder ==
    \A c \in Conns : IsPrefix(Dispatched(c), SmallOf(given[c]))

\* Messages that the channel or the socket may still read.
Referenced(c) ==
    Ids(queue[c]) \cup Ids(active[c].msgs)
        \cup UNION {Ids(made[c][k].msgs) : k \in ToSet(out[c]) \cup unacked[c] \cup transit[c]}

\* A buffer is released at most once, and not before its last use.
ReleasedAfterUse ==
    /\ \A m \in DOMAIN released : released[m] <= 1
    /\ \A c \in Conns : \A m \in Referenced(c) : released[m] = 0

\* Every message arrives, as long as the builder makes no bunch that does not
\* fit into a packet: from then on the receiver waits for its number.
NothingSkipped ==
    \A c \in Conns : \A k \in DOMAIN made[c] :
        made[c][k].msgs # << >> /\ IsPacked(made[c][k])

IsSubmitted(c, i) == i \in DOMAIN SmallOf(given[c])
IsDispatched(c, i) == i \in DOMAIN Dispatched(c)

EveryMessageArrives ==
    []NothingSkipped =>
        \A c \in Conns, i \in 1 .. MaxMessages :
            IsSubmitted(c, i) ~> IsDispatched(c, i)

\* The same without the premise, which is what the comment at
\* NetBunchBuilder.cpp:36 takes for granted: the first message always fits.
EverySmallMessageArrives ==
    \A c \in Conns, i \in 1 .. MaxMessages :
        IsSubmitted(c, i) ~> IsDispatched(c, i)

\* Every buffer is released in the end.
EveryBufferReturns ==
    \A m \in 1 .. MaxMessages : count >= m ~> released[m] > 0
=============================================================================
