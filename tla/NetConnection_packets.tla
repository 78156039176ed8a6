------------------------ MODULE NetConnection_packets ------------------------
(***************************************************************************)
(* What the two halves of a connection say about packets, proved for all   *)
(* values of the constants: an acknowledged packet was dispatched, no      *)
(* bunch waits twice for retransmission, and the ids of packets, the       *)
(* records of their channels and the sequence numbers stay aligned.        *)
(***************************************************************************)
EXTENDS NetConnection_proofs

-----------------------------------------------------------------------------
(* An acknowledged packet was dispatched.                                  *)
(*                                                                         *)
(* AckPacket acknowledges the newest packet received, not the one that was *)
(* dispatched.  It may: that packet is among the pending ones, and the job *)
(* does not end before all of these are dispatched.                        *)

\* The sequence numbers of the packets that wait for the dispatch job.
PendingSeqs(e) == {Pending[e][i].header.seq : i \in DOMAIN Pending[e]}

\* The receiving half of side e: InPacketId counts what InSeq numbers; while the
\* connection is open, the newest number was settled, dispatched or is pending,
\* and what the history reports was dispatched or is about to be.
AckedOf(e) ==
    /\ ToSeq(InPacketId[e]) = notify[e].InSeq
    /\ ~ closed[e] =>
         /\ \/ notify[e].InSeq = notify[e].InAckSeq
            \/ notify[e].InSeq \in dispatched[e] \union PendingSeqs(e)
         /\ Reported(notify[e])
              \subseteq dispatched[e] \union (IF pc[e] = "dispatch" THEN PendingSeqs(e)
                                                                   ELSE {})

\* The receiving halves of both sides, with the types.
AckInv == TypeInv /\ \A e \in Ep : AckedOf(e)

\* The window assumption: less than half the sequence space lies between the
\* newest packet received and the newest one acked or nacked.
AckWindow == \A e \in Ep : GreaterEq(notify[e].InSeq, notify[e].InAckSeq)

\* What a step may do that leaves the receiving half of a side alone.
AckQuiet(e) ==
    /\ InPacketId'[e] = InPacketId[e] /\ Pending'[e] = Pending[e]
    /\ dispatched'[e] = dispatched[e] /\ closed'[e] \in {closed[e], TRUE}
    /\ notify'[e].InSeq = notify[e].InSeq /\ notify'[e].InAckSeq = notify[e].InAckSeq
    /\ notify'[e].History = notify[e].History
    /\ pc[e] = "dispatch" => pc'[e] = "dispatch" \/ Pending[e] = << >>

\* Such a step keeps what is said of the receiving half.
LEMMA AckQuietStep ==
  ASSUME NEW e \in Ep, AckedOf(e), AckQuiet(e) PROVE AckedOf(e)'
  <1>1. PendingSeqs(e)' = PendingSeqs(e)
    BY DEF AckQuiet, PendingSeqs
  <1>2. Reported(notify[e])' = Reported(notify[e])
    BY DEF AckQuiet, Reported
  <1>3. Pending[e] = << >> => PendingSeqs(e) = {}
    BY DEF PendingSeqs
  <1> QED BY <1>1, <1>2, <1>3 DEF AckedOf, AckQuiet

\* DropBunch keeps the headers of the pending packets.
LEMMA DropBunchSeqs ==
  ASSUME TypeInv, NEW e \in Ep, HasBunch(e),
         Pending' = [Pending EXCEPT ![e] = DropBunch(@)]
  PROVE  PendingSeqs(e)' = PendingSeqs(e)
  <1> DEFINE q == Pending[e]
             r == DropBunch(q)
             h == [Head(q) EXCEPT !.bunches = Tail(@)]
  <1>1. q \in Seq(Datagram) /\ q # << >> /\ Pending'[e] = r
    BY DEF TypeInv, Typed, DatagramTyped, HasBunch
  <1>2. h \in Datagram /\ h.header = Head(q).header
    <2>1. Head(q) \in Datagram
      BY <1>1, HeadTail
    <2>2. Tail(Head(q).bunches) \in Seq(Bunch)
      BY <2>1, DatagramFields, HeadTail DEF HasBunch
    <2> QED BY <2>1, <2>2 DEF Datagram
  <1>3. Tail(q) \in Seq(Datagram) /\ Head(q) = q[1] /\ Len(q) \in Nat \ {0}
        /\ Len(Tail(q)) = Len(q) - 1 /\ \A i \in 1 .. Len(q) - 1 : Tail(q)[i] = q[i + 1]
    BY <1>1
  <1> HIDE DEF q, h
  <1>4. << h >> \in Seq(Datagram) /\ Len(<< h >>) = 1 /\ << h >>[1] = h
    BY <1>2
  <1>5. r = << h >> \o Tail(q)
    BY DEF DropBunch, h
  <1>6. Len(r) = Len(q) /\ r[1] = h /\ \A i \in 1 .. Len(q) - 1 : r[1 + i] = q[i + 1]
    BY <1>3, <1>4, <1>5, ConcatElements
  <1>7. DOMAIN r = 1 .. Len(q) /\ DOMAIN q = 1 .. Len(q)
    <2>1. r \in Seq(Datagram)
      BY <1>3, <1>4, <1>5, ConcatType
    <2> HIDE DEF r
    <2> QED BY <1>1, <1>6, <2>1 DEF q
  <1> HIDE DEF r
  <1>8. \A i \in 1 .. Len(q) : r[i].header = q[i].header
    <2> TAKE i \in 1 .. Len(q)
    <2>1. CASE i = 1
      BY <1>2, <1>3, <1>6, <2>1
    <2>2. CASE i # 1
      <3>1. i - 1 \in 1 .. Len(q) - 1 /\ 1 + (i - 1) = i /\ (i - 1) + 1 = i
        BY <1>3, <2>2
      <3>2. r[1 + (i - 1)] = q[(i - 1) + 1]
        BY <1>6, <3>1
      <3> QED BY <3>1, <3>2
    <2> QED BY <2>1, <2>2
  <1> QED BY <1>1, <1>7, <1>8 DEF PendingSeqs, q

\* Update in ReceivedPacket: the packet is pending afterwards, or a flush settled it.
LEMMA ReceiveNewAcked ==
  ASSUME TypeInv, NEW e \in Ep, NEW p \in net[e], AckedOf(e), ReceiveNew(e, p), AckWindow'
  PROVE  AckedOf(e)'
  <1> DEFINE n == notify[e]
             h == p.header
             u == Update(n, h)
             m == u.notify
  <1>1. n \in Notify /\ h \in Header /\ p \in Datagram /\ Pending[e] \in Seq(Datagram)
        /\ InPacketId[e] \in Int /\ n.InSeq \in SeqNums /\ h.seq \in SeqNums
    <2>1. p \in Datagram
      BY DEF TypeInv, Typed, DatagramTyped
    <2> QED BY <2>1, DatagramFields, NotifyFields
         DEF TypeInv, Typed, DatagramTyped, NotifyTyped, Header
  <1>2. m \in Notify /\ m.InSeq \in SeqNums
    BY <1>1, UpdateType, NotifyFields
  <1>3. /\ Reported(m) \subseteq Reported(n)
        /\ \/ /\ ~ IsWaitingForSequenceHistoryFlush(m)
              /\ m.InSeq = h.seq /\ m.InAckSeq = n.InAckSeq
           \/ /\ IsWaitingForSequenceHistoryFlush(m)
              /\ \/ m.InAckSeq = m.InSeq
                 \/ m.InAckSeq = n.InAckSeq /\ ~ Greater(m.InSeq, m.InAckSeq)
              /\ u.delta = Diff(m.InSeq, n.InSeq)
           \/ /\ IsWaitingForSequenceHistoryFlush(m)
              /\ m.InSeq = n.InSeq /\ m.InAckSeq = n.InAckSeq /\ u.delta = 0
    BY <1>1, UpdateIn
  <1>4. SequenceDelta(n, h) = Diff(h.seq, n.InSeq)
    BY DEF ReceiveNew, SequenceDelta
  <1>5. /\ notify'[e] = m
        /\ InPacketId'[e] = InPacketId[e] + IF IsWaitingForSequenceHistoryFlush(m)
                                            THEN u.delta ELSE SequenceDelta(n, h)
        /\ Pending'[e] = IF IsWaitingForSequenceHistoryFlush(m)
                         THEN Pending[e] ELSE Append(Pending[e], p)
        /\ pc'[e] # "dispatch" /\ pc[e] = "idle"
        /\ closed' = closed /\ dispatched' = dispatched
    <2>1. pc'[e] # "dispatch" /\ pc[e] = "idle"
      BY DEF ReceiveNew, Idle, TypeInv, Typed, CtlTyped
    <2> QED BY <2>1 DEF ReceiveNew, TypeInv, Typed, CtlTyped, NotifyTyped, DatagramTyped,
         inVars
  <1>6. GreaterEq(m.InSeq, m.InAckSeq)
    BY <1>5 DEF AckWindow
  <1>7. ToSeq(InPacketId[e]) = n.InSeq
    BY DEF AckedOf
  <1> HIDE DEF n, h, u, m
  <1>8. \A a \in SeqNums : ToSeq(InPacketId[e] + Diff(a, n.InSeq)) = a
    BY <1>1, <1>7, DiffAdds
  <1>9. ~ closed[e] => Reported(n) \subseteq dispatched[e]
    BY <1>5 DEF AckedOf, n
  <1>10. CASE ~ IsWaitingForSequenceHistoryFlush(m)
    <2>1. ToSeq(InPacketId'[e]) = m.InSeq /\ m.InSeq = h.seq
      BY <1>1, <1>3, <1>4, <1>5, <1>8, <1>10
    <2>2. h.seq \in PendingSeqs(e)'
      <3>1. Pending'[e] = Append(Pending[e], p)
        BY <1>5, <1>10
      <3>2. Len(Pending[e]) + 1 \in DOMAIN Append(Pending[e], p)
            /\ Append(Pending[e], p)[Len(Pending[e]) + 1] = p
        BY <1>1
      <3> QED BY <3>1, <3>2 DEF PendingSeqs, h
    <2> QED BY <1>3, <1>5, <1>9, <2>1, <2>2 DEF AckedOf
  <1>11. CASE IsWaitingForSequenceHistoryFlush(m) /\ u.delta = Diff(m.InSeq, n.InSeq)
              /\ \/ m.InAckSeq = m.InSeq
                 \/ m.InAckSeq = n.InAckSeq /\ ~ Greater(m.InSeq, m.InAckSeq)
    <2>1. ToSeq(InPacketId'[e]) = m.InSeq
      BY <1>2, <1>5, <1>8, <1>11
    <2>2. m.InAckSeq = m.InSeq
      BY <1>6, <1>11 DEF Greater, GreaterEq
    <2> QED BY <1>3, <1>5, <1>9, <2>1, <2>2 DEF AckedOf
  <1>12. CASE IsWaitingForSequenceHistoryFlush(m) /\ u.delta = 0
              /\ m.InSeq = n.InSeq /\ m.InAckSeq = n.InAckSeq
    <2>1. ToSeq(InPacketId'[e]) = m.InSeq
      BY <1>1, <1>5, <1>7, <1>12
    <2>2. PendingSeqs(e)' = PendingSeqs(e)
      BY <1>5, <1>12 DEF PendingSeqs
    <2>3. ~ closed[e] => \/ n.InSeq = n.InAckSeq
                         \/ n.InSeq \in dispatched[e] \union PendingSeqs(e)
      BY DEF AckedOf, n
    <2> QED BY <1>3, <1>5, <1>9, <1>12, <2>1, <2>2, <2>3 DEF AckedOf
  <1> QED BY <1>3, <1>10, <1>11, <1>12

\* AckPacket: the number it acknowledges is the newest one received.
LEMMA AckPacketAcked ==
  ASSUME TypeInv, NEW e \in Ep, AckedOf(e), AckPacket(e), AckWindow
  PROVE  AckedOf(e)'
  <1> DEFINE n == notify[e]
             m == AckSeq(n, n.InSeq, TRUE)
             q == Pending[e]
             s == Head(q).header.seq
  <1>1. /\ n \in Notify /\ n.InSeq \in SeqNums /\ InPacketId[e] \in Int
        /\ q \in Seq(Datagram) /\ q # << >>
    BY NotifyFields DEF TypeInv, Typed, NotifyTyped, DatagramTyped, AckPacket
  <1>2. ToSeq(InPacketId[e]) = n.InSeq
    BY DEF AckedOf
  <1>3. /\ notify'[e] = m /\ Pending'[e] = Tail(q) /\ InPacketId'[e] = InPacketId[e]
        /\ dispatched'[e] = IF closed[e] THEN dispatched[e] ELSE dispatched[e] \union {s}
        /\ closed'[e] = closed[e] /\ pc[e] = "dispatch" /\ pc'[e] = "dispatch"
    BY <1>2 DEF AckPacket, TypeInv, Typed, NotifyTyped, DatagramTyped, InTyped, ctlVars
  <1>4. PendingSeqs(e) \subseteq PendingSeqs(e)' \union {s}
    <2>1. Head(q) = q[1] /\ DOMAIN q = 1 .. Len(q) /\ Len(q) \in Nat \ {0}
          /\ DOMAIN Tail(q) = 1 .. Len(q) - 1
          /\ \A i \in 1 .. Len(q) - 1 : Tail(q)[i] = q[i + 1]
      BY <1>1
    <2>2. ASSUME NEW i \in 1 .. Len(q), i # 1
          PROVE  q[i] = Tail(q)[i - 1] /\ i - 1 \in DOMAIN Tail(q)
      <3>1. i - 1 \in 1 .. Len(q) - 1 /\ (i - 1) + 1 = i
        BY <2>1, <2>2
      <3> QED BY <2>1, <3>1
    <2>3. ASSUME NEW i \in 1 .. Len(q)
          PROVE  q[i].header.seq \in PendingSeqs(e)' \union {s}
      <3>1. CASE i = 1
        BY <2>1, <3>1
      <3>2. CASE i # 1
        BY <1>3, <2>2, <3>2 DEF PendingSeqs
      <3> QED BY <3>1, <3>2
    <2> QED BY <2>1, <2>3 DEF PendingSeqs
  <1>5. /\ m.InSeq = n.InSeq
        /\ m.InAckSeq = n.InSeq
    <2>1. GreaterEq(n.InSeq, n.InAckSeq)
      BY DEF AckWindow
    <2> QED BY <1>1, <2>1 DEF AckSeq, Notify, Greater, GreaterEq
  <1>6. Reported(m) \subseteq Reported(n) \union (IF Greater(n.InSeq, n.InAckSeq)
                                                THEN {n.InSeq} ELSE {})
    BY <1>1, AckSeqReports
  <1> HIDE DEF m
  <1>7. CASE closed[e]
    BY <1>2, <1>3, <1>5, <1>7 DEF AckedOf
  <1>8. CASE ~ closed[e]
    <2>1. Reported(n) \subseteq dispatched[e] \union PendingSeqs(e)
      BY <1>3, <1>8 DEF AckedOf
    <2>2. Greater(n.InSeq, n.InAckSeq) => n.InSeq \in dispatched[e] \union PendingSeqs(e)
      BY <1>8 DEF AckedOf, Greater
    <2>3. Reported(m) \subseteq dispatched'[e] \union PendingSeqs(e)'
      BY <1>3, <1>4, <1>6, <1>8, <2>1, <2>2
    <2> QED BY <1>2, <1>3, <1>5, <2>3 DEF AckedOf
  <1> QED BY <1>7, <1>8

\* Every other step leaves the receiving half alone, and the dispatch job goes on
\* to the channels only when no packet is pending.
LEMMA OthersAckQuiet ==
  ASSUME TypeInv, NEW e \in Ep, [Next]_vars,
         \A p \in net[e] : ~ ReceiveNew(e, p) /\ ~ ReceiveOld(e, p),
         ~ BufferBunch(e), ~ DispatchBunch(e), ~ AckPacket(e)
  PROVE  AckQuiet(e)
  <1> USE DEF TypeInv, Typed, CtlTyped, NotifyTyped, DatagramTyped, InTyped
  <1>1. CASE UNCHANGED vars
    BY <1>1 DEF AckQuiet, vars, ctlVars, recvVars, inVars
  <1>2. ASSUME NEW d \in Ep, Submit(d) PROVE AckQuiet(e)
    BY <1>2 DEF AckQuiet, Submit, SendNetMessage, ctlVars, recvVars, inVars
  <1>3. ASSUME NEW d \in Ep, ReceivedPacket(d) PROVE AckQuiet(e)
    <2>1. PICK p \in net[d] : ReceiveOld(d, p) \/ ReceiveNew(d, p)
      BY <1>3 DEF ReceivedPacket
    <2>2. d # e
      BY <2>1
    <2>3. CASE ReceiveOld(d, p)
      BY <2>2, <2>3 DEF AckQuiet, ReceiveOld, ctlVars, inVars
    <2>4. CASE ReceiveNew(d, p)
      <3>1. /\ closed' = closed /\ dispatched' = dispatched
            /\ pc'[e] = pc[e] /\ notify'[e] = notify[e] /\ Pending'[e] = Pending[e]
            /\ InPacketId'[e] = InPacketId[e]
        BY <2>2, <2>4 DEF ReceiveNew, inVars
      <3> QED BY <3>1 DEF AckQuiet
    <2> QED BY <2>1, <2>3, <2>4
  <1>4. ASSUME NEW d \in Ep, HandlePacketNotification(d) PROVE AckQuiet(e)
    BY <1>4 DEF AckQuiet, HandlePacketNotification, Close, inVars
  <1>5. ASSUME NEW d \in Ep, ForceRetransmitAllUnAcked(d) PROVE AckQuiet(e)
    BY <1>5 DEF AckQuiet, ForceRetransmitAllUnAcked, ForceRetransmit, RetransmitDone,
       ctlVars, recvVars, inVars
  <1>6. ASSUME NEW d \in Ep, TickDispatch(d) PROVE AckQuiet(e)
    BY <1>6 DEF AckQuiet, TickDispatch, recvVars, inVars
  <1>7. ASSUME NEW d \in Ep, DispatchPendingPacket(d) PROVE AckQuiet(e)
    BY <1>7 DEF AckQuiet, DispatchPendingPacket, BufferBunch, DispatchBunch, AckPacket,
       ctlVars
  <1>8. ASSUME NEW d \in Ep, TickChannels(d) PROVE AckQuiet(e)
    BY <1>8 DEF AckQuiet, TickChannels, recvVars, inVars
  <1>9. ASSUME NEW d \in Ep, AssembleOutgoingPackets(d) PROVE AckQuiet(e)
    BY <1>9 DEF AckQuiet, AssembleOutgoingPackets, DiscardBunch, PackBunch,
       OverflowReliableBuffer, FinishAssembly, SendKeepAlive, NothingToSend, Close,
       ctlVars, recvVars, inVars
  <1>10. ASSUME NEW d \in Ep, TickFlush(d) PROVE AckQuiet(e)
    BY <1>10 DEF AckQuiet, TickFlush, Idle, recvVars, inVars
  <1>11. ASSUME NEW d \in Ep, SendPacket(d) PROVE AckQuiet(e)
    <2>1. \A n \in Notify :
            LET m == CommitAndIncrementOutSeq(n)
            IN  m.InSeq = n.InSeq /\ m.InAckSeq = n.InAckSeq /\ m.History = n.History
      BY DEF CommitAndIncrementOutSeq, Notify
    <2>2. /\ notify' = [notify EXCEPT ![d] = CommitAndIncrementOutSeq(notify[d])]
          /\ pc[d] = "flush" /\ \A x \in Ep : x # d => pc'[x] = pc[x]
          /\ UNCHANGED << closed, InPacketId, Pending, dispatched >>
      BY <1>11 DEF SendPacket, recvVars, inVars
    <2>3. notify'[e] = notify[e] \/ notify'[e] = CommitAndIncrementOutSeq(notify[e])
      BY <2>2
    <2>4. /\ notify'[e].InSeq = notify[e].InSeq /\ notify'[e].InAckSeq = notify[e].InAckSeq
          /\ notify'[e].History = notify[e].History
      <3> HIDE <2>2
      <3> QED BY <2>1, <2>3
    <2>5. pc[e] = "dispatch" => pc'[e] = "dispatch"
      BY <2>2
    <2> QED BY <2>2, <2>4, <2>5 DEF AckQuiet
  <1> QED BY <1>1, <1>2, <1>3, <1>4, <1>5, <1>6, <1>7, <1>8, <1>9, <1>10, <1>11 DEF Next

\* Every step keeps it, as long as the window assumption holds.
LEMMA AckInvStep ==
  ASSUME AckInv, AckWindow, AckWindow', [Next]_vars PROVE AckInv'
  <1>1. TypeInv'
    BY TypeInvStep DEF AckInv
  <1>2. ASSUME NEW e \in Ep PROVE AckedOf(e)'
    <2> USE DEF AckInv
    <2>1. ASSUME NEW p \in net[e], ReceiveNew(e, p) PROVE AckedOf(e)'
      BY <2>1, ReceiveNewAcked
    <2>2. ASSUME NEW p \in net[e], ReceiveOld(e, p) PROVE AckedOf(e)'
      <3>1. /\ Pending'[e] = Append(Pending[e], p) /\ Pending[e] \in Seq(Datagram)
            /\ pc[e] = "idle" /\ UNCHANGED << pc, closed, notify, InPacketId, dispatched >>
        BY <2>2 DEF ReceiveOld, Idle, TypeInv, Typed, DatagramTyped, ctlVars, inVars
      <3>2. PendingSeqs(e) \subseteq PendingSeqs(e)'
        <4>1. DOMAIN Pending[e] \subseteq DOMAIN Pending'[e]
              /\ \A i \in DOMAIN Pending[e] : Pending'[e][i] = Pending[e][i]
          BY <3>1
        <4> QED BY <4>1 DEF PendingSeqs
      <3> QED BY <3>1, <3>2 DEF AckedOf
    <2>3. ASSUME BufferBunch(e) \/ DispatchBunch(e) PROVE AckedOf(e)'
      <3>1. /\ HasBunch(e) /\ Pending' = [Pending EXCEPT ![e] = DropBunch(@)]
            /\ UNCHANGED << pc, closed, notify, InPacketId, dispatched >>
        BY <2>3 DEF BufferBunch, DispatchBunch, ctlVars
      <3>2. PendingSeqs(e)' = PendingSeqs(e)
        BY <3>1, DropBunchSeqs
      <3> QED BY <3>1, <3>2 DEF AckedOf
    <2>4. ASSUME AckPacket(e) PROVE AckedOf(e)'
      BY <2>4, AckPacketAcked
    <2> QED BY <2>1, <2>2, <2>3, <2>4, OthersAckQuiet, AckQuietStep
  <1> QED BY <1>1, <1>2 DEF AckInv

\* A fresh side has received and pends nothing.
LEMMA InitAcked == Init => AckInv
  <1> SUFFICES ASSUME Init PROVE AckInv
    OBVIOUS
  <1>1. ASSUME NEW e \in Ep PROVE AckedOf(e)
    <2>1. /\ notify[e] = NotifyInit(InitSeq[Peer(e)] - 1, InitSeq[e])
          /\ InPacketId[e] = InitSeq[Peer(e)] - 1
      BY DEF Init
    <2>2. /\ notify[e].InSeq = ToSeq(InPacketId[e]) /\ notify[e].InAckSeq = notify[e].InSeq
          /\ \A i \in HistoryIndex : ~ notify[e].History[i]
      BY <2>1 DEF NotifyInit
    <2>3. Reported(notify[e]) = {}
      BY <2>2 DEF Reported
    <2> QED BY <2>2, <2>3 DEF AckedOf
  <1> QED BY <1>1, InitTyped DEF AckInv

\* For every size of the sequence space and of the history and for any traffic, lost,
\* duplicated and reordered datagrams and flushes included: outside a dispatch job,
\* WriteHeader acknowledges only packets DispatchPacket has worked through, as long
\* as a side ticks before half the sequence space has arrived unacknowledged.
THEOREM AckedDispatchedInWindow == Spec /\ []AckWindow => []AckedWasDispatched
  <1>1. Init => AckInv
    BY InitAcked
  <1>2. AckInv /\ AckWindow /\ AckWindow' /\ [Next]_vars => AckInv'
    BY AckInvStep
  <1>3. AckInv => AckedWasDispatched
    BY DEF AckInv, AckedOf, AckedWasDispatched, Reported
  <1> QED BY <1>1, <1>2, <1>3, PTL DEF Spec

-----------------------------------------------------------------------------
(* No bunch is under way twice.                                            *)
(*                                                                         *)
(* Bunches move between the queue of a channel and its OutUnAckedBunches:  *)
(* a packet takes the first of the queue, a nack or a forced               *)
(* retransmission puts the bunches of a packet back and erases its entry.  *)
(* New ones come only from TickFlush, with numbers not used before.        *)

\* The bunches of queue q and of OutUnAckedBunches u differ from each other.
NoDouble(q, u) ==
    /\ \A i, j \in DOMAIN q : q[i] = q[j] => i = j
    /\ \A i \in DOMAIN q, p \in DOMAIN u : q[i] \notin Elements(u[p])
    /\ \A p, r \in DOMAIN u : \A i \in DOMAIN u[p], j \in DOMAIN u[r] :
         u[p][i] = u[r][j] => p = r /\ i = j

\* DiscardBunch: the queue loses its first bunch.
LEMMA NoDoubleTail ==
  ASSUME NEW S, NEW q \in Seq(S), q # << >>, NEW u, NoDouble(q, u)
  PROVE  NoDouble(Tail(q), u)
  <1>1. /\ DOMAIN q = 1 .. Len(q) /\ DOMAIN Tail(q) = 1 .. Len(q) - 1 /\ Len(q) \in Nat
        /\ \A i \in 1 .. Len(q) - 1 : Tail(q)[i] = q[i + 1]
    OBVIOUS
  <1>2. \A i \in DOMAIN Tail(q) : i + 1 \in DOMAIN q /\ Tail(q)[i] = q[i + 1]
    BY <1>1
  <1>3. ASSUME NEW i \in DOMAIN Tail(q), NEW j \in DOMAIN Tail(q), Tail(q)[i] = Tail(q)[j]
        PROVE  i = j
    <2>1. i + 1 = j + 1
      BY <1>2, <1>3 DEF NoDouble
    <2> QED BY <1>1, <2>1
  <1> QED BY <1>2, <1>3 DEF NoDouble

\* Acked: the entry of the packet is erased.
LEMMA NoDoubleErase ==
  ASSUME NEW q, NEW u, NEW id, NoDouble(q, u)
  PROVE  NoDouble(q, Erase(u, id))
  <1>1. /\ DOMAIN Erase(u, id) = DOMAIN u \ {id}
        /\ \A p \in DOMAIN u \ {id} : Erase(u, id)[p] = u[p]
    BY DEF Erase
  <1> QED BY <1>1 DEF NoDouble

\* Nacked and ForceRetransmitAllUnAcked: the packet's bunches go in front of the
\* queue, its entry is erased.
LEMMA NoDoubleReturn ==
  ASSUME NEW S, NEW q \in Seq(S), NEW u \in MapTo(Seq(S)), NEW id, NoDouble(q, u)
  PROVE  NoDouble(BunchesOf(u, id) \o q, Erase(u, id))
  <1> DEFINE b == BunchesOf(u, id)
             v == Erase(u, id)
  <1>1. b \in Seq(S)
    BY BunchesOfType
  <1>2. /\ DOMAIN v = DOMAIN u \ {id}
        /\ \A p \in DOMAIN u \ {id} : v[p] = u[p]
    BY DEF Erase
  <1>3. CASE id \notin DOMAIN u
    <2>1. b = << >>
      BY <1>3 DEF BunchesOf
    <2>2. b \o q = q
      BY <2>1
    <2> QED BY <2>2, NoDoubleErase
  <1>4. CASE id \in DOMAIN u
    <2>1. b = u[id]
      BY <1>4 DEF BunchesOf
    <2> HIDE DEF b, v
    <2> DEFINE w == b \o q
    <2>2. /\ Len(b) \in Nat /\ Len(q) \in Nat /\ DOMAIN b = 1 .. Len(b) /\ DOMAIN q = 1 .. Len(q)
          /\ DOMAIN w = 1 .. Len(b) + Len(q)
          /\ \A i \in 1 .. Len(b) : w[i] = b[i]
          /\ \A i \in 1 .. Len(q) : w[Len(b) + i] = q[i]
      <3>1. w \in Seq(S) /\ Len(w) = Len(b) + Len(q)
        BY <1>1, ConcatType, ConcatElements
      <3>2. DOMAIN w = 1 .. Len(w)
        <4> HIDE DEF w
        <4> QED BY <3>1
      <3>3. /\ \A i \in 1 .. Len(b) : w[i] = b[i]
            /\ \A i \in 1 .. Len(q) : w[Len(b) + i] = q[i]
        BY <1>1, ConcatElements
      <3>4. Len(b) \in Nat /\ Len(q) \in Nat /\ DOMAIN b = 1 .. Len(b) /\ DOMAIN q = 1 .. Len(q)
        BY <1>1
      <3> QED BY <3>1, <3>2, <3>3, <3>4
    <2> HIDE DEF w
    <2>3. \A i \in DOMAIN w : \/ i \in DOMAIN b /\ w[i] = b[i]
                              \/ /\ i > Len(b) /\ i - Len(b) \in DOMAIN q
                                 /\ w[i] = q[i - Len(b)]
      <3> TAKE i \in DOMAIN w
      <3>1. CASE i <= Len(b)
        BY <2>2, <3>1
      <3>2. CASE i > Len(b)
        <4>1. i - Len(b) \in 1 .. Len(q) /\ Len(b) + (i - Len(b)) = i
          BY <2>2, <3>2
        <4> QED BY <2>2, <3>2, <4>1
      <3> QED BY <2>2, <3>1, <3>2
    <2>4. \A i \in DOMAIN b, j \in DOMAIN q : b[i] # q[j]
      BY <1>4, <2>1 DEF NoDouble, Elements
    <2>5. ASSUME NEW i \in DOMAIN w, NEW j \in DOMAIN w, w[i] = w[j] PROVE i = j
      <3>1. CASE i \in DOMAIN b /\ w[i] = b[i] /\ j \in DOMAIN b /\ w[j] = b[j]
        <4>1. \A x, y \in DOMAIN u[id] : u[id][x] = u[id][y] => x = y
          BY <1>4 DEF NoDouble
        <4> QED BY <2>1, <2>5, <3>1, <4>1
      <3>2. CASE /\ i > Len(b) /\ i - Len(b) \in DOMAIN q /\ w[i] = q[i - Len(b)]
                 /\ j > Len(b) /\ j - Len(b) \in DOMAIN q /\ w[j] = q[j - Len(b)]
        <4>1. i - Len(b) = j - Len(b)
          BY <2>5, <3>2 DEF NoDouble
        <4> QED BY <2>2, <4>1
      <3>3. \A k, l \in DOMAIN w : k \in DOMAIN b /\ w[k] = b[k] /\ l - Len(b) \in DOMAIN q
                                 /\ w[l] = q[l - Len(b)] => w[k] # w[l]
        BY <2>4
      <3>4. CASE i \in DOMAIN b /\ w[i] = b[i]
        BY <2>3, <2>5, <3>1, <3>3, <3>4
      <3>5. CASE i > Len(b) /\ i - Len(b) \in DOMAIN q /\ w[i] = q[i - Len(b)]
        BY <2>3, <2>5, <3>2, <3>3, <3>5
      <3> QED BY <2>3, <3>4, <3>5
    <2>6. ASSUME NEW i \in DOMAIN w, NEW p \in DOMAIN v PROVE w[i] \notin Elements(v[p])
      <3>1. p \in DOMAIN u /\ p # id /\ v[p] = u[p]
        BY <1>2
      <3>2. \A j \in DOMAIN b : b[j] \notin Elements(u[p])
        BY <1>4, <2>1, <3>1 DEF NoDouble, Elements
      <3>3. \A j \in DOMAIN q : q[j] \notin Elements(u[p])
        BY <3>1 DEF NoDouble
      <3> QED BY <2>3, <3>1, <3>2, <3>3
    <2>7. \A p, r \in DOMAIN v : \A i \in DOMAIN v[p], j \in DOMAIN v[r] :
            v[p][i] = v[r][j] => p = r /\ i = j
      BY <1>2 DEF NoDouble
    <2> QED BY <2>5, <2>6, <2>7 DEF NoDouble, w, b, v
  <1> QED BY <1>3, <1>4

\* PackBunch: the first bunch of the queue is entered for the packet.
LEMMA NoDoublePack ==
  ASSUME NEW S, NEW q \in Seq(S), q # << >>, NEW u \in MapTo(Seq(S)), NEW id \in Int,
         NoDouble(q, u)
  PROVE  NoDouble(Tail(q), AddUnAcked(u, id, Head(q)))
  <1> DEFINE b == Head(q)
             v == AddUnAcked(u, id, b)
             t == Tail(q)
  <1>1. /\ DOMAIN q = 1 .. Len(q) /\ DOMAIN t = 1 .. Len(q) - 1 /\ Len(q) \in Nat \ {0}
        /\ b = q[1] /\ \A i \in 1 .. Len(q) - 1 : t[i] = q[i + 1]
    OBVIOUS
  <1>2. \A i \in DOMAIN t : i + 1 \in DOMAIN q /\ i + 1 # 1 /\ t[i] = q[i + 1]
    BY <1>1
  <1>3. 1 \in DOMAIN q
    BY <1>1
  <1>4. NoDouble(t, u)
    BY NoDoubleTail
  <1>5. /\ DOMAIN v = DOMAIN u \union {id}
        /\ \A p \in DOMAIN u \ {id} : v[p] = u[p]
        /\ v[id] = IF id \in DOMAIN u THEN Append(u[id], b) ELSE << b >>
    BY DEF AddUnAcked
  <1> HIDE DEF v, t, b
  \* Each element of v stands where it stood in u, or it is b at the end of v[id].
  <1>6. ASSUME NEW p \in DOMAIN v, NEW i \in DOMAIN v[p]
        PROVE  \/ p \in DOMAIN u /\ i \in DOMAIN u[p] /\ v[p][i] = u[p][i]
               \/ /\ p = id /\ v[p][i] = b /\ i = Len(v[id])
    <2>1. CASE p # id
      BY <1>5, <2>1
    <2>2. CASE p = id /\ id \notin DOMAIN u
      <3>1. v[p] = << b >>
        BY <1>5, <2>2
      <3> QED BY <2>2, <3>1
    <2>3. CASE p = id /\ id \in DOMAIN u
      <3>1. v[p] = Append(u[id], b) /\ u[id] \in Seq(S)
        BY <1>5, <2>3, MapValue
      <3>2. b \in S
        BY HeadTail DEF b
      <3>3. /\ DOMAIN u[id] = 1 .. Len(u[id]) /\ Len(u[id]) \in Nat
            /\ DOMAIN v[p] = 1 .. Len(u[id]) + 1 /\ Len(v[p]) = Len(u[id]) + 1
            /\ v[p][Len(u[id]) + 1] = b
            /\ \A k \in 1 .. Len(u[id]) : v[p][k] = u[id][k]
        BY <3>1, <3>2
      <3> QED BY <2>3, <3>3
    <2> QED BY <2>1, <2>2, <2>3
  <1>7. \A p \in DOMAIN u : \A i \in DOMAIN u[p] : u[p][i] # b
    BY <1>1, <1>3 DEF NoDouble, Elements
  <1>8. \A i \in DOMAIN t : t[i] # b
    BY <1>1, <1>2, <1>3 DEF NoDouble
  <1>9. \A i, j \in DOMAIN t : t[i] = t[j] => i = j
    BY <1>4 DEF NoDouble
  <1>10. ASSUME NEW i \in DOMAIN t, NEW p \in DOMAIN v, t[i] \in Elements(v[p]) PROVE FALSE
    <2>1. PICK j \in DOMAIN v[p] : v[p][j] = t[i]
      BY <1>10 DEF Elements
    <2> QED BY <1>4, <1>6, <1>8, <2>1 DEF NoDouble, Elements
  <1>11. ASSUME NEW p \in DOMAIN v, NEW r \in DOMAIN v, NEW i \in DOMAIN v[p],
                NEW j \in DOMAIN v[r], v[p][i] = v[r][j]
         PROVE  p = r /\ i = j
    BY <1>6, <1>7, <1>11 DEF NoDouble
  <1> QED BY <1>9, <1>10, <1>11 DEF NoDouble, v, t, b

\* TickFlush: new bunches at the end of the queue.
LEMMA NoDoubleSeal ==
  ASSUME NEW S, NEW q \in Seq(S), NEW u, NoDouble(q, u), NEW new \in Seq(S),
         \A i, j \in DOMAIN new : new[i] = new[j] => i = j,
         \A i \in DOMAIN new, j \in DOMAIN q : new[i] # q[j],
         \A i \in DOMAIN new, p \in DOMAIN u : new[i] \notin Elements(u[p])
  PROVE  NoDouble(q \o new, u)
  <1> DEFINE w == q \o new
  <1>1. w \in Seq(S) /\ Len(w) = Len(q) + Len(new)
    BY ConcatType, ConcatElements
  <1>2. /\ \A i \in 1 .. Len(q) : w[i] = q[i]
        /\ \A i \in 1 .. Len(new) : w[Len(q) + i] = new[i]
    BY ConcatElements
  <1>3. /\ Len(q) \in Nat /\ Len(new) \in Nat /\ DOMAIN q = 1 .. Len(q)
        /\ DOMAIN new = 1 .. Len(new)
    OBVIOUS
  <1> HIDE DEF w
  <1>4. DOMAIN w = 1 .. Len(q) + Len(new)
    BY <1>1
  <1>5. \A i \in DOMAIN w : \/ i \in DOMAIN q /\ w[i] = q[i]
                            \/ /\ i > Len(q) /\ i - Len(q) \in DOMAIN new
                               /\ w[i] = new[i - Len(q)]
    <2> TAKE i \in DOMAIN w
    <2>1. CASE i <= Len(q)
      BY <1>2, <1>3, <1>4, <2>1
    <2>2. CASE i > Len(q)
      <3>1. i - Len(q) \in 1 .. Len(new) /\ Len(q) + (i - Len(q)) = i
        BY <1>3, <1>4, <2>2
      <3> QED BY <1>2, <1>3, <2>2, <3>1
    <2> QED BY <1>3, <1>4, <2>1, <2>2
  <1>6. ASSUME NEW i \in DOMAIN w, NEW j \in DOMAIN w, w[i] = w[j] PROVE i = j
    <2>1. CASE i \in DOMAIN q /\ w[i] = q[i] /\ j \in DOMAIN q /\ w[j] = q[j]
      BY <1>6, <2>1 DEF NoDouble
    <2>2. CASE /\ i > Len(q) /\ i - Len(q) \in DOMAIN new /\ w[i] = new[i - Len(q)]
               /\ j > Len(q) /\ j - Len(q) \in DOMAIN new /\ w[j] = new[j - Len(q)]
      <3>1. i - Len(q) = j - Len(q)
        BY <1>6, <2>2
      <3> QED BY <1>3, <1>4, <3>1
    <2>3. \A k, l \in DOMAIN w : k \in DOMAIN q /\ w[k] = q[k] /\ l - Len(q) \in DOMAIN new
                               /\ w[l] = new[l - Len(q)] => w[k] # w[l]
      OBVIOUS
    <2> QED BY <1>5, <1>6, <2>1, <2>2, <2>3
  <1>7. \A i \in DOMAIN w, p \in DOMAIN u : w[i] \notin Elements(u[p])
    BY <1>5 DEF NoDouble
  <1> QED BY <1>6, <1>7 DEF NoDouble, w

\* The bunches TickChannels seals have numbers nothing in the queues has.
LEMMA SealedAreNew ==
  ASSUME TypeInv, Numbered, OnlyMadeBunches, NEW e \in Ep, NEW c \in Channels
  PROVE  LET new == SealedBunches(c, OutReliable[e][c], Submitted[e][c])
             q   == OutBunchQueue[e][c]
             u   == OutUnAcked[e][c]
         IN  /\ new \in Seq(Bunch)
             /\ \A i, j \in DOMAIN new : new[i] = new[j] => i = j
             /\ \A i \in DOMAIN new, j \in DOMAIN q : new[i] # q[j]
             /\ \A i \in DOMAIN new, p \in DOMAIN u : new[i] \notin Elements(u[p])
  <1> DEFINE out == OutReliable[e][c]
             new == SealedBunches(c, out, Submitted[e][c])
             q   == OutBunchQueue[e][c]
             u   == OutUnAcked[e][c]
             n   == Len(sealed[e][c])
  <1>1. /\ Submitted[e][c] \in Seq(Nat) /\ out \in Int /\ InitReliable(e) \in Int
        /\ n \in Nat /\ out = InitReliable(e) + n
    <2>1. sealed[e][c] \in Seq(Bunch)
      BY SealedTypes
    <2> QED BY <2>1, SealedTypes, InitReliableType DEF Numbered
  <1>2. new \in Seq(Bunch)
    BY <1>1, SealedBunchesType
  <1>3. \A i \in DOMAIN new : i \in Nat \ {0} /\ new[i].ch = c /\ new[i].seq = out + i
    BY <1>1 DEF SealedBunches
  <1>4. ASSUME NEW b \in Made(e) PROVE \A i \in DOMAIN new : new[i] # b
    <2> SUFFICES ASSUME NEW i \in DOMAIN new, new[i] = b PROVE FALSE
      OBVIOUS
    <2>1. b.ch = c /\ b.seq = InitReliable(e) + n + i /\ i \in Nat \ {0}
      BY <1>1, <1>3
    <2>2. b.seq - InitReliable(e) \in 1 .. Len(sealed[e][b.ch])
      BY DEF Made
    <2>3. n + i \in 1 .. n
      <3>1. b.seq - InitReliable(e) = n + i
        BY <1>1, <2>1
      <3> QED BY <2>1, <2>2, <3>1
    <2> QED BY <1>1, <2>1, <2>3
  <1>5. q \in Seq(Made(e)) /\ u \in MapTo(Seq(Made(e)))
    BY DEF OnlyMadeBunches, Carried, QueuesCarry
  <1> HIDE DEF new, q, u, out
  <1>6. \A j \in DOMAIN q : q[j] \in Made(e)
    BY <1>5
  <1>7. \A p \in DOMAIN u : Elements(u[p]) \subseteq Made(e)
    <2> TAKE p \in DOMAIN u
    <2>1. u[p] \in Seq(Made(e))
      BY <1>5, MapValue
    <2> QED BY <2>1 DEF Elements
  <1>8. \A i, j \in DOMAIN new : new[i] = new[j] => i = j
    <2> TAKE i \in DOMAIN new, j \in DOMAIN new
    <2>1. new[i] = new[j] => out + i = out + j
      BY <1>3
    <2> QED BY <1>1, <1>3, <2>1
  <1> QED BY <1>2, <1>4, <1>6, <1>7, <1>8 DEF new, q, u, out

\* The steps that leave the sending queues alone.
LEMMA QueuesQuiet ==
  ASSUME TypeInv, [Next]_vars
  PROVE  \/ UNCHANGED << OutBunchQueue, OutUnAcked >>
         \/ \E e \in Ep : \/ HandlePacketNotification(e) \/ TickChannels(e)
                         \/ \E c \in Channels : \/ DiscardBunch(e, c)
                                               \/ PackBunch(e, c)
                                               \/ OverflowReliableBuffer(e, c)
                                               \/ \E id \in DOMAIN OutUnAcked[e][c] :
                                                    ForceRetransmit(e, c, id)
  <1>1. CASE UNCHANGED vars
    BY <1>1 DEF vars, outVars
  <1>2. ASSUME NEW e \in Ep, \/ Submit(e) \/ ReceivedPacket(e) \/ RetransmitDone(e)
                            \/ TickDispatch(e) \/ DispatchPendingPacket(e) \/ TickFlush(e)
                            \/ SendPacket(e) \/ FinishAssembly(e) \/ SendKeepAlive(e)
                            \/ NothingToSend(e)
        PROVE  UNCHANGED << OutBunchQueue, OutUnAcked >>
    BY <1>2 DEF Submit, SendNetMessage, ReceivedPacket, ReceiveOld, ReceiveNew,
       RetransmitDone, TickDispatch, DispatchPendingPacket, BufferBunch, DispatchBunch,
       AckPacket, TickFlush, SendPacket, FinishAssembly, SendKeepAlive, NothingToSend, outVars
  <1> QED BY <1>1, <1>2 DEF Next, ForceRetransmitAllUnAcked, AssembleOutgoingPackets

\* What the absence of a double retransmission rests on.
RetransmitInv == TypeInv /\ Numbered /\ OnlyMadeBunches /\ NoDoubleRetransmit

\* No step puts a bunch into a queue or a packet map that holds it already.
LEMMA NoDoubleStep ==
  ASSUME RetransmitInv, [Next]_vars PROVE NoDoubleRetransmit'
  <1> USE DEF RetransmitInv
  <1>1. \A e \in Ep, c \in Channels :
          /\ OutBunchQueue[e][c] \in Seq(Bunch) /\ OutUnAcked[e][c] \in MapTo(Seq(Bunch))
          /\ NoDouble(OutBunchQueue[e][c], OutUnAcked[e][c])
    BY DEF TypeInv, Typed, QueueTyped, PerChannel, NoDoubleRetransmit, NoDouble
  <1> SUFFICES ASSUME NEW e \in Ep, NEW c \in Channels
               PROVE  NoDouble(OutBunchQueue'[e][c], OutUnAcked'[e][c])
    BY DEF NoDoubleRetransmit, NoDouble
  <1> DEFINE q == OutBunchQueue[e][c]
             u == OutUnAcked[e][c]
  <1> USE DEF TypeInv, Typed, QueueTyped, PerChannel
  <1>2. CASE UNCHANGED << OutBunchQueue, OutUnAcked >>
    BY <1>1, <1>2
  <1>3. ASSUME NEW d \in Ep, HandlePacketNotification(d)
        PROVE  NoDouble(OutBunchQueue'[e][c], OutUnAcked'[e][c])
    <2>1. CASE UNCHANGED << OutBunchQueue, OutUnAcked >>
      BY <1>1, <2>1
    <2>2. ASSUME NEW cs, NEW b, NotifyChannels(d, LastNotified[d] + 1, cs, b)
          PROVE  NoDouble(OutBunchQueue'[e][c], OutUnAcked'[e][c])
      <3> DEFINE id == LastNotified[d] + 1
      <3>1. \/ OutBunchQueue'[e][c] = q /\ OutUnAcked'[e][c] \in {u, Erase(u, id)}
            \/ /\ OutBunchQueue'[e][c] = BunchesOf(u, id) \o q
               /\ OutUnAcked'[e][c] = Erase(u, id)
        BY <2>2 DEF NotifyChannels
      <3> HIDE DEF id
      <3> QED BY <1>1, <3>1, NoDoubleErase, NoDoubleReturn
    <2> QED BY <1>3, <2>1, <2>2 DEF HandlePacketNotification
  <1>4. ASSUME NEW d \in Ep, NEW x \in Channels, NEW id \in DOMAIN OutUnAcked[d][x],
               ForceRetransmit(d, x, id)
        PROVE  NoDouble(OutBunchQueue'[e][c], OutUnAcked'[e][c])
    <2>1. \/ OutBunchQueue'[e][c] = q /\ OutUnAcked'[e][c] = u
          \/ /\ OutBunchQueue'[e][c] = BunchesOf(u, id) \o q
             /\ OutUnAcked'[e][c] = Erase(u, id)
      BY <1>4 DEF ForceRetransmit, BunchesOf
    <2> QED BY <1>1, <2>1, NoDoubleReturn
  <1>5. ASSUME NEW d \in Ep, NEW x \in Channels,
               DiscardBunch(d, x) \/ OverflowReliableBuffer(d, x)
        PROVE  NoDouble(OutBunchQueue'[e][c], OutUnAcked'[e][c])
    <2>1. \/ OutBunchQueue'[e][c] = q /\ OutUnAcked'[e][c] = u
          \/ /\ q # << >> /\ OutBunchQueue'[e][c] = Tail(q) /\ OutUnAcked'[e][c] = u
      <3>1. /\ OutBunchQueue[d][x] # << >> /\ UNCHANGED OutUnAcked
            /\ OutBunchQueue' = [OutBunchQueue EXCEPT ![d][x] = Tail(@)]
        BY <1>5 DEF DiscardBunch, OverflowReliableBuffer, IsNextChannel
      <3>2. CASE d = e /\ x = c
        BY <3>1, <3>2
      <3>3. CASE ~ (d = e /\ x = c)
        BY <3>1, <3>3
      <3> QED BY <3>2, <3>3
    <2> QED BY <1>1, <2>1, NoDoubleTail
  <1>6. ASSUME NEW d \in Ep, NEW x \in Channels, PackBunch(d, x)
        PROVE  NoDouble(OutBunchQueue'[e][c], OutUnAcked'[e][c])
    <2>1. CASE d = e /\ x = c
      <3> DEFINE id == LastOf(Packets(d, Head(q))).id
      <3>1. q # << >> /\ OutBunchQueue'[e][c] = Tail(q) /\ id \in Int
            /\ OutUnAcked'[e][c] = AddUnAcked(u, id, Head(q))
        <4>1. /\ q # << >> /\ OutBunchQueue' = [OutBunchQueue EXCEPT ![e][c] = Tail(@)]
              /\ OutUnAcked' = [OutUnAcked EXCEPT ![e][c] = AddUnAcked(@, id, Head(q))]
          BY <1>6, <2>1 DEF PackBunch, IsNextChannel
        <4>2. id \in Int
          <5>1. q \in Seq(Bunch)
            BY <1>1
          <5>2. Head(q) \in Bunch
            BY <4>1, <5>1, HeadTail
          <5>3. Packets(d, Head(q)) \in Seq(Packet) /\ Packets(d, Head(q)) # << >>
            BY <5>2, PacketsType
          <5>4. LastOf(Packets(d, Head(q))) \in Packet
            BY <5>3, LastFront
          <5> QED BY <5>4 DEF Packet
        <4> HIDE DEF id, q
        <4> QED BY <4>1, <4>2 DEF q
      <3> HIDE DEF id
      <3> QED BY <1>1, <3>1, NoDoublePack
    <2>2. CASE ~ (d = e /\ x = c)
      <3>1. OutBunchQueue'[e][c] = q /\ OutUnAcked'[e][c] = u
        BY <1>6, <2>2 DEF PackBunch
      <3> QED BY <1>1, <3>1
    <2> QED BY <2>1, <2>2
  <1>7. ASSUME NEW d \in Ep, TickChannels(d)
        PROVE  NoDouble(OutBunchQueue'[e][c], OutUnAcked'[e][c])
    <2> DEFINE new == SealedBunches(c, OutReliable[e][c], Submitted[e][c])
    <2>1. /\ OutUnAcked'[e][c] = u
          /\ OutBunchQueue'[e][c] = IF d = e THEN q \o new ELSE q
      BY <1>7 DEF TickChannels
    <2>2. NoDouble(q \o new, u)
      <3>1. /\ new \in Seq(Bunch)
            /\ \A i, j \in DOMAIN new : new[i] = new[j] => i = j
            /\ \A i \in DOMAIN new, j \in DOMAIN q : new[i] # q[j]
            /\ \A i \in DOMAIN new, p \in DOMAIN u : new[i] \notin Elements(u[p])
        BY <1>1, SealedAreNew
      <3>2. q \in Seq(Bunch) /\ NoDouble(q, u)
        BY <1>1
      <3> HIDE DEF new, q, u
      <3> QED BY <3>1, <3>2, NoDoubleSeal, ZenonT(30)
    <2> QED BY <1>1, <2>1, <2>2
  <1> QED BY <1>2, <1>3, <1>4, <1>5, <1>6, <1>7, QueuesQuiet

\* For every size of packets and of RELIABLE_BUFFER and for any traffic: whatever acks,
\* nacks and forced retransmissions come in whatever order, RecivedNack and
\* ForceRetransmitAllUnAcked never queue a bunch that is still in a packet in flight,
\* or already queued, a second time.
THEOREM NeverRetransmittedTwice == Spec => []NoDoubleRetransmit
  <1>1. Init => RetransmitInv
    <2>1. ASSUME Init PROVE NoDoubleRetransmit
      BY <2>1 DEF Init, NoDoubleRetransmit, EmptyMap
    <2> QED BY <2>1, InitOrder DEF RetransmitInv, OrderInv
  <1>2. RetransmitInv /\ [Next]_vars => RetransmitInv'
    BY TypeInvStep, NumberedStep, MadeStep, NoDoubleStep DEF RetransmitInv
  <1>3. RetransmitInv => NoDoubleRetransmit
    BY DEF RetransmitInv
  <1> QED BY <1>1, <1>2, <1>3, PTL DEF Spec

-----------------------------------------------------------------------------
(* Packet ids, sequence numbers and the markers of the channel record.     *)

\* The positions of the markers of a channel record.
Marks(r) == {i \in DOMAIN r : r[i].isSequence}

\* A channel record in front to back order: the packets lo + 1 .. hi, each with
\* one marker, and no channel entry before the first marker.
RecordSpan(r, lo, hi) ==
    /\ lo <= hi
    /\ {r[i].value : i \in Marks(r)} = lo + 1 .. hi
    /\ \A i, j \in Marks(r) : i < j => r[i].value < r[j].value
    /\ r # << >> => r[1].isSequence

\* Every packet of the span has a marker, and every marker is one of the span.
LEMMA SpanMarks ==
  ASSUME NEW r, NEW lo \in Int, NEW hi \in Int, RecordSpan(r, lo, hi)
  PROVE  /\ \A v \in lo + 1 .. hi : \E i \in Marks(r) : r[i].value = v
         /\ \A i \in Marks(r) : r[i].value \in lo + 1 .. hi
  <1>1. {r[i].value : i \in Marks(r)} = lo + 1 .. hi
    BY DEF RecordSpan
  <1> DEFINE V == lo + 1 .. hi
  <1> HIDE DEF V
  <1>2. {r[i].value : i \in Marks(r)} = V
    BY <1>1 DEF V
  <1>3. \A v \in V : \E i \in Marks(r) : r[i].value = v
    BY <1>2
  <1>4. \A i \in Marks(r) : r[i].value \in V
    BY <1>2
  <1> QED BY <1>3, <1>4 DEF V

\* A marker pushed on a record that ends before it.
LEMMA MarkerSpan ==
  ASSUME NEW r \in Seq(RecordEntry), NEW lo \in Int, NEW hi \in Int, RecordSpan(r, lo, hi)
  PROVE  RecordSpan(Append(r, Marker(hi + 1)), lo, hi + 1)
  <1> DEFINE s == Append(r, Marker(hi + 1))
             n == Len(r)
  <1>1. /\ n \in Nat /\ DOMAIN r = 1 .. n /\ DOMAIN s = 1 .. n + 1 /\ s[n + 1] = Marker(hi + 1)
        /\ \A i \in 1 .. n : s[i] = r[i]
    OBVIOUS
  <1>2. Marker(hi + 1).isSequence /\ Marker(hi + 1).value = hi + 1
    BY DEF Marker
  <1> HIDE DEF s, n
  <1>3. Marks(s) = Marks(r) \union {n + 1} /\ \A i \in Marks(r) : i \in 1 .. n /\ s[i] = r[i]
    BY <1>1, <1>2 DEF Marks
  <1>4. {s[i].value : i \in Marks(s)} = {r[i].value : i \in Marks(r)} \union {hi + 1}
    BY <1>1, <1>2, <1>3
  <1>5. \A i \in Marks(r) : r[i].value \in lo + 1 .. hi
    BY SpanMarks
  <1>6. ASSUME NEW i \in Marks(s), NEW j \in Marks(s), i < j PROVE s[i].value < s[j].value
    <2>1. i \in Marks(r)
      BY <1>1, <1>3, <1>6
    <2>2. CASE j \in Marks(r)
      <3>1. r[i].value < r[j].value
        BY <1>6, <2>1, <2>2 DEF RecordSpan
      <3> QED BY <1>3, <2>1, <2>2, <3>1
    <2>3. CASE j = n + 1
      <3>1. s[j].value = hi + 1
        BY <1>1, <1>2, <2>3
      <3>2. s[i].value \in lo + 1 .. hi
        BY <1>3, <1>5, <2>1
      <3> QED BY <3>1, <3>2
    <2> QED BY <1>3, <2>2, <2>3
  <1>7. s[1].isSequence
    BY <1>1, <1>2 DEF RecordSpan
  <1>8. (lo + 1 .. hi) \union {hi + 1} = lo + 1 .. hi + 1 /\ lo <= hi + 1
    BY DEF RecordSpan
  <1> QED BY <1>4, <1>6, <1>7, <1>8 DEF RecordSpan, s

\* A channel entry behind a packet's marker.
LEMMA ChannelSpan ==
  ASSUME NEW r \in Seq(RecordEntry), NEW lo \in Int, NEW hi \in Int, RecordSpan(r, lo, hi),
         lo < hi, NEW c
  PROVE  RecordSpan(Append(r, ChannelOf(c)), lo, hi)
  <1> DEFINE s == Append(r, ChannelOf(c))
             n == Len(r)
  <1>1. /\ n \in Nat /\ DOMAIN r = 1 .. n /\ DOMAIN s = 1 .. n + 1 /\ s[n + 1] = ChannelOf(c)
        /\ \A i \in 1 .. n : s[i] = r[i]
    OBVIOUS
  <1>2. ~ ChannelOf(c).isSequence
    BY DEF ChannelOf
  <1> HIDE DEF s, n
  <1>3. Marks(s) = Marks(r) /\ \A i \in Marks(r) : s[i] = r[i]
    BY <1>1, <1>2 DEF Marks
  <1>4. r # << >>
    <2>1. hi \in lo + 1 .. hi
      OBVIOUS
    <2>2. PICK i \in Marks(r) : r[i].value = hi
      BY <2>1, SpanMarks
    <2> QED BY <2>2 DEF Marks
  <1>5. s[1].isSequence
    BY <1>1, <1>4 DEF RecordSpan
  <1>6. {s[i].value : i \in Marks(s)} = {r[i].value : i \in Marks(r)}
    BY <1>3
  <1>7. \A i, j \in Marks(s) : i < j => s[i].value < s[j].value
    <2> SUFFICES ASSUME NEW i \in Marks(s), NEW j \in Marks(s), i < j
                 PROVE  s[i].value < s[j].value
      OBVIOUS
    <2>1. r[i].value < r[j].value
      BY <1>3 DEF RecordSpan
    <2> QED BY <1>3, <2>1
  <1> QED BY <1>5, <1>6, <1>7 DEF RecordSpan, s

\* ConsumeChannelRecordsForPacket for the oldest packet of the record.
LEMMA DropSpan ==
  ASSUME NEW r \in Seq(RecordEntry), NEW lo \in Int, NEW hi \in Int, RecordSpan(r, lo, hi),
         lo < hi
  PROVE  /\ r # << >> /\ FrontIsPacket(r, lo + 1)
         /\ \A n \in 0 .. Len(r) - 1 :
              IsChannelRun(r, n) => RecordSpan(DropPacket(r, n), lo + 1, hi)
  <1>1. r # << >>
    <2>1. hi \in lo + 1 .. hi
      OBVIOUS
    <2>2. PICK i \in Marks(r) : r[i].value = hi
      BY <2>1, SpanMarks
    <2> QED BY <2>2 DEF Marks
  <1>2. /\ DOMAIN r = 1 .. Len(r) /\ Len(r) \in Nat \ {0} /\ Head(r) = r[1]
        /\ r[1] \in RecordEntry /\ r[1].isSequence /\ 1 \in Marks(r)
    BY <1>1 DEF RecordSpan, Marks
  <1>3. \A i \in Marks(r) : i \in 1 .. Len(r) /\ r[i].value \in lo + 1 .. hi
    BY SpanMarks DEF Marks
  <1>4. r[1].value = lo + 1
    <2>1. PICK i \in Marks(r) : r[i].value = lo + 1
      <3>1. lo + 1 \in lo + 1 .. hi
        OBVIOUS
      <3> QED BY <3>1, SpanMarks
    <2>2. CASE i = 1
      BY <2>1, <2>2
    <2>3. CASE i # 1
      <3>1. 1 < i
        BY <1>2, <1>3, <2>3
      <3>2. r[1].value < lo + 1
        BY <1>2, <2>1, <3>1 DEF RecordSpan
      <3> QED BY <1>2, <1>3, <3>2
    <2> QED BY <2>2, <2>3
  <1>5. r[1] = Marker(lo + 1)
    BY <1>2, <1>4 DEF RecordEntry, Marker
  <1>6. ASSUME NEW n \in 0 .. Len(r) - 1, IsChannelRun(r, n)
        PROVE  RecordSpan(DropPacket(r, n), lo + 1, hi)
    <2> DEFINE s == DropPacket(r, n)
               m == Len(r) - n - 1
    <2>1. m \in Nat /\ DOMAIN s = 1 .. m /\ \A i \in 1 .. m : s[i] = r[i + n + 1]
      <3>1. /\ n + 2 \in Int /\ n + 2 >= 1
            /\ n + 2 <= Len(r) + 1
        BY <1>2
      <3> QED BY <1>2, <3>1 DEF DropPacket
    <2> HIDE DEF s
    <2>2. \A i \in Marks(s) : i \in 1 .. m /\ i + n + 1 \in Marks(r) /\ s[i] = r[i + n + 1]
                            /\ i + n + 1 > 1
      <3> TAKE i \in Marks(s)
      <3>1. i \in 1 .. m /\ s[i] = r[i + n + 1] /\ s[i].isSequence
        BY <2>1 DEF Marks
      <3>2. i + n + 1 \in 1 .. Len(r) /\ i + n + 1 > 1
        BY <1>2, <3>1
      <3> QED BY <1>2, <3>1, <3>2 DEF Marks
    <2>3. \A j \in Marks(r) : j # 1 => j - n - 1 \in Marks(s) /\ s[j - n - 1] = r[j]
      <3> SUFFICES ASSUME NEW j \in Marks(r), j # 1
                   PROVE  j - n - 1 \in Marks(s) /\ s[j - n - 1] = r[j]
        OBVIOUS
      <3>1. j \in 1 .. Len(r) /\ r[j].isSequence
        BY <1>2 DEF Marks
      <3>2. j \notin 2 .. n + 1
        BY <1>6, <3>1 DEF IsChannelRun
      <3>3. j - n - 1 \in 1 .. m /\ (j - n - 1) + n + 1 = j
        BY <1>2, <1>6, <3>1, <3>2
      <3> QED BY <2>1, <3>1, <3>3 DEF Marks
    <2>4. \A i, j \in Marks(s) : i < j => s[i].value < s[j].value
      <3> SUFFICES ASSUME NEW i \in Marks(s), NEW j \in Marks(s), i < j
                   PROVE  s[i].value < s[j].value
        OBVIOUS
      <3>1. i + n + 1 < j + n + 1
        BY <2>2
      <3> QED BY <2>2, <3>1 DEF RecordSpan
    <2>5. \A i \in Marks(s) : s[i].value \in lo + 2 .. hi
      <3> TAKE i \in Marks(s)
      <3>1. r[1].value < r[i + n + 1].value /\ r[i + n + 1].value \in lo + 1 .. hi
        BY <1>2, <1>3, <2>2 DEF RecordSpan
      <3> QED BY <1>4, <2>2, <3>1
    <2>6. \A v \in lo + 2 .. hi : \E i \in Marks(s) : s[i].value = v
      <3> TAKE v \in lo + 2 .. hi
      <3>1. PICK j \in Marks(r) : r[j].value = v
        <4>1. v \in lo + 1 .. hi
          OBVIOUS
        <4> QED BY <4>1, SpanMarks
      <3>2. j # 1
        BY <1>4, <3>1
      <3> QED BY <2>3, <3>1, <3>2
    <2>7. {s[i].value : i \in Marks(s)} = (lo + 1) + 1 .. hi
      BY <2>5, <2>6
    <2>8. s # << >> => s[1].isSequence
      <3> SUFFICES ASSUME s # << >> PROVE s[1].isSequence
        OBVIOUS
      <3>1. m >= 1
        <4>1. s \in Seq(RecordEntry)
          BY <1>2 DEF DropPacket, s
        <4>2. Len(s) # 0
          BY <4>1
        <4> QED BY <2>1, <4>1, <4>2
      <3>2. s[1] = r[n + 2] /\ n + 1 < Len(r)
        BY <1>2, <2>1, <3>1
      <3> QED BY <1>6, <3>2 DEF IsChannelRun
    <2> QED BY <2>4, <2>7, <2>8 DEF RecordSpan, s
  <1> QED BY <1>1, <1>2, <1>5, <1>6 DEF FrontIsPacket

\* The packets that are made and not yet sent, and the id of the last one that
\* has a marker.
Ready(e)  == Len(OutPacketQueue[e]) + (IF asm[e] = << >> THEN 0 ELSE Len(asm[e]) - 1)
LastId(e) == IF asm[e] = << >> THEN OutPacketId[e] - 1 ELSE OutPacketId[e]

\* While side e is open: InPacketId, the next id to send and the newest id that was
\* reported on are what InSeq, OutSeq and OutAckSeq number; there is one entry of
\* AckRecord for each packet in flight, and one marker for each packet that was
\* made and not yet notified.
AlignedOf(e) ==
    ~ closed[e] =>
        LET n        == notify[e]
            sent     == OutPacketId[e] - Ready(e)
            reported == LastNotified[e] + Len(notes[e])
        IN  /\ ToSeq(InPacketId[e]) = n.InSeq
            /\ ToSeq(sent) = n.OutSeq
            /\ ToSeq(reported) = n.OutAckSeq
            /\ Len(n.AckRecord) = sent - reported - 1
            /\ RecordSpan(Record[e], LastNotified[e], LastId(e))
            /\ asm[e] = << >> => LastRecordId[e] < OutPacketId[e]
            /\ asm[e] # << >> => /\ LastRecordId[e] = OutPacketId[e]
                                 /\ LastOf(asm[e]).bunches # << >>
                                 /\ pc[e] = "assemble"
            /\ pc[e] # "acks" => notes[e] = << >>

\* The bunches under way have sizes the application submits.
OfSizes == {b \in Bunch : b.size \in Sizes}
SizesKept == /\ Carried([e \in Ep |-> OfSizes])
             /\ Submitted \in PerChannel(Seq(Sizes))

AlignInv == TypeInv /\ SizesKept /\ \A e \in Ep : AlignedOf(e)

\* A unit that AssembleOutgoingPackets does not discard fits an empty packet.  The code
\* compares with PacketMaxSize only: a bunch that leaves no room for the packet's own
\* header is marked and accounted, and Append then refuses it.  BunchBuilder can make
\* one, if its messages add up to the last few bytes of that size.
UnitsFit ==
    \A s \in Sizes : BunchHeaderSize + s <= PacketMaxSize =>
                        PacketHeaderSize + BunchHeaderSize + s <= PacketMaxSize

\* The window assumption: fewer packets in flight than half the sequence space.
InFlightWindow == \A e \in Ep : Len(notify[e].AckRecord) + 1 < SeqHalf

\* What a step may do that leaves the packets of a side alone.
AlignQuiet(e) ==
    /\ InPacketId'[e] = InPacketId[e] /\ OutPacketId'[e] = OutPacketId[e]
    /\ OutPacketQueue'[e] = OutPacketQueue[e] /\ asm'[e] = asm[e]
    /\ LastNotified'[e] = LastNotified[e] /\ notes'[e] = notes[e]
    /\ Record'[e] = Record[e] /\ LastRecordId'[e] = LastRecordId[e]
    /\ closed'[e] \in {closed[e], TRUE}
    /\ notify'[e].InSeq = notify[e].InSeq /\ notify'[e].OutSeq = notify[e].OutSeq
    /\ notify'[e].OutAckSeq = notify[e].OutAckSeq
    /\ notify'[e].AckRecord = notify[e].AckRecord
    /\ pc[e] = "assemble" => asm[e] = << >> \/ pc'[e] = "assemble"
    /\ pc[e] = "acks" => notes[e] = << >> \/ pc'[e] = "acks"

\* Such a step keeps the three counters of the side aligned.
LEMMA AlignQuietStep ==
  ASSUME NEW e \in Ep, AlignedOf(e), AlignQuiet(e) PROVE AlignedOf(e)'
  <1>1. Ready(e)' = Ready(e) /\ LastId(e)' = LastId(e)
    BY DEF AlignQuiet, Ready, LastId
  <1> QED BY <1>1 DEF AlignedOf, AlignQuiet

\* The parts of a sequence that is not empty.
LEMMA Parts ==
  ASSUME NEW S, NEW q \in Seq(S), q # << >>
  PROVE  /\ Len(q) \in Nat \ {0} /\ DOMAIN q = 1 .. Len(q)
         /\ Tail(q) \in Seq(S) /\ Len(Tail(q)) = Len(q) - 1
         /\ \A i \in 1 .. Len(q) - 1 : Tail(q)[i] = q[i + 1]
         /\ FrontOf(q) \in Seq(S) /\ Len(FrontOf(q)) = Len(q) - 1
         /\ \A i \in 1 .. Len(q) - 1 : FrontOf(q)[i] = q[i]
         /\ LastOf(q) = q[Len(q)] /\ LastOf(q) \in S /\ Head(q) = q[1] /\ Head(q) \in S
  <1>1. /\ Len(q) \in Nat \ {0} /\ DOMAIN q = 1 .. Len(q)
        /\ Tail(q) \in Seq(S) /\ Len(Tail(q)) = Len(q) - 1
        /\ \A i \in 1 .. Len(q) - 1 : Tail(q)[i] = q[i + 1]
        /\ Head(q) = q[1] /\ \A i \in 1 .. Len(q) : q[i] \in S
    OBVIOUS
  <1>2. /\ FrontOf(q) \in Seq(S) /\ Len(FrontOf(q)) = Len(q) - 1
        /\ \A i \in 1 .. Len(q) - 1 : FrontOf(q)[i] = q[i]
    <2> DEFINE m == Len(q) - 1
    <2>1. m \in Nat /\ m <= Len(q) /\ \A i \in 1 .. m : q[i] \in S
      BY <1>1
    <2>2. FrontOf(q) = [i \in 1 .. m |-> q[i]]
      BY <1>1, <2>1 DEF FrontOf
    <2> HIDE DEF m
    <2> QED BY <2>1, <2>2 DEF m
  <1>3. LastOf(q) = q[Len(q)] /\ LastOf(q) \in S /\ Head(q) \in S
    BY <1>1 DEF LastOf
  <1> QED BY <1>1, <1>2, <1>3

\* The packets of a side that packs nothing: Ready counts the queue.
LEMMA ReadyType ==
  ASSUME TypeInv, NEW e \in Ep
  PROVE  /\ Ready(e) \in Nat /\ LastId(e) \in Int /\ OutPacketId[e] \in Int
         /\ LastNotified[e] \in Int /\ InPacketId[e] \in Int /\ LastRecordId[e] \in Int
         /\ notes[e] \in Seq(BOOLEAN) /\ Len(notes[e]) \in Nat
         /\ notify[e] \in Notify /\ Len(notify[e].AckRecord) \in Nat
         /\ Record[e] \in Seq(RecordEntry)
         /\ OutPacketQueue[e] \in Seq(Packet) /\ asm[e] \in Seq(Packet)
  <1>1. /\ OutPacketId[e] \in Int /\ LastNotified[e] \in Int /\ InPacketId[e] \in Int
        /\ LastRecordId[e] \in Int /\ notes[e] \in Seq(BOOLEAN) /\ notify[e] \in Notify
        /\ Record[e] \in Seq(RecordEntry)
        /\ OutPacketQueue[e] \in Seq(Packet) /\ asm[e] \in Seq(Packet)
    BY DEF TypeInv, Typed, NotifyTyped, RecordTyped, PacketTyped
  <1>2. Len(notify[e].AckRecord) \in Nat
    BY <1>1, NotifyFields
  <1>3. Ready(e) \in Nat /\ LastId(e) \in Int
    <2>1. Len(OutPacketQueue[e]) \in Nat /\ Len(asm[e]) \in Nat
      BY <1>1
    <2>2. asm[e] # << >> => Len(asm[e]) # 0
      BY <1>1
    <2>3. CASE asm[e] = << >>
      BY <1>1, <2>1, <2>3 DEF Ready, LastId
    <2>4. CASE asm[e] # << >>
      <3>1. Ready(e) = Len(OutPacketQueue[e]) + (Len(asm[e]) - 1) /\ LastId(e) = OutPacketId[e]
        BY <2>4 DEF Ready, LastId
      <3>2. \A i, k \in Nat : k # 0 => i + (k - 1) \in Nat
        OBVIOUS
      <3> QED BY <1>1, <2>1, <2>2, <2>4, <3>1, <3>2
    <2> QED BY <2>3, <2>4
  <1> QED BY <1>1, <1>2, <1>3

\* ReceivedPacket with a new header: the acks it carries are counted by its notes.
LEMMA ReceiveNewAligned ==
  ASSUME TypeInv, InFlightWindow, NEW e \in Ep, NEW p \in net[e], ReceiveNew(e, p),
         AlignedOf(e)
  PROVE  AlignedOf(e)'
  <1> SUFFICES ASSUME ~ closed'[e] PROVE AlignedOf(e)'
    BY DEF AlignedOf
  <1> DEFINE n == notify[e]
             h == p.header
             u == Update(n, h)
             m == u.notify
             k == AckCount(n, h)
             sent == OutPacketId[e] - Ready(e)
             acked == LastNotified[e]
  <1>1. /\ n \in Notify /\ h \in Header /\ n.InSeq \in SeqNums /\ h.seq \in SeqNums
        /\ sent \in Int /\ acked \in Int /\ InPacketId[e] \in Int
    <2>1. p \in Datagram
      BY DEF TypeInv, Typed, DatagramTyped
    <2> QED BY <2>1, DatagramFields, NotifyFields, ReadyType DEF Header
  <1>2. /\ notify'[e] = m /\ notes'[e] = Notifications(n, h)
        /\ InPacketId'[e] = InPacketId[e] + IF IsWaitingForSequenceHistoryFlush(m)
                                            THEN u.delta ELSE SequenceDelta(n, h)
        /\ pc[e] = "idle" /\ (k > 0 => pc'[e] = "acks")
        /\ OutPacketId' = OutPacketId /\ OutPacketQueue' = OutPacketQueue /\ asm' = asm
        /\ Record' = Record /\ LastRecordId' = LastRecordId /\ LastNotified' = LastNotified
        /\ closed' = closed /\ SequenceDelta(n, h) > 0
    <2>1. pc[e] = "idle"
      BY DEF ReceiveNew, Idle
    <2> QED BY <2>1 DEF ReceiveNew, TypeInv, Typed, CtlTyped, NotifyTyped, sendVars, recVars
  <1>3. notes[e] = << >> /\ Len(notes[e]) = 0 /\ asm[e] = << >>
    BY <1>2 DEF AlignedOf
  <1>4. /\ ToSeq(InPacketId[e]) = n.InSeq /\ ToSeq(sent) = n.OutSeq
        /\ ToSeq(acked) = n.OutAckSeq /\ Len(n.AckRecord) = sent - acked - 1
        /\ RecordSpan(Record[e], acked, LastId(e)) /\ LastRecordId[e] < OutPacketId[e]
    <2>1. acked + Len(notes[e]) = acked
      BY <1>1, <1>3
    <2> QED BY <1>2, <1>3, <2>1 DEF AlignedOf
  <1>5. sent - acked < SeqHalf
    BY <1>1, <1>4, HalfIsHalf DEF InFlightWindow
  <1>6. Ready(e)' = Ready(e) /\ LastId(e)' = LastId(e)
    BY <1>2 DEF Ready, LastId
  <1>7. notes'[e] \in Seq(BOOLEAN) /\ Len(notes'[e]) = k
    BY <1>1, <1>2, NotificationsType
  <1>8. SequenceDelta(n, h) = Diff(h.seq, n.InSeq)
    BY <1>2 DEF SequenceDelta
  <1>9. m.InSeq \in SeqNums
    BY <1>1, UpdateType, NotifyFields
  <1>10. \/ ~ IsWaitingForSequenceHistoryFlush(m) /\ m.InSeq = h.seq
         \/ IsWaitingForSequenceHistoryFlush(m) /\ u.delta = Diff(m.InSeq, n.InSeq)
         \/ IsWaitingForSequenceHistoryFlush(m) /\ m.InSeq = n.InSeq /\ u.delta = 0
    BY <1>1, UpdateIn
  <1> HIDE DEF n, h, u, m, k, sent, acked
  <1>11. /\ k \in Nat /\ ToSeq(acked + k) = h.acked /\ m.OutSeq = n.OutSeq
         /\ m.OutAckSeq = h.acked /\ Len(m.AckRecord) = sent - (acked + k) - 1
    BY <1>1, <1>2, <1>4, <1>5, AcksAreCounted DEF m, k, u
  <1>12. ToSeq(InPacketId'[e]) = m.InSeq
    <2>1. \A a \in SeqNums : ToSeq(InPacketId[e] + Diff(a, n.InSeq)) = a
      BY <1>1, <1>4, DiffAdds
    <2> QED BY <1>1, <1>2, <1>4, <1>8, <1>9, <1>10, <2>1
  <1>13. pc'[e] # "acks" => notes'[e] = << >>
    BY <1>2, <1>7, <1>11
  <1>14. sent' = sent /\ acked' = acked
    BY <1>2, <1>6 DEF sent, acked
  <1> QED BY <1>2, <1>3, <1>4, <1>6, <1>7, <1>11, <1>12, <1>13, <1>14
       DEF AlignedOf, sent, acked

\* HandlePacketNotification: the packet it reports on is the oldest of the record, so
\* ConsumeChannelRecordsForPacket finds it; it has been sent.
LEMMA NotificationFinds ==
  ASSUME TypeInv, NEW e \in Ep, HandlePacketNotification(e), AlignedOf(e), ~ closed[e]
  PROVE  LET id  == LastNotified[e] + 1
             rec == Record[e]
         IN  /\ pc[e] = "acks" /\ notes[e] # << >> /\ id \in Int
             /\ LastNotified'[e] = id /\ notes'[e] = Tail(notes[e])
             /\ rec # << >> /\ FrontIsPacket(rec, id) /\ UNCHANGED closed
             /\ LastNotified[e] < LastId(e) /\ id < OutPacketId[e] - Ready(e)
             /\ \E n \in 0 .. Len(rec) - 1 :
                  /\ IsChannelRun(rec, n) /\ Record'[e] = DropPacket(rec, n)
                  /\ NotifyChannels(e, id, ChannelRun(rec, n), Head(notes[e]))
  <1> DEFINE id == LastNotified[e] + 1
             rec == Record[e]
             acked == ToSeq(notify[e].OutAckSeq - (Len(notes[e]) - 1))
             sent == OutPacketId[e] - Ready(e)
             last == LastId(e)
  <1>1. /\ pc[e] = "acks" /\ notes[e] # << >>
        /\ LastNotified'[e] = id /\ notes'[e] = Tail(notes[e])
    BY DEF HandlePacketNotification, TypeInv, Typed, NotifyTyped, LoopsGuarded
  <1>4. /\ id \in Int /\ sent \in Int /\ last \in Int /\ Len(notes[e]) \in Nat \ {0}
        /\ notes'[e] \in Seq(BOOLEAN) /\ Len(notes'[e]) = Len(notes[e]) - 1
        /\ Len(notify[e].AckRecord) \in Nat /\ rec \in Seq(RecordEntry)
        /\ LastNotified[e] \in Int /\ notify[e] \in Notify /\ sent <= last + 1
    <2>1. Len(notes[e]) \in Nat \ {0} /\ Len(Tail(notes[e])) = Len(notes[e]) - 1
          /\ Tail(notes[e]) \in Seq(BOOLEAN)
      <3>1. notes[e] \in Seq(BOOLEAN) /\ notes[e] # << >>
        BY <1>1, ReadyType
      <3> QED BY <3>1, Parts
    <2>2. sent <= last + 1
      <3>1. Ready(e) \in Nat /\ OutPacketId[e] \in Int /\ last \in {OutPacketId[e] - 1, OutPacketId[e]}
        BY ReadyType DEF LastId
      <3> QED BY <3>1
    <2> QED BY <1>1, <2>1, <2>2, ReadyType
  <1>5. /\ ToSeq(LastNotified[e] + Len(notes[e])) = notify[e].OutAckSeq
        /\ Len(notify[e].AckRecord) = sent - (LastNotified[e] + Len(notes[e])) - 1
        /\ RecordSpan(rec, LastNotified[e], last)
        /\ ToSeq(InPacketId[e]) = notify[e].InSeq /\ ToSeq(sent) = notify[e].OutSeq
        /\ asm[e] = << >> /\ LastRecordId[e] < OutPacketId[e]
    BY <1>1 DEF AlignedOf
  <1> HIDE DEF sent, last, acked, rec
  <1>6. ToSeq(id) = acked
    <2> DEFINE a == LastNotified[e] + Len(notes[e])
               t == ToSeq(a)
               k == Len(notes[e]) - 1
    <2>1. a \in Int /\ t \in Int /\ k \in Int /\ a = id + k
      <3>1. a \in Int /\ k \in Int /\ a = id + k
        BY SMTT(30), <1>4
      <3> QED BY <3>1, ToSeqType, SeqNumsAreInt
    <2>2. PICK q \in Int : a = SeqCount * q + t
      BY <2>1, Turns
    <2>3. t = notify[e].OutAckSeq
      BY <1>5
    <2> HIDE DEF a, t, k, id
    <2>4. id = (t - k) + SeqCount * q /\ t - k \in Int /\ id \in Int
      <3>1. SeqCount * q \in Int
        BY <2>2, SeqCountAssumption
      <3>2. id \in Int
        BY <1>4
      <3> QED BY <2>1, <2>2, <3>1, <3>2
    <2>5. ToSeq(id) = ToSeq(t - k)
      BY <2>2, <2>4, SameNumber
    <2> QED BY <2>3, <2>5 DEF acked, k
  <1>7. LastNotified[e] < last
    BY <1>4, <1>5
  <1>8. rec # << >> /\ FrontIsPacket(rec, id)
    BY <1>4, <1>5, <1>7, DropSpan
  <1>9. /\ UNCHANGED closed
        /\ \E n \in 0 .. Len(rec) - 1 :
             /\ IsChannelRun(rec, n) /\ Record'[e] = DropPacket(rec, n)
             /\ NotifyChannels(e, id, ChannelRun(rec, n), Head(notes[e]))
    BY <1>6, <1>8 DEF HandlePacketNotification, acked, rec, TypeInv, Typed, RecordTyped
  <1>10. id < sent
    <2> DEFINE k == Len(notes[e])
               r == Len(notify[e].AckRecord)
    <2>1. k \in Nat \ {0} /\ r \in Nat /\ r = sent - (LastNotified[e] + k) - 1
      BY <1>4, <1>5
    <2>2. sent \in Int /\ LastNotified[e] \in Int
      BY <1>4
    <2> HIDE DEF k, r
    <2> QED BY <2>1, <2>2
  <1> QED BY <1>1, <1>4, <1>7, <1>8, <1>9, <1>10 DEF sent, last, rec

\* Its notification leaves the counters aligned.
LEMMA NotificationAligned ==
  ASSUME TypeInv, NEW e \in Ep, HandlePacketNotification(e), AlignedOf(e)
  PROVE  AlignedOf(e)'
  <1> SUFFICES ASSUME ~ closed'[e] PROVE AlignedOf(e)'
    BY DEF AlignedOf
  <1> DEFINE id == LastNotified[e] + 1
             rec == Record[e]
             sent == OutPacketId[e] - Ready(e)
             last == LastId(e)
  <1>1. /\ pc[e] = "acks" /\ notes[e] # << >>
        /\ LastNotified'[e] = id /\ notes'[e] = Tail(notes[e])
        /\ notify' = notify /\ InPacketId' = InPacketId /\ OutPacketId' = OutPacketId
        /\ OutPacketQueue' = OutPacketQueue /\ asm' = asm /\ LastRecordId' = LastRecordId
        /\ pc'[e] # "acks" => Len(notes[e]) <= 1
    BY DEF HandlePacketNotification, TypeInv, Typed, CtlTyped, NotifyTyped, LoopsGuarded, sendVars
  <1>2. Ready(e)' = Ready(e) /\ LastId(e)' = LastId(e)
    BY <1>1 DEF Ready, LastId
  <1>3. ~ closed[e]
    BY DEF HandlePacketNotification, Close, TypeInv, Typed, CtlTyped
  <1>4. /\ id \in Int /\ last \in Int /\ Len(notes[e]) \in Nat \ {0}
        /\ Len(notes'[e]) = Len(notes[e]) - 1 /\ notes'[e] \in Seq(BOOLEAN)
        /\ rec \in Seq(RecordEntry) /\ LastNotified[e] \in Int
    <2>1. notes[e] \in Seq(BOOLEAN) /\ notes[e] # << >>
      BY <1>1, ReadyType
    <2>2. Len(notes[e]) \in Nat \ {0} /\ Len(Tail(notes[e])) = Len(notes[e]) - 1
          /\ Tail(notes[e]) \in Seq(BOOLEAN)
      BY <2>1, Parts
    <2> QED BY <1>1, <2>2, ReadyType
  <1>5. /\ ToSeq(LastNotified[e] + Len(notes[e])) = notify[e].OutAckSeq
        /\ Len(notify[e].AckRecord) = sent - (LastNotified[e] + Len(notes[e])) - 1
        /\ RecordSpan(rec, LastNotified[e], last)
        /\ ToSeq(InPacketId[e]) = notify[e].InSeq /\ ToSeq(sent) = notify[e].OutSeq
        /\ asm[e] = << >> /\ LastRecordId[e] < OutPacketId[e]
    BY <1>1, <1>3 DEF AlignedOf
  <1> HIDE DEF sent, last, rec
  <1>7. LastNotified[e] < last
    BY <1>3, NotificationFinds DEF last
  <1>9. PICK n \in 0 .. Len(rec) - 1 : IsChannelRun(rec, n) /\ Record'[e] = DropPacket(rec, n)
    BY <1>3, NotificationFinds DEF rec
  <1>10. RecordSpan(Record'[e], id, last)
    BY <1>4, <1>5, <1>7, <1>9, DropSpan
  <1>11. pc'[e] # "acks" => notes'[e] = << >>
    BY <1>1, <1>4
  <1>12. id + Len(notes'[e]) = LastNotified[e] + Len(notes[e])
    <2>1. \A i, k, l \in Int : l = k - 1 => (i + 1) + l = i + k
      OBVIOUS
    <2>2. LastNotified[e] \in Int /\ Len(notes[e]) \in Int /\ Len(notes'[e]) \in Int
      BY <1>4
    <2> QED BY <1>4, <2>1, <2>2
  <1>13. sent' = sent /\ last' = last
    BY <1>1, <1>2 DEF sent, last
  <1> HIDE DEF id
  <1> QED BY <1>1, <1>5, <1>10, <1>11, <1>12, <1>13 DEF AlignedOf, sent, last

\* The head of a queue that is packed fits an empty packet.
LEMMA HeadFits ==
  ASSUME UnitsFit, TypeInv, SizesKept, NEW e \in Ep, NEW c \in Channels, PackBunch(e, c)
  PROVE  LET b == Head(OutBunchQueue[e][c])
         IN  b \in OfSizes /\ \A id : Fits(NewPacket(id), b)
  <1> DEFINE b == Head(OutBunchQueue[e][c])
  <1>1. OutBunchQueue[e][c] \in Seq(OfSizes) /\ OutBunchQueue[e][c] # << >>
        /\ ~ IsDiscarded(b)
    BY DEF SizesKept, Carried, QueuesCarry, PackBunch, IsNextChannel
  <1>2. b \in OfSizes
    BY <1>1, HeadTail
  <1>3. /\ b.size \in Sizes /\ b.size \in Nat /\ BunchHeaderSize \in Nat
        /\ PacketHeaderSize \in Nat /\ PacketMaxSize \in Nat
    BY <1>2, ConnectionAssumption DEF OfSizes, Bunch
  <1>4. BunchHeaderSize + b.size <= PacketMaxSize
    BY <1>1, <1>3 DEF IsDiscarded, TotalSize
  <1>5. PacketHeaderSize + BunchHeaderSize + b.size <= PacketMaxSize
    BY <1>3, <1>4 DEF UnitsFit
  <1> QED BY <1>2, <1>3, <1>5 DEF Fits, NewPacket, TotalSize

\* PackBunch: the bunch goes to the open packet, or opens a packet, whose marker is
\* pushed before the channel.
LEMMA PackBunchOpens ==
  ASSUME UnitsFit, TypeInv, SizesKept, NEW e \in Ep, NEW c \in Channels, PackBunch(e, c),
         AlignedOf(e), ~ closed[e]
  PROVE  LET b    == Head(OutBunchQueue[e][c])
             ps   == Packets(e, b)
             rec  == Record[e]
             last == LastId(e)
         IN  /\ Fits(LastOf(ps), b) /\ ps \in Seq(Packet) /\ ps # << >> /\ b \in Bunch
             /\ PacketId(e, b) - (Len(OutPacketQueue[e]) + (Len(ps) - 1))
                    = OutPacketId[e] - Ready(e)
             /\ LastRecordId'[e] = PacketId(e, b)
             /\ \E r \in Seq(RecordEntry) :
                  /\ RecordSpan(r, LastNotified[e], PacketId(e, b))
                  /\ Record'[e] = Append(r, ChannelOf(c))
             /\ LastNotified[e] < PacketId(e, b)
             /\ \/ /\ asm[e] # << >> /\ ps = asm[e] /\ PacketId(e, b) = last
                   /\ Record'[e] = Append(rec, ChannelOf(c))
                \/ /\ ps = Append(asm[e], NewPacket(last + 1)) /\ PacketId(e, b) = last + 1
                   /\ Record'[e] = Append(Append(rec, Marker(last + 1)), ChannelOf(c))
  <1> DEFINE b    == Head(OutBunchQueue[e][c])
             ps   == Packets(e, b)
             p    == LastOf(ps)
             x    == OutPacketId[e]
             rec  == Record[e]
             low  == LastNotified[e]
             last == LastId(e)
  <1>1. /\ pc[e] = "assemble" /\ RecordBunch(e, c, b)
        /\ OutPacketId'[e] = PacketId(e, b)
        /\ asm'[e] = IF Fits(p, b)
                     THEN Append(FrontOf(ps), [p EXCEPT !.size = @ + TotalSize(b),
                                                        !.bunches = Append(@, b)])
                     ELSE ps
        /\ UNCHANGED << ctlVars, notify, recvVars, OutPacketQueue >>
    BY DEF PackBunch, TypeInv, Typed, RecordTyped, PacketTyped
  <1>2. b \in Bunch /\ \A id : Fits(NewPacket(id), b)
    BY HeadFits DEF OfSizes
  <1>3. /\ x \in Int /\ low \in Int /\ last \in Int /\ rec \in Seq(RecordEntry)
        /\ asm[e] \in Seq(Packet) /\ Ready(e) \in Nat /\ Len(OutPacketQueue[e]) \in Nat
        /\ LastRecordId[e] \in Int
    BY ReadyType
  <1>4. /\ RecordSpan(rec, low, last) /\ low <= last
        /\ asm[e] = << >> => LastRecordId[e] < x
        /\ asm[e] # << >> => LastRecordId[e] = x
    BY DEF AlignedOf, RecordSpan
  <1> HIDE DEF b
  \* How many packets are open, and the marker that was pushed for the last one.
  <1>5. /\ Fits(p, b) /\ ps \in Seq(Packet) /\ ps # << >>
        /\ PacketId(e, b) - (Len(OutPacketQueue[e]) + (Len(ps) - 1)) = x - Ready(e)
        /\ Len(ps) \in Nat
        /\ LastRecordId'[e] = PacketId(e, b)
        /\ \E r \in Seq(RecordEntry) : /\ RecordSpan(r, low, PacketId(e, b))
                                      /\ Record'[e] = Append(r, ChannelOf(c))
        /\ low < PacketId(e, b)
        /\ \/ /\ asm[e] # << >> /\ ps = asm[e] /\ PacketId(e, b) = last
              /\ Record'[e] = Append(rec, ChannelOf(c))
           \/ /\ ps = Append(asm[e], NewPacket(last + 1)) /\ PacketId(e, b) = last + 1
              /\ Record'[e] = Append(Append(rec, Marker(last + 1)), ChannelOf(c))
    <2>1. CASE asm[e] = << >>
      <3>1. Opened(e) = << NewPacket(x) >> /\ LastOf(Opened(e)) = NewPacket(x)
        BY <2>1 DEF Opened, LastOf
      <3>2. ~ IsFull(e, b) /\ PacketId(e, b) = x /\ ps = << NewPacket(x) >>
        BY <1>2, <3>1 DEF IsFull, PacketId, Packets
      <3>3. Fits(p, b)
        BY <1>2, <3>1, <3>2 DEF Packets
      <3>4. Ready(e) = Len(OutPacketQueue[e]) /\ last = x - 1
        BY <1>3, <2>1 DEF Ready, LastId
      <3>5. Len(ps) = 1 /\ ps \in Seq(Packet) /\ ps # << >>
        BY <1>3, <3>2, NewPacketType
      <3>6. Record'[e] = Append(Append(rec, Marker(x)), ChannelOf(c)) /\ LastRecordId'[e] = x
        <4>1. x # LastRecordId[e]
          BY <1>3, <1>4, <2>1
        <4> QED BY <1>1, <1>3, <2>1, <3>2, <4>1
             DEF RecordBunch, PushPacketId, TypeInv, Typed, RecordTyped
      <3>7. RecordSpan(Append(rec, Marker(x)), low, x) /\ Append(rec, Marker(x)) \in Seq(RecordEntry)
        <4>1. last + 1 = x /\ Marker(x) \in RecordEntry
          BY <1>3, <3>4 DEF Marker, RecordEntry
        <4> QED BY <1>3, <1>4, <4>1, MarkerSpan
      <3>8. x - (Len(OutPacketQueue[e]) + (Len(ps) - 1)) = x - Ready(e)
        BY <1>3, <3>4, <3>5
      <3>9. low < x
        BY <1>3, <1>4, <3>4
      <3>10. x = last + 1 /\ ps = Append(asm[e], NewPacket(last + 1))
        <4>1. x = last + 1
          BY <1>3, <3>4
        <4>2. Append(<< >>, NewPacket(x)) = << NewPacket(x) >>
          BY <1>3, NewPacketType
        <4> QED BY <2>1, <3>2, <4>1, <4>2
      <3> HIDE DEF p, ps, last
      <3> QED BY <3>2, <3>3, <3>5, <3>6, <3>7, <3>8, <3>9, <3>10
    <2>2. CASE asm[e] # << >> /\ ~ IsFull(e, b)
      <3>1. Opened(e) = asm[e] /\ ps = asm[e] /\ PacketId(e, b) = x
        BY <2>2 DEF Opened, Packets, PacketId
      <3>2. Fits(p, b)
        BY <2>2, <3>1 DEF IsFull
      <3>3. Ready(e) = Len(OutPacketQueue[e]) + (Len(ps) - 1) /\ last = x
        BY <2>2, <3>1 DEF Ready, LastId
      <3>4. Record'[e] = Append(rec, ChannelOf(c)) /\ LastRecordId'[e] = x
        BY <1>1, <1>3, <1>4, <2>2, <3>1
           DEF RecordBunch, PushPacketId, TypeInv, Typed, RecordTyped
      <3>5. low < x
        <4>1. low < x - Ready(e)
          <5>1. /\ Len(notify[e].AckRecord) = x - Ready(e) - (low + Len(notes[e])) - 1
                /\ Len(notify[e].AckRecord) \in Nat /\ Len(notes[e]) \in Nat
            BY ReadyType DEF AlignedOf
          <5> QED BY <1>3, <5>1
        <4> QED BY <1>3, <4>1
      <3>6. ps \in Seq(Packet) /\ ps # << >> /\ Len(ps) \in Nat
        BY <1>3, <2>2, <3>1
      <3>7. PacketId(e, b) - (Len(OutPacketQueue[e]) + (Len(ps) - 1)) = x - Ready(e)
        BY <3>1, <3>3
      <3> HIDE DEF p, ps
      <3> QED BY <1>3, <1>4, <2>2, <3>1, <3>2, <3>3, <3>4, <3>5, <3>6, <3>7
    <2>3. CASE asm[e] # << >> /\ IsFull(e, b)
      <3>1. Opened(e) = asm[e] /\ PacketId(e, b) = x + 1
            /\ ps = Append(asm[e], NewPacket(x + 1))
        BY <2>3 DEF Opened, Packets, PacketId
      <3>2. ps \in Seq(Packet) /\ ps # << >> /\ Len(ps) = Len(asm[e]) + 1 /\ p = NewPacket(x + 1)
            /\ Len(asm[e]) \in Nat
        <4>1. NewPacket(x + 1) \in Packet
          BY <1>3, NewPacketType
        <4> QED BY <1>3, <3>1, <4>1 DEF LastOf
      <3>3. Fits(p, b)
        BY <1>2, <3>2
      <3>4. Ready(e) = Len(OutPacketQueue[e]) + (Len(asm[e]) - 1) /\ last = x
        BY <2>3 DEF Ready, LastId
      <3>5. Record'[e] = Append(Append(rec, Marker(x + 1)), ChannelOf(c))
            /\ LastRecordId'[e] = x + 1
        <4>1. x + 1 # LastRecordId[e]
          BY <1>3, <1>4, <2>3
        <4> QED BY <1>1, <1>3, <2>3, <3>1, <4>1
             DEF RecordBunch, PushPacketId, TypeInv, Typed, RecordTyped
      <3>6. RecordSpan(Append(rec, Marker(x + 1)), low, x + 1)
            /\ Append(rec, Marker(x + 1)) \in Seq(RecordEntry)
        <4>1. Marker(x + 1) \in RecordEntry
          BY <1>3 DEF Marker, RecordEntry
        <4> QED BY <1>3, <1>4, <3>4, <4>1, MarkerSpan
      <3>7. (x + 1) - (Len(OutPacketQueue[e]) + (Len(ps) - 1)) = x - Ready(e)
        <4>1. \A i, k, o \in Int : (i + 1) - (o + ((k + 1) - 1)) = i - (o + (k - 1))
          OBVIOUS
        <4> DEFINE k == Len(asm[e])
                   o == Len(OutPacketQueue[e])
                   l == Len(ps)
        <4>2. k \in Int /\ o \in Int /\ l = k + 1 /\ Ready(e) = o + (k - 1)
          BY <1>3, <3>2, <3>4
        <4> HIDE DEF k, o, l
        <4>3. (x + 1) - (o + (l - 1)) = x - Ready(e)
          BY <1>3, <4>1, <4>2
        <4> QED BY <4>3 DEF k, o, l
      <3>8. low < x + 1
        BY <1>3, <1>4, <3>4
      <3>9. Len(ps) \in Nat
        BY <3>2
      <3>10. last = x
        BY <3>4
      <3> HIDE DEF p, ps, last
      <3> QED BY <3>1, <3>2, <3>3, <3>5, <3>6, <3>7, <3>8, <3>9, <3>10
    <2> QED BY <2>1, <2>2, <2>3
  <1> HIDE DEF rec, low, last
  <1> QED BY <1>2, <1>5 DEF p, b, ps, rec, low, last

\* PackBunch: a bunch that does not fit opens a packet; the packet's marker comes first.
LEMMA PackBunchAligned ==
  ASSUME UnitsFit, TypeInv, SizesKept, NEW e \in Ep, NEW c \in Channels, PackBunch(e, c),
         AlignedOf(e)
  PROVE  AlignedOf(e)'
  <1> SUFFICES ASSUME ~ closed[e] PROVE AlignedOf(e)'
    BY DEF AlignedOf, PackBunch, ctlVars
  <1> DEFINE b    == Head(OutBunchQueue[e][c])
             ps   == Packets(e, b)
             p    == LastOf(ps)
             x    == OutPacketId[e]
             rec  == Record[e]
             low  == LastNotified[e]
             last == LastId(e)
  <1>1. /\ pc[e] = "assemble" /\ RecordBunch(e, c, b)
        /\ OutPacketId'[e] = PacketId(e, b)
        /\ asm'[e] = IF Fits(p, b)
                     THEN Append(FrontOf(ps), [p EXCEPT !.size = @ + TotalSize(b),
                                                        !.bunches = Append(@, b)])
                     ELSE ps
        /\ UNCHANGED << ctlVars, notify, recvVars, OutPacketQueue >>
    BY DEF PackBunch, TypeInv, Typed, RecordTyped, PacketTyped
  <1>2. b \in Bunch /\ \A id : Fits(NewPacket(id), b)
    BY HeadFits DEF OfSizes
  <1>3. /\ x \in Int /\ low \in Int /\ last \in Int /\ rec \in Seq(RecordEntry)
        /\ asm[e] \in Seq(Packet) /\ Ready(e) \in Nat /\ Len(OutPacketQueue[e]) \in Nat
        /\ LastRecordId[e] \in Int
    BY ReadyType
  <1> HIDE DEF b
  <1>5. /\ Fits(p, b) /\ ps \in Seq(Packet) /\ ps # << >>
        /\ PacketId(e, b) - (Len(OutPacketQueue[e]) + (Len(ps) - 1)) = x - Ready(e)
        /\ LastRecordId'[e] = PacketId(e, b)
        /\ \E r \in Seq(RecordEntry) : /\ RecordSpan(r, low, PacketId(e, b))
                                      /\ Record'[e] = Append(r, ChannelOf(c))
        /\ low < PacketId(e, b)
    BY PackBunchOpens DEF b
  <1>6. PICK r \in Seq(RecordEntry) : /\ RecordSpan(r, low, PacketId(e, b))
                                    /\ Record'[e] = Append(r, ChannelOf(c))
    BY <1>5
  <1>7. PacketId(e, b) \in Int
    BY PacketIdType DEF TypeInv
  <1>8. RecordSpan(Record'[e], low, PacketId(e, b))
    BY <1>3, <1>5, <1>6, <1>7, ChannelSpan
  <1>9. /\ asm'[e] # << >> /\ Len(asm'[e]) = Len(ps) /\ LastOf(asm'[e]).bunches # << >>
    <2> DEFINE q == [p EXCEPT !.size = @ + TotalSize(b), !.bunches = Append(@, b)]
    <2>1. p \in Packet /\ FrontOf(ps) \in Seq(Packet) /\ Len(FrontOf(ps)) = Len(ps) - 1
          /\ Len(ps) \in Nat
      <3> HIDE DEF ps
      <3> QED BY <1>5, Parts
    <2>2. q \in Packet /\ q.bunches = Append(p.bunches, b) /\ p.bunches \in Seq(Bunch)
      <3>1. TotalSize(b) \in Nat /\ p.size \in Nat /\ p.bunches \in Seq(Bunch)
        BY <1>2, <2>1, ConnectionAssumption DEF TotalSize, Bunch, Packet
      <3>2. Append(p.bunches, b) \in Seq(Bunch) /\ p.size + TotalSize(b) \in Nat
        BY <1>2, <3>1
      <3> HIDE DEF p
      <3>3. DOMAIN p = {"id", "size", "bunches"}
        BY <2>1 DEF Packet
      <3> QED BY <2>1, <3>1, <3>2, <3>3 DEF Packet
    <2>3. asm'[e] = Append(FrontOf(ps), q)
      BY <1>1, <1>5
    <2> HIDE DEF q, p, ps
    <2>4. Len(asm'[e]) = Len(ps) /\ asm'[e][Len(ps)] = q /\ asm'[e] # << >>
      BY <2>1, <2>2, <2>3, SMTT(30)
    <2>5. q.bunches # << >>
      BY <1>2, <2>2
    <2> QED BY <2>4, <2>5 DEF LastOf
  <1>10. LastId(e)' = PacketId(e, b)
    BY <1>1, <1>9 DEF LastId
  <1>11. Ready(e)' = Len(OutPacketQueue[e]) + (Len(ps) - 1)
    BY <1>1, <1>9 DEF Ready
  <1>12. OutPacketId'[e] - Ready(e)' = x - Ready(e)
    BY <1>1, <1>5, <1>11
  <1> HIDE DEF ps, p, last
  <1> QED BY <1>1, <1>5, <1>8, <1>9, <1>10, <1>12 DEF AlignedOf, ctlVars, recvVars

\* FinishAssembly: the open packet is never empty, it is queued with the others.
LEMMA FinishAligned ==
  ASSUME TypeInv, NEW e \in Ep, FinishAssembly(e), AlignedOf(e)
  PROVE  AlignedOf(e)'
  <1> SUFFICES ASSUME ~ closed[e] PROVE AlignedOf(e)'
    BY DEF AlignedOf, FinishAssembly
  <1> DEFINE a == asm[e]
             q == OutPacketQueue[e]
             x == OutPacketId[e]
  <1>1. /\ x \in Int /\ LastNotified[e] \in Int /\ a \in Seq(Packet) /\ q \in Seq(Packet)
        /\ LastRecordId[e] \in Int
    BY ReadyType
  <1>2. /\ asm'[e] = << >> /\ pc'[e] = "idle"
        /\ UNCHANGED << closed, notify, recvVars, recVars >>
        /\ pc[e] = "assemble"
    BY DEF FinishAssembly, TypeInv, Typed, CtlTyped, PacketTyped
  <1>3. CASE a = << >>
    <2>1. OutPacketQueue'[e] = q \o << >> /\ OutPacketId'[e] = x
      BY <1>3 DEF FinishAssembly, TypeInv, Typed, PacketTyped, RecordTyped
    <2>2. q \o << >> = q
      BY <1>1
    <2>3. Ready(e)' = Ready(e) /\ LastId(e)' = LastId(e)
      BY <1>2, <1>3, <2>1, <2>2 DEF Ready, LastId
    <2> QED BY <1>2, <1>3, <2>1, <2>3 DEF AlignedOf, recvVars, recVars
  <1>4. CASE a # << >>
    <2>1. LastOf(a).bunches # << >> /\ LastRecordId[e] = x
      BY <1>4 DEF AlignedOf
    <2>2. OutPacketQueue'[e] = q \o a /\ OutPacketId'[e] = x + 1
      BY <1>4, <2>1 DEF FinishAssembly, TypeInv, Typed, PacketTyped, RecordTyped
    <2>3. Len(q \o a) = Len(q) + Len(a) /\ Len(q) \in Nat /\ Len(a) \in Nat
      BY <1>1, ConcatElements
    <2>4. Ready(e)' = Len(q) + Len(a) /\ LastId(e)' = (x + 1) - 1
      BY <1>2, <2>2, <2>3 DEF Ready, LastId
    <2>5. Ready(e) = Len(q) + (Len(a) - 1) /\ LastId(e) = x
      BY <1>4 DEF Ready, LastId
    <2>6. OutPacketId'[e] - Ready(e)' = x - Ready(e) /\ LastId(e)' = LastId(e)
          /\ LastRecordId[e] < OutPacketId'[e]
      <3> DEFINE k == Len(q)
                 l == Len(a)
      <3>1. /\ k \in Int /\ l \in Int /\ x \in Int
            /\ Ready(e)' = k + l /\ Ready(e) = k + (l - 1)
        BY <1>1, <2>3, <2>4, <2>5
      <3> HIDE DEF k, l, x
      <3>2. (x + 1) - 1 = x /\ x < x + 1
        BY <3>1
      <3>3. (x + 1) - (k + l) = x - (k + (l - 1))
        BY <3>1
      <3> QED BY <2>1, <2>2, <2>4, <2>5, <3>1, <3>2, <3>3
    <2> QED BY <1>2, <1>4, <2>6 DEF AlignedOf, recvVars, recVars
  <1> QED BY <1>3, <1>4

\* SendKeepAlive: a marker for a packet without bunches.
LEMMA KeepAliveAligned ==
  ASSUME TypeInv, NEW e \in Ep, SendKeepAlive(e), AlignedOf(e)
  PROVE  AlignedOf(e)'
  <1> SUFFICES ASSUME ~ closed[e] PROVE AlignedOf(e)'
    BY DEF AlignedOf, SendKeepAlive
  <1> DEFINE q == OutPacketQueue[e]
             x == OutPacketId[e]
             p == [id |-> x, size |-> PacketHeaderSize, bunches |-> << >>]
  <1>1. /\ x \in Int /\ LastNotified[e] \in Int /\ q \in Seq(Packet) /\ LastId(e) \in Int
        /\ LastRecordId[e] \in Int /\ Record[e] \in Seq(RecordEntry)
    BY ReadyType
  <1>2. /\ pc[e] = "keepalive" /\ pc'[e] = "idle" /\ OutPacketQueue'[e] = Append(q, p)
        /\ OutPacketId'[e] = x + 1 /\ LastRecordId'[e] = x
        /\ Record'[e] = PushPacketId(Record[e], LastRecordId[e], x)
        /\ UNCHANGED << closed, notify, recvVars, asm >>
    BY DEF SendKeepAlive, TypeInv, Typed, CtlTyped, PacketTyped, RecordTyped
  <1>3. asm[e] = << >> /\ LastRecordId[e] < x /\ RecordSpan(Record[e], LastNotified[e], x - 1)
    <2>1. asm[e] = << >>
      BY <1>2 DEF AlignedOf
    <2> QED BY <2>1 DEF AlignedOf, LastId
  <1>4. RecordSpan(Record'[e], LastNotified[e], x)
    <2>1. Record'[e] = Append(Record[e], Marker(x))
      BY <1>1, <1>2, <1>3 DEF PushPacketId
    <2>2. (x - 1) + 1 = x /\ x - 1 \in Int
      BY <1>1
    <2>3. RecordSpan(Append(Record[e], Marker((x - 1) + 1)), LastNotified[e], (x - 1) + 1)
      BY <1>1, <1>3, <2>2, MarkerSpan
    <2> QED BY <2>1, <2>2, <2>3
  <1>5. Ready(e)' = Ready(e) + 1
    <2>1. Len(Append(q, p)) = Len(q) + 1 /\ Len(q) \in Nat
      BY <1>1
    <2> HIDE DEF p
    <2> QED BY <1>2, <1>3, <2>1 DEF Ready
  <1>6. LastId(e)' = x /\ LastRecordId'[e] < OutPacketId'[e]
    BY <1>1, <1>2, <1>3 DEF LastId
  <1>7. OutPacketId'[e] - Ready(e)' = x - Ready(e)
    <2>1. \A i, j \in Int : (i + 1) - (j + 1) = i - j
      OBVIOUS
    <2>2. x \in Int /\ Ready(e) \in Int
      BY ReadyType
    <2> QED BY <1>2, <1>5, <2>1, <2>2
  <1> QED BY <1>2, <1>3, <1>4, <1>6, <1>7 DEF AlignedOf, recvVars

\* SendPacket: one packet less that is ready, one more in flight.
LEMMA SendPacketAligned ==
  ASSUME TypeInv, NEW e \in Ep, SendPacket(e), AlignedOf(e)
  PROVE  AlignedOf(e)'
  <1> SUFFICES ASSUME ~ closed[e] PROVE AlignedOf(e)'
    BY DEF AlignedOf, SendPacket
  <1> DEFINE q == OutPacketQueue[e]
             x == OutPacketId[e]
             n == notify[e]
             m == CommitAndIncrementOutSeq(n)
             sent == x - Ready(e)
             reported == LastNotified[e] + Len(notes[e])
  <1>1. /\ x \in Int /\ LastNotified[e] \in Int /\ q \in Seq(Packet) /\ LastId(e) \in Int
        /\ n \in Notify /\ Ready(e) \in Nat /\ sent \in Int /\ reported \in Int
    BY ReadyType
  <1>2. /\ pc[e] = "flush" /\ pc'[e] \in {"flush", "idle"} /\ OutPacketQueue'[e] = Tail(q)
        /\ q # << >> /\ notify'[e] = m
        /\ UNCHANGED << closed, recvVars, OutPacketId, asm, recVars >>
    BY DEF SendPacket, TypeInv, Typed, CtlTyped, PacketTyped, NotifyTyped, LoopsGuarded
  <1>3. /\ asm[e] = << >> /\ notes[e] = << >> /\ ToSeq(sent) = n.OutSeq
        /\ Len(n.AckRecord) = sent - reported - 1
    BY <1>2 DEF AlignedOf
  <1>4. /\ m.InSeq = n.InSeq /\ m.OutAckSeq = n.OutAckSeq /\ m.OutSeq = Increment(n.OutSeq)
        /\ Len(m.AckRecord) = Len(n.AckRecord) + 1 /\ Len(n.AckRecord) \in Nat
    <2>1. n.AckRecord \in Seq(SeqNums \X SeqNums)
      BY <1>1, NotifyFields
    <2>2. << n.OutSeq, n.InAckSeq >> \in SeqNums \X SeqNums
      BY <1>1, NotifyFields
    <2>3. Len(Append(n.AckRecord, << n.OutSeq, n.InAckSeq >>)) = Len(n.AckRecord) + 1
      BY <2>1, <2>2
    <2>4. /\ m.AckRecord = Append(n.AckRecord, << n.OutSeq, n.InAckSeq >>)
          /\ m.InSeq = n.InSeq /\ m.OutAckSeq = n.OutAckSeq /\ m.OutSeq = Increment(n.OutSeq)
      BY <1>1 DEF CommitAndIncrementOutSeq, Notify
    <2> QED BY <2>1, <2>3, <2>4
  <1>5. Ready(e)' = Ready(e) - 1
    <2>1. Len(Tail(q)) = Len(q) - 1 /\ Len(q) \in Nat \ {0}
      BY <1>1, <1>2, Parts
    <2>2. Ready(e) = Len(q) + 0 /\ Ready(e)' = Len(Tail(q)) + 0
      BY <1>2, <1>3 DEF Ready
    <2> QED BY <2>1, <2>2
  <1> HIDE DEF m
  <1>6. OutPacketId'[e] - Ready(e)' = sent + 1
    <2>1. \A i, j \in Int : i - (j - 1) = (i - j) + 1
      OBVIOUS
    <2>2. x \in Int /\ Ready(e) \in Int
      BY ReadyType
    <2> QED BY <1>2, <1>5, <2>1, <2>2
  <1>7. ToSeq(sent + 1) = m.OutSeq
    <2>1. -SeqHalf < sent - sent /\ sent - sent < SeqHalf
      BY <1>1, HalfIsHalf
    <2> QED BY <1>1, <1>3, <1>4, <2>1, OrderIsCounting
  <1>8. Len(m.AckRecord) = (sent + 1) - reported - 1
    <2>1. \A i, j \in Int : (i - j - 1) + 1 = (i + 1) - j - 1
      OBVIOUS
    <2> HIDE DEF sent, reported
    <2> QED BY <1>1, <1>3, <1>4, <2>1
  <1>9. LastId(e)' = LastId(e)
    BY <1>2 DEF LastId
  <1> QED BY <1>2, <1>3, <1>4, <1>6, <1>7, <1>8, <1>9 DEF AlignedOf, recvVars, recVars

\* Every other step leaves the packets of a side alone, or closes it.
LEMMA OthersAlignQuiet ==
  ASSUME TypeInv, NEW e \in Ep, [Next]_vars,
         \A p \in net[e] : ~ ReceiveNew(e, p),
         ~ HandlePacketNotification(e), ~ FinishAssembly(e), ~ SendKeepAlive(e),
         ~ SendPacket(e),
         \A c \in Channels : ~ PackBunch(e, c)
  PROVE  AlignQuiet(e) \/ closed'[e]
  <1> USE DEF TypeInv, Typed, CtlTyped, NotifyTyped, RecordTyped, PacketTyped
  <1>1. CASE UNCHANGED vars
    BY <1>1 DEF AlignQuiet, vars, ctlVars, recvVars, sendVars, recVars
  <1>2. ASSUME NEW d \in Ep, Submit(d) PROVE AlignQuiet(e)
    BY <1>2 DEF AlignQuiet, Submit, SendNetMessage, ctlVars, recvVars, sendVars, recVars
  <1>3. ASSUME NEW d \in Ep, ReceivedPacket(d) PROVE AlignQuiet(e)
    <2>1. PICK p \in net[d] : ReceiveOld(d, p) \/ ReceiveNew(d, p)
      BY <1>3 DEF ReceivedPacket
    <2>2. CASE ReceiveOld(d, p)
      BY <2>2 DEF AlignQuiet, ReceiveOld, ctlVars, recvVars, sendVars, recVars
    <2>3. CASE ReceiveNew(d, p)
      <3>1. d # e
        BY <2>3
      <3>2. /\ closed' = closed /\ pc'[e] = pc[e] /\ notify'[e] = notify[e]
            /\ InPacketId'[e] = InPacketId[e] /\ notes'[e] = notes[e]
            /\ LastNotified' = LastNotified /\ UNCHANGED << sendVars, recVars >>
        BY <2>3, <3>1 DEF ReceiveNew
      <3> QED BY <3>2 DEF AlignQuiet, sendVars, recVars
    <2> QED BY <2>1, <2>2, <2>3
  <1>4. ASSUME NEW d \in Ep, HandlePacketNotification(d) PROVE AlignQuiet(e)
    <2>1. d # e
      BY <1>4
    <2>2. /\ closed'[e] = closed[e] /\ pc'[e] = pc[e] /\ notify'[e] = notify[e]
          /\ InPacketId'[e] = InPacketId[e] /\ notes'[e] = notes[e]
          /\ LastNotified'[e] = LastNotified[e] /\ UNCHANGED sendVars
          /\ Record'[e] = Record[e] /\ LastRecordId' = LastRecordId
      BY <1>4, <2>1 DEF HandlePacketNotification, Close
    <2> QED BY <2>2 DEF AlignQuiet, sendVars
  <1>5. ASSUME NEW d \in Ep, ForceRetransmitAllUnAcked(d) PROVE AlignQuiet(e)
    BY <1>5 DEF AlignQuiet, ForceRetransmitAllUnAcked, ForceRetransmit, RetransmitDone,
       ctlVars, recvVars, sendVars, recVars
  <1>6. ASSUME NEW d \in Ep, TickDispatch(d) PROVE AlignQuiet(e)
    BY <1>6 DEF AlignQuiet, TickDispatch, Idle, recvVars, sendVars, recVars
  <1>7. ASSUME NEW d \in Ep, DispatchPendingPacket(d) PROVE AlignQuiet(e)
    <2>1. CASE BufferBunch(d) \/ DispatchBunch(d)
      BY <2>1 DEF AlignQuiet, BufferBunch, DispatchBunch, ctlVars, sendVars, recVars
    <2>2. CASE AckPacket(d)
      <3>1. \A n \in Notify, t \in SeqNums :
              LET m == AckSeq(n, t, TRUE)
              IN  /\ m.InSeq = n.InSeq /\ m.OutSeq = n.OutSeq
                  /\ m.OutAckSeq = n.OutAckSeq /\ m.AckRecord = n.AckRecord
        BY DEF AckSeq, Notify
      <3>2. notify'[e] = notify[e] \/ notify'[e] = AckSeq(notify[e], ToSeq(InPacketId[e]), TRUE)
        BY <2>2 DEF AckPacket
      <3>3. ToSeq(InPacketId[e]) \in SeqNums /\ notify[e] \in Notify
        BY ToSeqType
      <3>4. /\ notify'[e].InSeq = notify[e].InSeq /\ notify'[e].OutSeq = notify[e].OutSeq
            /\ notify'[e].OutAckSeq = notify[e].OutAckSeq
            /\ notify'[e].AckRecord = notify[e].AckRecord
        <4> HIDE DEF TypeInv, Typed, CtlTyped, NotifyTyped, RecordTyped, PacketTyped
        <4> DEFINE v == notify'[e]
        <4> HIDE DEF v
        <4>1. v = notify[e] \/ v = AckSeq(notify[e], ToSeq(InPacketId[e]), TRUE)
          BY <3>2 DEF v
        <4>2. /\ v.InSeq = notify[e].InSeq /\ v.OutSeq = notify[e].OutSeq
              /\ v.OutAckSeq = notify[e].OutAckSeq /\ v.AckRecord = notify[e].AckRecord
          <5>1. CASE v = notify[e]
            BY <5>1
          <5>2. CASE v = AckSeq(notify[e], ToSeq(InPacketId[e]), TRUE)
            <6>1. PICK n \in Notify, t \in SeqNums : n = notify[e] /\ t = ToSeq(InPacketId[e])
              BY <3>3
            <6>2. PICK m : m = AckSeq(n, t, TRUE)
              OBVIOUS
            <6>3. /\ m.InSeq = n.InSeq /\ m.OutSeq = n.OutSeq
                  /\ m.OutAckSeq = n.OutAckSeq /\ m.AckRecord = n.AckRecord
              BY <3>1, <6>2
            <6> QED BY <5>2, <6>1, <6>2, <6>3
          <5> QED BY <4>1, <5>1, <5>2
        <4> QED BY <4>2 DEF v
      <3>5. UNCHANGED << ctlVars, InPacketId, notes, LastNotified, sendVars, recVars >>
        BY <2>2 DEF AckPacket
      <3> QED BY <3>4, <3>5 DEF AlignQuiet, ctlVars, sendVars, recVars
    <2> QED BY <1>7, <2>1, <2>2 DEF DispatchPendingPacket
  <1>8. ASSUME NEW d \in Ep, TickChannels(d) PROVE AlignQuiet(e)
    BY <1>8 DEF AlignQuiet, TickChannels, recvVars, sendVars, recVars
  <1>9. ASSUME NEW d \in Ep, AssembleOutgoingPackets(d) PROVE AlignQuiet(e) \/ closed'[e]
    <2>1. CASE NothingToSend(d)
      BY <2>1 DEF AlignQuiet, NothingToSend, recvVars, sendVars, recVars
    <2>2. CASE FinishAssembly(d)
      BY <2>2 DEF AlignQuiet, FinishAssembly, recvVars, recVars
    <2>3. CASE SendKeepAlive(d)
      BY <2>3 DEF AlignQuiet, SendKeepAlive, recvVars
    <2>4. ASSUME NEW c \in Channels, DiscardBunch(d, c) PROVE AlignQuiet(e)
      BY <2>4 DEF AlignQuiet, DiscardBunch, ctlVars, recvVars, sendVars, recVars
    <2>5. ASSUME NEW c \in Channels, PackBunch(d, c) PROVE AlignQuiet(e)
      <3>1. d # e
        BY <2>5
      <3> QED BY <2>5, <3>1 DEF AlignQuiet, PackBunch, RecordBunch, ctlVars, recvVars
    <2>6. ASSUME NEW c \in Channels, OverflowReliableBuffer(d, c)
          PROVE  AlignQuiet(e) \/ closed'[e]
      <3>1. CASE d = e
        BY <2>6, <3>1 DEF OverflowReliableBuffer, Close
      <3>2. CASE d # e
        <4>1. /\ closed'[e] = closed[e] /\ pc'[e] = pc[e] /\ UNCHANGED << notify, recvVars >>
              /\ UNCHANGED OutPacketQueue /\ asm'[e] = asm[e] /\ OutPacketId'[e] = OutPacketId[e]
              /\ Record'[e] = Record[e] /\ LastRecordId'[e] = LastRecordId[e]
          BY <2>6, <3>2 DEF OverflowReliableBuffer, RecordBunch, Close
        <4> QED BY <4>1 DEF AlignQuiet, recvVars
      <3> QED BY <3>1, <3>2
    <2> QED BY <1>9, <2>1, <2>2, <2>3, <2>4, <2>5, <2>6 DEF AssembleOutgoingPackets
  <1>10. ASSUME NEW d \in Ep, TickFlush(d) PROVE AlignQuiet(e)
    BY <1>10 DEF AlignQuiet, TickFlush, Idle, recvVars, sendVars, recVars
  <1>11. ASSUME NEW d \in Ep, SendPacket(d) PROVE AlignQuiet(e)
    <2>1. d # e
      BY <1>11
    <2>2. /\ notify'[e] = notify[e] /\ pc'[e] = pc[e] /\ OutPacketQueue'[e] = OutPacketQueue[e]
          /\ UNCHANGED << closed, recvVars, OutPacketId, asm, recVars >>
      BY <1>11, <2>1 DEF SendPacket
    <2> QED BY <2>2 DEF AlignQuiet, recvVars, recVars
  <1> QED BY <1>1, <1>2, <1>3, <1>4, <1>5, <1>6, <1>7, <1>8, <1>9, <1>10, <1>11 DEF Next

\* TickFlush of a channel makes bunches of the sizes that were submitted.
LEMMA SizesStep ==
  ASSUME TypeInv, SizesKept, [Next]_vars PROVE SizesKept'
  <1> DEFINE B == [e \in Ep |-> OfSizes]
  <1>1. ASSUME NEW e \in Ep, NEW c \in Channels
        PROVE  SealedBunches(c, OutReliable[e][c], Submitted[e][c]) \in Seq(B[e])
    <2> DEFINE sizes == Submitted[e][c]
               new == SealedBunches(c, OutReliable[e][c], sizes)
    <2>1. sizes \in Seq(Sizes) /\ OutReliable[e][c] \in Int /\ Sizes \subseteq Nat
      BY SealedTypes, ConnectionAssumption DEF SizesKept, PerChannel
    <2> HIDE DEF sizes
    <2>2. \A i \in 1 .. Len(sizes) : sizes[i] \in Sizes /\ sizes[i] \in Nat
      <3>1. \A i \in 1 .. Len(sizes) : sizes[i] \in Sizes
        BY <2>1
      <3> QED BY <2>1, <3>1
    <2>3. \A i \in 1 .. Len(sizes) :
            [ch |-> c, seq |-> OutReliable[e][c] + i, size |-> sizes[i]] \in OfSizes
      BY <2>1, <2>2 DEF OfSizes, Bunch
    <2> QED BY <2>1, <2>3 DEF SealedBunches, sizes
  <1>2. Carried(B)'
    <2> HIDE DEF B
    <2>1. Carried(B)
      BY DEF SizesKept, B
    <2>2. B = B'
      BY DEF B
    <2> QED BY <1>1, <2>1, <2>2, CarriedStep
  <1>3. Submitted' \in PerChannel(Seq(Sizes))
    <2> USE DEF SizesKept
    <2>1. CASE UNCHANGED Submitted
      BY <2>1
    <2>2. ASSUME NEW e \in Ep, NEW c \in Channels, NEW size \in Sizes,
                 SendNetMessage(e, c, size)
          PROVE  Submitted' \in PerChannel(Seq(Sizes))
      <3>1. Append(Submitted[e][c], size) \in Seq(Sizes)
        BY ChannelValue
      <3> QED BY <2>2, <3>1, ChannelUpdate DEF SendNetMessage
    <2>3. ASSUME NEW e \in Ep, TickChannels(e) PROVE Submitted' \in PerChannel(Seq(Sizes))
      <3>1. Submitted' = [Submitted EXCEPT ![e] = [c \in Channels |-> << >>]]
        BY <2>3 DEF TickChannels
      <3>2. [c \in Channels |-> << >>] \in [Channels -> Seq(Sizes)]
        OBVIOUS
      <3> QED BY <3>1, <3>2, ChannelsUpdate
    <2> QED BY <2>1, <2>2, <2>3, SubmittedGrows DEF Submit
  <1> QED BY <1>2, <1>3 DEF SizesKept

\* Every step of the system keeps the three counters of both sides aligned.
LEMMA AlignStep ==
  ASSUME UnitsFit, AlignInv, InFlightWindow, [Next]_vars PROVE AlignInv'
  <1> USE DEF AlignInv
  <1>1. TypeInv' /\ SizesKept'
    BY TypeInvStep, SizesStep
  <1>2. ASSUME NEW e \in Ep PROVE AlignedOf(e)'
    <2>1. CASE \E p \in net[e] : ReceiveNew(e, p)
      BY <2>1, ReceiveNewAligned
    <2>2. CASE \E c \in Channels : PackBunch(e, c)
      BY <2>2, PackBunchAligned
    <2>3. CASE HandlePacketNotification(e)
      BY <2>3, NotificationAligned
    <2>4. CASE FinishAssembly(e)
      BY <2>4, FinishAligned
    <2>5. CASE SendKeepAlive(e)
      BY <2>5, KeepAliveAligned
    <2>6. CASE SendPacket(e)
      BY <2>6, SendPacketAligned
    <2>7. CASE AlignQuiet(e) \/ closed'[e]
      BY <2>7, AlignQuietStep DEF AlignedOf
    <2> QED BY <2>1, <2>2, <2>3, <2>4, <2>5, <2>6, <2>7, OthersAlignQuiet
  <1> QED BY <1>1, <1>2

\* The handshake starts the counters of both sides aligned.
LEMMA InitAligned == Init => AlignInv
  <1> SUFFICES ASSUME Init PROVE AlignInv
    OBVIOUS
  <1>1. TypeInv
    BY InitTyped
  <1>2. SizesKept
    <2>1. \A S : << >> \in Seq(S) /\ EmptyMap \in MapTo(S)
      BY EmptyMapType
    <2>2. \A e \in Ep : Peer(e) \in Ep
      BY PeerType
    <2> QED BY <2>1, <2>2 DEF Init, SizesKept, Carried, QueuesCarry, PacketsCarry,
                           DatagramsCarry, PerChannel
  <1>3. ASSUME NEW e \in Ep PROVE AlignedOf(e)
    <2> DEFINE s == InitSeq[e]
               r == InitSeq[Peer(e)]
    <2>1. s \in SeqNums /\ r \in SeqNums /\ s \in Int /\ r \in Int /\ s >= 0
      <3>1. s \in SeqNums /\ r \in SeqNums
        BY ConnectionAssumption, PeerType
      <3> QED BY <3>1, SeqNumsAreInt DEF SeqNums
    <2>2. /\ notify[e] = NotifyInit(r - 1, s) /\ InPacketId[e] = r - 1
          /\ LastNotified[e] = s - 1 /\ OutPacketId[e] = s /\ LastRecordId[e] = -1
          /\ notes[e] = << >> /\ OutPacketQueue[e] = << >> /\ asm[e] = << >>
          /\ Record[e] = << >>
      BY DEF Init
    <2>3. /\ notify[e].InSeq = ToSeq(r - 1) /\ notify[e].OutSeq = ToSeq(s)
          /\ notify[e].OutAckSeq = ToSeq(s - 1) /\ notify[e].AckRecord = << >>
      BY <2>2 DEF NotifyInit
    <2>4. Ready(e) = 0 /\ LastId(e) = s - 1
      BY <2>1, <2>2 DEF Ready, LastId
    <2>5. RecordSpan(<< >>, s - 1, s - 1)
      <3>1. Marks(<< >>) = {}
        BY DEF Marks
      <3>2. (s - 1) + 1 .. s - 1 = {}
        BY <2>1
      <3> QED BY <2>1, <3>1, <3>2 DEF RecordSpan
    <2> HIDE DEF s, r
    <2>6. OutPacketId[e] - Ready(e) = s /\ LastNotified[e] + Len(notes[e]) = s - 1
      BY <2>1, <2>2, <2>4
    <2>7. Len(notify[e].AckRecord) = s - (s - 1) - 1
      BY <2>1, <2>3
    <2>8. LastRecordId[e] < OutPacketId[e]
      BY <2>1, <2>2
    <2> QED BY <2>2, <2>3, <2>4, <2>5, <2>6, <2>7, <2>8 DEF AlignedOf
  <1> QED BY <1>1, <1>2, <1>3 DEF AlignInv

\* What the invariant says in terms of the counters the code keeps.
LEMMA AlignImpliesIds == AlignInv /\ InFlightWindow => IdsAligned
  <1> SUFFICES ASSUME AlignInv, InFlightWindow, NEW e \in Ep, ~ closed[e]
               PROVE  LET n == notify[e]
                          ready == Len(OutPacketQueue[e])
                                     + (IF asm[e] = << >> THEN 0 ELSE Len(asm[e]) - 1)
                          last == IF asm[e] = << >> THEN OutPacketId[e] - 1
                                                    ELSE OutPacketId[e]
                          rec == Record[e]
                          marks == {i \in DOMAIN rec : rec[i].isSequence}
                      IN  /\ ToSeq(InPacketId[e]) = n.InSeq
                          /\ ToSeq(LastNotified[e] + Len(notes[e])) = n.OutAckSeq
                          /\ ToSeq(OutPacketId[e] - ready) = n.OutSeq
                          /\ Len(n.AckRecord) = Diff(n.OutSeq, n.OutAckSeq) - 1
                          /\ LastNotified[e] <= last
                          /\ {rec[i].value : i \in marks} = LastNotified[e] + 1 .. last
                          /\ \A i, j \in marks : i < j => rec[i].value < rec[j].value
    BY DEF IdsAligned
  <1> DEFINE sent == OutPacketId[e] - Ready(e)
             reported == LastNotified[e] + Len(notes[e])
             k == Len(notify[e].AckRecord)
  <1>1. /\ ToSeq(InPacketId[e]) = notify[e].InSeq /\ ToSeq(sent) = notify[e].OutSeq
        /\ ToSeq(reported) = notify[e].OutAckSeq /\ k = sent - reported - 1
        /\ RecordSpan(Record[e], LastNotified[e], LastId(e))
    BY DEF AlignInv, AlignedOf
  <1>2. sent \in Int /\ reported \in Int /\ k \in Nat /\ k + 1 < SeqHalf
    BY ReadyType DEF AlignInv, InFlightWindow
  <1> HIDE DEF sent, reported, k
  <1>3. Diff(notify[e].OutSeq, notify[e].OutAckSeq) = sent - reported
    <2>1. -SeqHalf < sent - reported /\ sent - reported < SeqHalf
      BY <1>1, <1>2, HalfIsHalf
    <2> QED BY <1>1, <1>2, <2>1, OrderIsCounting
  <1>4. k = Diff(notify[e].OutSeq, notify[e].OutAckSeq) - 1
    BY <1>1, <1>2, <1>3
  <1> QED BY <1>1, <1>4 DEF RecordSpan, Marks, Ready, LastId, sent, reported, k

\* For all sizes, buffers and traffic that satisfy UnitsFit, as long as fewer packets are
\* in flight than half the sequence space: packet ids, sequence numbers, the AckRecord
\* of PacketNotify and the markers of the channel record count the same packets, so
\* ConsumeChannelRecordsForPacket finds the packet it looks for at the front and the
\* desync Close in RecivedAck and RecivedNack is never reached.
THEOREM CountersNeverDrift ==
  ASSUME UnitsFit
  PROVE  Spec /\ []InFlightWindow => []IdsAligned
  <1>1. Init => AlignInv
    BY InitAligned
  <1>2. AlignInv /\ InFlightWindow /\ [Next]_vars => AlignInv'
    BY AlignStep
  <1>3. AlignInv /\ InFlightWindow => IdsAligned
    BY AlignImpliesIds
  <1> QED BY <1>1, <1>2, <1>3, PTL DEF Spec
=============================================================================
