-------------------------- MODULE NetPacketNotify --------------------------
(***************************************************************************)
(* NetPacketNotify: the acknowledgement state one side of a connection     *)
(* keeps, as operators on a record.  A packet's header carries its own     *)
(* sequence number, the newest sequence number its sender has processed    *)
(* and a bit history of the ones before it; reading a header tells the     *)
(* receiver, for each of its own packets in order, delivered or not.       *)
(*                                                                         *)
(*   InSeq        newest sequence number received                          *)
(*   InAckSeq     newest received number that was acked or nacked          *)
(*   InAckSeqAck  newest such number the other side is known to have seen  *)
(*   Waiting      WaitingForFlushSeqAck                                    *)
(*   OutSeq       sequence number of the next packet to send               *)
(*   OutAckSeq    newest own number the other side reported on             *)
(*   AckRecord    per packet in flight: its OutSeq and the InAckSeq in it  *)
(*   History      InSeqHistory, index 0 is InAckSeq itself                 *)
(***************************************************************************)
EXTENDS Sequences, SequenceNumber

CONSTANTS HistorySize,   \* bits of TSequenceHistory, 256 in the code
          BitsPerWord,   \* bits of one word of it, 32 in the code
          HeaderWords    \* words that fit the fixed 10-byte header, 1 in the code

ASSUME HistoryAssumption ==
    /\ HistorySize \in Nat \ {0} /\ BitsPerWord \in Nat \ {0}
    /\ HeaderWords \in Nat \ {0}
    /\ HistorySize % BitsPerWord = 0

HistoryIndex == 0 .. HistorySize - 1
WordCount    == HistorySize \div BitsPerWord

Notify ==
    [ InSeq: SeqNums, InAckSeq: SeqNums, InAckSeqAck: SeqNums, Waiting: SeqNums,
      OutSeq: SeqNums, OutAckSeq: SeqNums,
      AckRecord: Seq(SeqNums \X SeqNums), History: [HistoryIndex -> BOOLEAN] ]

Header ==
    [ seq: SeqNums, acked: SeqNums, words: 1 .. WordCount,
      history: [HistoryIndex -> BOOLEAN] ]

\* Init: the numbers two peers agreed on in the handshake.
NotifyInit(in, out) ==
    [ InSeq |-> ToSeq(in), InAckSeq |-> ToSeq(in), InAckSeqAck |-> ToSeq(in),
      Waiting |-> ToSeq(out - 1), OutSeq |-> ToSeq(out),
      OutAckSeq |-> ToSeq(out - 1), AckRecord |-> << >>,
      History |-> [i \in HistoryIndex |-> FALSE] ]

IsWaitingForSequenceHistoryFlush(n) == Greater(n.Waiting, n.OutAckSeq)

-----------------------------------------------------------------------------
(* The receive history.                                                    *)

\* GetCurrentSequenceHistoryLength: how much of the history the other side
\* has not yet been seen to know.
HistoryLength(n) ==
    IF GreaterEq(n.InAckSeq, n.InAckSeqAck) /\ Diff(n.InAckSeq, n.InAckSeqAck) < HistorySize
    THEN Diff(n.InAckSeq, n.InAckSeqAck)
    ELSE HistorySize

HasUnacknowledgedAcks(n) == \E i \in 0 .. HistoryLength(n) - 1 : n.History[i]

WillSequenceFit(n, seq) ==
    GreaterEq(seq, n.InAckSeqAck) /\ Diff(seq, n.InAckSeqAck) <= HistorySize

\* Variant: the numbers passed over get the status of seq.
AckSeq_AllAlike(n, seq, isAck) ==
    IF ~ Greater(seq, n.InAckSeq) THEN n
    ELSE LET k == Diff(seq, n.InAckSeq)
         IN  [n EXCEPT !.InAckSeq = seq,
                       !.History = [i \in HistoryIndex |->
                                      IF i < k THEN isAck ELSE n.History[i - k]]]

\* AckSeq(seq, isAck): every number between InAckSeq and seq is shifted in as
\* not delivered, and seq itself as isAck.  Nothing happens for an old seq.
AckSeq(n, seq, isAck) ==
    IF ~ Greater(seq, n.InAckSeq) THEN n
    ELSE LET k == Diff(seq, n.InAckSeq)
         IN  [n EXCEPT !.InAckSeq = seq,
                       !.History = [i \in HistoryIndex |->
                                      IF i < k THEN i = 0 /\ isAck
                                               ELSE n.History[i - k]]]

-----------------------------------------------------------------------------
(* Sending a header.                                                       *)

\* The number of history words a header announces.
HistoryWords(n) ==
    LET w == (HistoryLength(n) + BitsPerWord - 1) \div BitsPerWord
    IN  IF w < 1 THEN 1 ELSE IF w > WordCount THEN WordCount ELSE w

\* WriteHeader.  The bits beyond the announced words are zero for the reader.
WriteHeader(n) ==
    [ seq |-> n.OutSeq, acked |-> n.InAckSeq, words |-> HistoryWords(n),
      history |-> [i \in HistoryIndex |->
                     i < HistoryWords(n) * BitsPerWord /\ n.History[i]] ]

\* CommitAndIncrementOutSeq, called right after WriteHeader.
CommitAndIncrementOutSeq(n) ==
    [n EXCEPT !.AckRecord = Append(@, << n.OutSeq, n.InAckSeq >>),
              !.OutSeq = Increment(@)]

-----------------------------------------------------------------------------
(* Receiving a header.                                                     *)

\* ReadHeader: the header buffer is PacketHeaderSize (10) bytes, in which only
\* HeaderWords history words fit.  The writer drops the words beyond it without
\* an error; the reader then runs out of bits and the whole packet is refused.
ReadHeader(h) == h.words <= HeaderWords

\* GetSequenceDelta: 0 for an old packet or one whose acks make no sense.
SequenceDelta(n, h) ==
    IF /\ Greater(h.seq, n.InSeq)
       /\ GreaterEq(h.acked, n.OutAckSeq)
       /\ Greater(n.OutSeq, h.acked)
    THEN Diff(h.seq, n.InSeq)
    ELSE 0

AckCount(n, h) ==
    IF Greater(h.acked, n.OutAckSeq) THEN Diff(h.acked, n.OutAckSeq) ELSE 0

\* Variant: the bit of the packet before.
Notifications_OffByOne(n, h) ==
    [k \in 1 .. AckCount(n, h) |->
        LET i == AckCount(n, h) - k + 1
        IN  i < h.words * BitsPerWord /\ h.history[i]]

\* The calls of InFunc in ProcessReceivedAcks: the k-th one reports on
\* OutAckSeq + k.  A number older than the bits in the header is reported lost.
Notifications(n, h) ==
    [k \in 1 .. AckCount(n, h) |->
        LET i == AckCount(n, h) - k
        IN  i < h.words * BitsPerWord /\ h.history[i]]

\* UpdateInAckSeqAck: the record of the acked packet tells which of our acks
\* the other side has seen; the records up to it are dropped.
UpdateInAckSeqAck(n, h) ==
    LET known == AckCount(n, h) <= Len(n.AckRecord)
        found == known /\ n.AckRecord[AckCount(n, h)][1] = h.acked
        new   == IF found THEN n.AckRecord[AckCount(n, h)][2]
                          ELSE ToSeq(h.acked - HistorySize)
    IN  [n EXCEPT
           !.AckRecord = IF known THEN SubSeq(@, AckCount(n, h) + 1, Len(@)) ELSE @,
           !.InAckSeqAck = IF Greater(new, @) THEN new ELSE @]

\* ProcessReceivedAcks, the state it leaves behind.
ProcessReceivedAcks(n, h) ==
    IF AckCount(n, h) = 0 THEN n
    ELSE LET m == UpdateInAckSeqAck(n, h)
         IN  [m EXCEPT !.OutAckSeq = h.acked,
                       !.Waiting = IF Greater(h.acked, @) THEN h.acked ELSE @]

\* The first half of InternalUpdate: a number the history cannot reach either
\* starts a flush or, when nothing delivered would be forgotten, resets the
\* acked edge of the window.
EnterFlush(n, h) ==
    IF IsWaitingForSequenceHistoryFlush(n) \/ WillSequenceFit(n, h.seq) THEN n
    ELSE IF HasUnacknowledgedAcks(n)
         THEN [n EXCEPT !.Waiting = n.OutSeq]
         ELSE [n EXCEPT !.InAckSeqAck = ToSeq(h.seq - 1)]

\* The newest number a flush may mark lost: the packet's own, or the end of
\* the history when the packet lies beyond it.
FlushTarget(n, h) ==
    IF ~ WillSequenceFit(n, h.seq) /\ HasUnacknowledgedAcks(n)
    THEN ToSeq(n.InAckSeqAck + (HistorySize - HistoryLength(n)))
    ELSE h.seq

\* Variant: a packet that a flush drops is acked.
InternalUpdate_AcksDropped(n, h, delta) ==
    LET m      == EnterFlush(n, h)
        target == FlushTarget(m, h)
    IN  IF ~ IsWaitingForSequenceHistoryFlush(m)
        THEN [notify |-> [m EXCEPT !.InSeq = h.seq], delta |-> delta]
        ELSE IF GreaterEq(target, m.InSeq)
        THEN [notify |-> AckSeq([m EXCEPT !.InSeq = target], target, TRUE),
              delta  |-> Diff(target, m.InSeq)]
        ELSE [notify |-> m, delta |-> 0]

\* Variant: the packet's own distance is returned where the flush stops short.
InternalUpdate_WholeDelta(n, h, delta) ==
    LET m      == EnterFlush(n, h)
        target == FlushTarget(m, h)
    IN  IF ~ IsWaitingForSequenceHistoryFlush(m)
        THEN [notify |-> [m EXCEPT !.InSeq = h.seq], delta |-> delta]
        ELSE IF GreaterEq(target, m.InSeq)
        THEN [notify |-> AckSeq([m EXCEPT !.InSeq = target], target, FALSE),
              delta  |-> delta]
        ELSE [notify |-> m, delta |-> 0]

\* InternalUpdate: the new state and by how much InSeq moved.  During a flush
\* the packet counts as lost.
InternalUpdate(n, h, delta) ==
    LET m      == EnterFlush(n, h)
        target == FlushTarget(m, h)
    IN  IF ~ IsWaitingForSequenceHistoryFlush(m)
        THEN [notify |-> [m EXCEPT !.InSeq = h.seq], delta |-> delta]
        ELSE IF GreaterEq(target, m.InSeq)
        THEN [notify |-> AckSeq([m EXCEPT !.InSeq = target], target, FALSE),
              delta  |-> Diff(target, m.InSeq)]
        ELSE [notify |-> m, delta |-> 0]

\* Update, for a header whose SequenceDelta is positive.
Update(n, h) ==
    InternalUpdate(ProcessReceivedAcks(n, h), h, SequenceDelta(n, h))
=============================================================================
