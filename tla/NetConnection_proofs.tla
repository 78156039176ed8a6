------------------------- MODULE NetConnection_proofs -------------------------
(***************************************************************************)
(* The types of NetConnection, delivery in order, and the refinement of    *)
(* ReliableChannel, proved for all values of the constants.                *)
(*                                                                         *)
(* Sequence numbers come first: the operators of SequenceNumber against    *)
(* plain counting, and what those of NetPacketNotify return, for every     *)
(* even size of the sequence space and every size of the receive history.  *)
(*                                                                         *)
(* Types: first lemmas on the containers a connection is built from, then  *)
(* one lemma per action for the parts of the type invariant it touches,    *)
(* then one per action for the whole invariant.                            *)
(*                                                                         *)
(* Order: a bunch that is sealed gets the next number of its channel       *)
(* (Numbered); whatever is in a queue, a packet, a datagram or among the   *)
(* pending packets was sealed by the side it comes from (OnlyMadeBunches); *)
(* so the bunch DispatchPacket reads is the one its number says, and what  *)
(* is dispatched extends a prefix of what was sealed (Received).  The only *)
(* thing the code does not ensure is that the number is recovered          *)
(* correctly by MakeRelative: that is the window assumption.               *)
(***************************************************************************)
EXTENDS NetConnection, TLAPS

-----------------------------------------------------------------------------
(* The cyclic order and the signed distance of sequence numbers.           *)

\* Two remainders of one number that differ by a multiple of n are the same.
LEMMA MultipleIsZero ==
    ASSUME NEW n \in Nat \ {0}, NEW q \in Int, -n < n * q, n * q < n
    PROVE  q = 0
<1>1. ASSUME q >= 1 PROVE FALSE
    <2>1. n * q = n + n * (q - 1)
        OBVIOUS
    <2>2. n * (q - 1) >= 0
        BY <1>1
    <2> QED
        BY <2>1, <2>2
<1>2. ASSUME q <= -1 PROVE FALSE
    <2>1. n * q = -n - n * (-1 - q)
        OBVIOUS
    <2>2. n * (-1 - q) >= 0
        BY <1>2
    <2> QED
        BY <2>1, <2>2
<1> QED
    BY <1>1, <1>2

\* The remainder is the only number below n that is a multiple of n away.
LEMMA RemainderUnique ==
    ASSUME NEW n \in Nat \ {0}, NEW a \in Int, NEW q \in Int, NEW r \in 0 .. n - 1,
           a = n * q + r
    PROVE  a % n = r
<1> DEFINE p == a \div n
           s == a % n
<1>1. p \in Int /\ s \in 0 .. n - 1 /\ a = n * p + s
    OBVIOUS
<1>2. n * (p - q) = n * p - n * q
    BY <1>1
<1>3. p - q = 0
    BY <1>1, <1>2, MultipleIsZero
<1> QED
    BY <1>1, <1>3

\* The sequence space has an even size.
LEMMA HalfIsHalf == SeqHalf \in Nat \ {0} /\ SeqCount = SeqHalf + SeqHalf
    BY SeqCountAssumption DEF SeqHalf

\* A number is a whole number of turns below the count it stands for.
LEMMA Turns ==
    ASSUME NEW x \in Int
    PROVE  /\ ToSeq(x) \in SeqNums
           /\ \E q \in Int : x = SeqCount * q + ToSeq(x)
<1>1. SeqCount \in Nat \ {0}
    BY SeqCountAssumption
<1>2. x \div SeqCount \in Int /\ x % SeqCount \in 0 .. SeqCount - 1
          /\ x = SeqCount * (x \div SeqCount) + (x % SeqCount)
    BY <1>1
<1> QED
    BY <1>2 DEF ToSeq, SeqNums

\* The cyclic distance of two numbers is the distance of the counts, or that
\* and one turn.
LEMMA CyclicDistance ==
    ASSUME NEW x \in Int, NEW y \in Int,
           -SeqHalf < x - y, x - y < SeqHalf
    PROVE  (ToSeq(x) - ToSeq(y)) % SeqCount
               = IF x >= y THEN x - y ELSE x - y + SeqCount
<1> DEFINE N == SeqCount
           a == ToSeq(x)
           b == ToSeq(y)
           r == IF x >= y THEN x - y ELSE x - y + N
<1>1. N \in Nat \ {0}
    BY SeqCountAssumption
<1>2. a \in Int /\ b \in Int
    BY <1>1, Turns DEF SeqNums
<1>3. PICK p \in Int : x = N * p + a
    BY Turns
<1>4. PICK q \in Int : y = N * q + b
    BY Turns
<1>5. r \in 0 .. N - 1
    BY <1>1, HalfIsHalf
<1>6. \E t \in Int : a - b = N * t + r
    <2>1. N * (q - p) = N * q - N * p /\ N * (q - p - 1) = N * q - N * p - N
        BY <1>1
    <2>2. CASE x >= y
        <3>1. a - b = N * (q - p) + r
            BY <1>1, <1>2, <1>3, <1>4, <2>1, <2>2
        <3> QED
            BY <3>1
    <2>3. CASE x < y
        <3>1. a - b = N * (q - p - 1) + r
            BY <1>1, <1>2, <1>3, <1>4, <2>1, <2>3
        <3> QED
            BY <3>1
    <2> QED
        BY <2>2, <2>3
<1>7. (a - b) % N = r
    <2> HIDE DEF r, a, b, N
    <2>1. PICK t \in Int : a - b = N * t + r
        BY <1>6
    <2> QED
        BY <1>1, <1>2, <1>5, <2>1, RemainderUnique
<1> QED
    BY <1>7
-----------------------------------------------------------------------------
\* operator>, operator>=, operator<, the signed distance and operator++ of packet
\* sequence numbers: applied to the numbers of two counts that are less than
\* half the space apart, they compare, subtract and advance the counts
\* themselves, across any number of wrap-arounds and for every size of the space.
THEOREM OrderIsCounting ==
    ASSUME NEW x \in Int, NEW y \in Int,
           -SeqHalf < x - y, x - y < SeqHalf
    PROVE  /\ Greater(ToSeq(x), ToSeq(y)) <=> x > y
           /\ GreaterEq(ToSeq(x), ToSeq(y)) <=> x >= y
           /\ Less(ToSeq(x), ToSeq(y)) <=> x < y
           /\ Diff(ToSeq(x), ToSeq(y)) = x - y
           /\ Increment(ToSeq(x)) = ToSeq(x + 1)
<1> DEFINE d == (ToSeq(x) - ToSeq(y)) % SeqCount
<1>1. d = IF x >= y THEN x - y ELSE x - y + SeqCount
    BY CyclicDistance
<1>2. d < SeqHalf <=> x >= y
    BY <1>1, HalfIsHalf
<1>3. x # y => ToSeq(x) # ToSeq(y)
    <2>1. CASE ToSeq(x) = ToSeq(y)
        <3>1. d = 0
            <4>1. ToSeq(x) \in Int
                BY Turns, SeqCountAssumption DEF SeqNums
            <4>2. ToSeq(x) - ToSeq(y) = SeqCount * 0 + 0
                BY <2>1, <4>1, SeqCountAssumption
            <4>3. ToSeq(x) - ToSeq(y) \in Int
                BY <2>1, <4>1
            <4> QED
                BY <4>2, <4>3, SeqCountAssumption, RemainderUnique
        <3> QED
            BY <1>1, <3>1, HalfIsHalf
    <2> QED
        BY <2>1
<1>4. Greater(ToSeq(x), ToSeq(y)) <=> x > y
    <2>1. Greater(ToSeq(x), ToSeq(y)) <=> ToSeq(x) # ToSeq(y) /\ d < SeqHalf
        BY DEF Greater
    <2> QED
        BY <1>2, <1>3, <2>1
<1>5. GreaterEq(ToSeq(x), ToSeq(y)) <=> x >= y
    BY <1>2 DEF GreaterEq
<1>6. Less(ToSeq(x), ToSeq(y)) <=> x < y
    BY <1>5 DEF Less
<1>7. Diff(ToSeq(x), ToSeq(y)) = x - y
    <2>1. Diff(ToSeq(x), ToSeq(y)) = IF d < SeqHalf THEN d ELSE d - SeqCount
        BY DEF Diff
    <2> HIDE DEF d
    <2> QED
        BY <1>1, <1>2, <2>1, HalfIsHalf
<1>8. Increment(ToSeq(x)) = ToSeq(x + 1)
    <2>1. SeqCount \in Nat \ {0}
        BY SeqCountAssumption
    <2>2. ToSeq(x) \in Int /\ ToSeq(x + 1) \in 0 .. SeqCount - 1
        <3>1. ToSeq(x) \in SeqNums /\ ToSeq(x + 1) \in SeqNums
            BY Turns
        <3> QED
            BY <2>1, <3>1 DEF SeqNums
    <2>3. PICK p \in Int : x = SeqCount * p + ToSeq(x)
        BY Turns
    <2>4. PICK q \in Int : x + 1 = SeqCount * q + ToSeq(x + 1)
        BY Turns
    <2>5. SeqCount * (q - p) = SeqCount * q - SeqCount * p
        BY <2>1
    <2>6. ToSeq(x) + 1 = SeqCount * (q - p) + ToSeq(x + 1)
        BY <2>1, <2>2, <2>3, <2>4, <2>5
    <2>7. (ToSeq(x) + 1) % SeqCount = ToSeq(x + 1)
        <3>1. ToSeq(x) + 1 \in Int /\ q - p \in Int
            BY <2>2
        <3> HIDE DEF d
        <3> QED
            BY <2>1, <2>2, <2>6, <3>1, RemainderUnique
    <2>8. Increment(ToSeq(x)) = (ToSeq(x) + 1) % SeqCount
        BY DEF Increment, ToSeq
    <2> QED
        BY <2>7, <2>8
<1> QED
    BY <1>4, <1>5, <1>6, <1>7, <1>8

-----------------------------------------------------------------------------
(* The types of NetPacketNotify.                                           *)

\* The constructor of a sequence number masks its argument.
LEMMA ToSeqType ==
  ASSUME NEW n \in Int
  PROVE  ToSeq(n) \in SeqNums
  BY SeqCountAssumption DEF ToSeq, SeqNums

\* Sequence numbers are integers.
LEMMA SeqNumsAreInt ==
  ASSUME NEW s \in SeqNums
  PROVE  s \in Int
  BY SeqCountAssumption DEF SeqNums

\* The signed distance is an integer.
LEMMA DiffType ==
  ASSUME NEW a \in SeqNums, NEW b \in SeqNums
  PROVE  Diff(a, b) \in Int
  BY SeqCountAssumption, SeqNumsAreInt DEF Diff, SeqHalf

\* A greater number is at a positive distance.
LEMMA GreaterDiff ==
  ASSUME NEW a \in SeqNums, NEW b \in SeqNums, Greater(a, b)
  PROVE  Diff(a, b) \in Nat \ {0}
  BY SeqCountAssumption, SeqNumsAreInt DEF Diff, SeqHalf, Greater, SeqNums

\* The fields of NetPacketNotify.
LEMMA NotifyFields ==
  ASSUME NEW n \in Notify
  PROVE  /\ n.InSeq \in SeqNums /\ n.InAckSeq \in SeqNums /\ n.InAckSeqAck \in SeqNums
         /\ n.Waiting \in SeqNums /\ n.OutSeq \in SeqNums /\ n.OutAckSeq \in SeqNums
         /\ n.AckRecord \in Seq(SeqNums \X SeqNums)
         /\ n.History \in [HistoryIndex -> BOOLEAN]
  BY DEF Notify

\* GetCurrentSequenceHistoryLength yields an integer.
LEMMA HistoryLengthType ==
  ASSUME NEW n \in Notify PROVE HistoryLength(n) \in Int
  <1>1. Diff(n.InAckSeq, n.InAckSeqAck) \in Int
    BY NotifyFields, DiffType
  <1> QED BY <1>1, HistoryAssumption DEF HistoryLength

\* The history has at least one word.
LEMMA WordCountType == WordCount \in Nat \ {0}
  BY HistoryAssumption DEF WordCount

\* WriteHeader announces between one and WordCount words.
LEMMA HistoryWordsType ==
  ASSUME NEW n \in Notify PROVE HistoryWords(n) \in 1 .. WordCount
  <1>1. (HistoryLength(n) + BitsPerWord - 1) \div BitsPerWord \in Int
    BY HistoryLengthType, HistoryAssumption
  <1> QED BY <1>1, WordCountType DEF HistoryWords

\* AckSeq shifts the history without leaving it.
LEMMA AckSeqType ==
  ASSUME NEW n \in Notify, NEW seq \in SeqNums, NEW isAck \in BOOLEAN
  PROVE  AckSeq(n, seq, isAck) \in Notify
  <1>1. CASE ~ Greater(seq, n.InAckSeq)
    BY <1>1 DEF AckSeq
  <1>2. CASE Greater(seq, n.InAckSeq)
    <2> DEFINE k == Diff(seq, n.InAckSeq)
               H == [i \in HistoryIndex |-> IF i < k THEN i = 0 /\ isAck
                                                     ELSE n.History[i - k]]
    <2>1. k \in Nat \ {0}
      BY <1>2, GreaterDiff, NotifyFields
    <2>2. \A i \in HistoryIndex : ~ (i < k) => i - k \in HistoryIndex
      BY <2>1, HistoryAssumption DEF HistoryIndex
    <2>3. H \in [HistoryIndex -> BOOLEAN]
      <3>1. \A i \in HistoryIndex : ~ (i < k) => n.History[i - k] \in BOOLEAN
        BY <2>2, NotifyFields
      <3> HIDE DEF k
      <3> QED BY <3>1, Zenon
    <2>4. AckSeq(n, seq, isAck) = [n EXCEPT !.InAckSeq = seq, !.History = H]
      BY <1>2 DEF AckSeq
    <2> HIDE DEF H
    <2> QED BY <2>3, <2>4 DEF Notify
  <1> QED BY <1>1, <1>2

\* WriteHeader writes a header.
LEMMA WriteHeaderType ==
  ASSUME NEW n \in Notify PROVE WriteHeader(n) \in Header
  <1> DEFINE H == [i \in HistoryIndex |-> i < HistoryWords(n) * BitsPerWord /\ n.History[i]]
  <1>1. H \in [HistoryIndex -> BOOLEAN]
    OBVIOUS
  <1> HIDE DEF H
  <1>2. WriteHeader(n) = [seq |-> n.OutSeq, acked |-> n.InAckSeq,
                          words |-> HistoryWords(n), history |-> H]
    BY DEF WriteHeader, H
  <1> QED BY <1>1, <1>2, HistoryWordsType, NotifyFields DEF Header

\* CommitAndIncrementOutSeq keeps the type of NetPacketNotify.
LEMMA CommitType ==
  ASSUME NEW n \in Notify PROVE CommitAndIncrementOutSeq(n) \in Notify
  <1>1. Increment(n.OutSeq) \in SeqNums
    BY NotifyFields, SeqNumsAreInt, ToSeqType DEF Increment
  <1>2. Append(n.AckRecord, << n.OutSeq, n.InAckSeq >>) \in Seq(SeqNums \X SeqNums)
    BY NotifyFields
  <1>3. CommitAndIncrementOutSeq(n) = 
         [n EXCEPT !.AckRecord = Append(n.AckRecord, << n.OutSeq, n.InAckSeq >>),
                   !.OutSeq = Increment(n.OutSeq)]
    BY DEF CommitAndIncrementOutSeq, Notify
  <1> QED BY <1>1, <1>2, <1>3 DEF Notify

\* A header acknowledges a natural number of packets.
LEMMA AckCountType ==
  ASSUME NEW n \in Notify, NEW h \in Header PROVE AckCount(n, h) \in Nat
  BY NotifyFields, GreaterDiff DEF AckCount, Header

\* ProcessReceivedAcks reports once on every packet the header acknowledges.
LEMMA NotificationsType ==
  ASSUME NEW n \in Notify, NEW h \in Header
  PROVE  /\ Notifications(n, h) \in Seq(BOOLEAN)
         /\ Len(Notifications(n, h)) = AckCount(n, h)
  <1> DEFINE N == AckCount(n, h)
  <1>1. N \in Nat BY AckCountType
  <1>2. Notifications(n, h) \in [1 .. N -> BOOLEAN]
    BY DEF Notifications
  <1> HIDE DEF N
  <1>3. Notifications(n, h) \in Seq(BOOLEAN) /\ Len(Notifications(n, h)) = N
    BY <1>1, <1>2
  <1> QED BY <1>3 DEF N

\* GetSequenceDelta is never negative.
LEMMA SequenceDeltaType ==
  ASSUME NEW n \in Notify, NEW h \in Header PROVE SequenceDelta(n, h) \in Nat
  BY NotifyFields, GreaterDiff DEF SequenceDelta, Header

\* UpdateInAckSeqAck reads the ack record only where it has an entry.
LEMMA UpdateInAckSeqAckType ==
  ASSUME NEW n \in Notify, NEW h \in Header, AckCount(n, h) # 0
  PROVE  UpdateInAckSeqAck(n, h) \in Notify
  <1> DEFINE N == AckCount(n, h)
             known == N <= Len(n.AckRecord)
             found == known /\ n.AckRecord[N][1] = h.acked
             new == IF found THEN n.AckRecord[N][2] ELSE ToSeq(h.acked - HistorySize)
             rec == IF known THEN SubSeq(n.AckRecord, N + 1, Len(n.AckRecord)) ELSE n.AckRecord
             edge == IF Greater(new, n.InAckSeqAck) THEN new ELSE n.InAckSeqAck
  <1>1. N \in Nat \ {0} BY AckCountType
  <1>2. h.acked \in SeqNums BY DEF Header
  <1>3. known => n.AckRecord[N] \in SeqNums \X SeqNums
    BY <1>1, NotifyFields
  <1>4. ToSeq(h.acked - HistorySize) \in SeqNums
    BY <1>2, HistoryAssumption, SeqNumsAreInt, ToSeqType
  <1>5. new \in SeqNums
    BY <1>3, <1>4
  <1>6. rec \in Seq(SeqNums \X SeqNums)
    BY <1>1, NotifyFields
  <1>7. edge \in SeqNums
    BY <1>5, NotifyFields
  <1>8. UpdateInAckSeqAck(n, h) = [n EXCEPT !.AckRecord = rec, !.InAckSeqAck = edge]
    BY DEF UpdateInAckSeqAck, Notify
  <1> QED BY <1>6, <1>7, <1>8 DEF Notify

\* ProcessReceivedAcks keeps the type of NetPacketNotify.
LEMMA ProcessReceivedAcksType ==
  ASSUME NEW n \in Notify, NEW h \in Header
  PROVE  ProcessReceivedAcks(n, h) \in Notify
  <1>1. CASE AckCount(n, h) = 0
    BY <1>1 DEF ProcessReceivedAcks
  <1>2. CASE AckCount(n, h) # 0
    <2> DEFINE m == UpdateInAckSeqAck(n, h)
               w == IF Greater(h.acked, m.Waiting) THEN h.acked ELSE m.Waiting
    <2>1. m \in Notify BY <1>2, UpdateInAckSeqAckType
    <2> HIDE DEF m
    <2>2. w \in SeqNums /\ h.acked \in SeqNums
      BY <2>1, NotifyFields DEF Header
    <2>3. ProcessReceivedAcks(n, h) = [m EXCEPT !.OutAckSeq = h.acked, !.Waiting = w]
      BY <1>2, <2>1 DEF ProcessReceivedAcks, m, Notify
    <2> QED BY <2>1, <2>2, <2>3 DEF Notify
  <1> QED BY <1>1, <1>2

\* Starting a flush keeps the type of NetPacketNotify.
LEMMA EnterFlushType ==
  ASSUME NEW n \in Notify, NEW h \in Header PROVE EnterFlush(n, h) \in Notify
  <1>1. h.seq \in SeqNums /\ n.OutSeq \in SeqNums BY NotifyFields DEF Header
  <1>2. ToSeq(h.seq - 1) \in SeqNums BY <1>1, SeqNumsAreInt, ToSeqType
  <1> QED BY <1>1, <1>2 DEF EnterFlush, Notify

\* A flush marks lost up to a sequence number.
LEMMA FlushTargetType ==
  ASSUME NEW n \in Notify, NEW h \in Header PROVE FlushTarget(n, h) \in SeqNums
  <1>1. h.seq \in SeqNums BY DEF Header
  <1>2. n.InAckSeqAck + (HistorySize - HistoryLength(n)) \in Int
    BY NotifyFields, SeqNumsAreInt, HistoryLengthType, HistoryAssumption
  <1> QED BY <1>1, <1>2, ToSeqType DEF FlushTarget

\* InternalUpdate keeps the type of NetPacketNotify and returns an integer.
LEMMA InternalUpdateType ==
  ASSUME NEW n \in Notify, NEW h \in Header, NEW delta \in Int
  PROVE  InternalUpdate(n, h, delta) \in [notify : Notify, delta : Int]
  <1> DEFINE m == EnterFlush(n, h)
             target == FlushTarget(m, h)
  <1>1. m \in Notify BY EnterFlushType
  <1>2. target \in SeqNums BY <1>1, FlushTargetType
  <1>3. h.seq \in SeqNums BY DEF Header
  <1> HIDE DEF m, target
  <1> DEFINE kept == [m EXCEPT !.InSeq = h.seq]
             lost == AckSeq([m EXCEPT !.InSeq = target], target, FALSE)
             dist == Diff(target, m.InSeq)
  <1>4. kept \in Notify BY <1>1, <1>3 DEF Notify
  <1>5. [m EXCEPT !.InSeq = target] \in Notify BY <1>1, <1>2 DEF Notify
  <1>6. lost \in Notify BY <1>2, <1>5, AckSeqType
  <1>7. dist \in Int BY <1>1, <1>2, NotifyFields, DiffType
  <1>8. \/ InternalUpdate(n, h, delta) = [notify |-> kept, delta |-> delta]
        \/ InternalUpdate(n, h, delta) = [notify |-> lost, delta |-> dist]
        \/ InternalUpdate(n, h, delta) = [notify |-> m, delta |-> 0]
    BY DEF InternalUpdate, m, target
  <1> HIDE DEF kept, lost, dist
  <1> QED BY <1>1, <1>4, <1>6, <1>7, <1>8

\* Update keeps the type of NetPacketNotify and returns an integer.
LEMMA UpdateType ==
  ASSUME NEW n \in Notify, NEW h \in Header
  PROVE  Update(n, h) \in [notify : Notify, delta : Int]
  BY ProcessReceivedAcksType, SequenceDeltaType, InternalUpdateType DEF Update

-----------------------------------------------------------------------------
(* What the history says.                                                  *)

\* Counts that differ by whole turns have one number.
LEMMA SameNumber ==
  ASSUME NEW x \in Int, NEW y \in Int, NEW q \in Int, x = y + SeqCount * q
  PROVE  ToSeq(x) = ToSeq(y)
  <1>1. SeqCount \in Nat \ {0}
    BY SeqCountAssumption
  <1>2. PICK p \in Int : y = SeqCount * p + ToSeq(y)
    BY Turns
  <1>3. ToSeq(y) \in 0 .. SeqCount - 1
    BY Turns DEF SeqNums
  <1>4. SeqCount * (p + q) = SeqCount * p + SeqCount * q
    BY <1>1
  <1> DEFINE t == p + q
  <1>5. t \in Int /\ x = SeqCount * t + ToSeq(y)
    BY <1>1, <1>2, <1>3, <1>4
  <1> HIDE DEF t
  <1>6. x % SeqCount = ToSeq(y)
    BY <1>1, <1>3, <1>5, RemainderUnique
  <1> QED BY <1>6 DEF ToSeq

\* The signed distance leads from one number to the other.
LEMMA DiffLeads ==
  ASSUME NEW a \in SeqNums, NEW b \in SeqNums
  PROVE  \E q \in Int : a = b + Diff(a, b) + SeqCount * q
  <1>1. SeqCount \in Nat \ {0} /\ a \in Int /\ b \in Int
    BY SeqCountAssumption, SeqNumsAreInt
  <1>2. PICK q \in Int : a - b = SeqCount * q + ((a - b) % SeqCount)
    <2>1. a - b \in Int
      BY <1>1
    <2>2. PICK t \in Int : a - b = SeqCount * t + ToSeq(a - b)
      BY <2>1, Turns
    <2> QED BY <2>2 DEF ToSeq
  <1>3. (a - b) % SeqCount \in Int /\ SeqCount * q \in Int
    BY <1>1
  <1>4. CASE Diff(a, b) = (a - b) % SeqCount
    <2>1. a = b + Diff(a, b) + SeqCount * q
      BY <1>1, <1>2, <1>3, <1>4
    <2> QED BY <2>1
  <1>5. CASE Diff(a, b) = ((a - b) % SeqCount) - SeqCount
    <2>1. SeqCount * (q + 1) = SeqCount * q + SeqCount
      BY <1>1
    <2>2. a = b + Diff(a, b) + SeqCount * (q + 1)
      BY <1>1, <1>2, <1>3, <1>5, <2>1
    <2> QED BY <2>2
  <1> QED BY <1>4, <1>5 DEF Diff

\* Counting on by the signed distance ends at the number it was taken to.
LEMMA DiffAdds ==
  ASSUME NEW x \in Int, NEW a \in SeqNums
  PROVE  ToSeq(x + Diff(a, ToSeq(x))) = a
  <1> DEFINE b == ToSeq(x)
             d == Diff(a, b)
  <1>1. b \in SeqNums /\ b \in Int /\ a \in Int /\ SeqCount \in Int
    BY ToSeqType, SeqNumsAreInt, SeqCountAssumption
  <1>2. d \in Int
    BY <1>1, DiffType
  <1>3. PICK q \in Int : a = b + d + SeqCount * q
    BY <1>1, DiffLeads
  <1>4. PICK p \in Int : x = SeqCount * p + b
    BY Turns
  <1> HIDE DEF b, d
  <1>5. SeqCount * (p - q) = SeqCount * p - SeqCount * q
    BY <1>1
  <1> DEFINE t == p - q
             y == x + d
  <1>6. t \in Int /\ y \in Int /\ y = a + SeqCount * t
    BY <1>1, <1>2, <1>3, <1>4, <1>5
  <1> HIDE DEF t, y
  <1>7. ToSeq(y) = ToSeq(a)
    BY ZenonT(30), <1>1, <1>6, SameNumber
  <1>8. a % SeqCount = a
    <2>1. a = SeqCount * 0 + a /\ a \in 0 .. SeqCount - 1
      BY <1>1 DEF SeqNums
    <2> QED BY <1>1, <2>1, SeqCountAssumption, RemainderUnique
  <1> QED BY <1>7, <1>8 DEF ToSeq, b, d, y

\* The numbers a NetPacketNotify reports as delivered.
Reported(n) == {ToSeq(n.InAckSeq - i) : i \in {j \in HistoryIndex : n.History[j]}}

\* AckSeq reports nothing new but the number it is called with, and that only
\* when it is called with an ack.
LEMMA AckSeqReports ==
  ASSUME NEW n \in Notify, NEW seq \in SeqNums, NEW isAck \in BOOLEAN
  PROVE  Reported(AckSeq(n, seq, isAck))
            \subseteq Reported(n) \union (IF isAck /\ Greater(seq, n.InAckSeq)
                                          THEN {seq} ELSE {})
  <1>1. CASE ~ Greater(seq, n.InAckSeq)
    BY <1>1 DEF AckSeq
  <1>2. CASE Greater(seq, n.InAckSeq)
    <2> DEFINE A == n.InAckSeq
               k == Diff(seq, A)
               m == AckSeq(n, seq, isAck)
    <2>1. A \in SeqNums /\ A \in Int /\ seq \in Int /\ SeqCount \in Int
      BY NotifyFields, SeqNumsAreInt, SeqCountAssumption
    <2>2. k \in Nat \ {0}
      BY <1>2, <2>1, GreaterDiff
    <2>3. PICK q \in Int : seq = A + k + SeqCount * q
      BY <2>1, DiffLeads
    <2>4. m = [n EXCEPT !.InAckSeq = seq,
                        !.History = [i \in HistoryIndex |->
                            IF i < k THEN i = 0 /\ isAck ELSE n.History[i - k]]]
      BY <1>2 DEF AckSeq
    <2>5. m.InAckSeq = seq /\ \A i \in HistoryIndex :
              m.History[i] = IF i < k THEN i = 0 /\ isAck ELSE n.History[i - k]
      BY <2>4 DEF Notify
    <2> HIDE DEF m
    <2> SUFFICES ASSUME NEW i \in HistoryIndex, m.History[i]
                 PROVE  \/ isAck /\ ToSeq(seq - i) = seq
                        \/ ToSeq(seq - i) \in Reported(n)
      BY <1>2, <2>5 DEF Reported, m
    <2>6. i \in Int
      BY DEF HistoryIndex
    <2>7. CASE i < k
      <3>1. i = 0 /\ isAck
        BY <2>5, <2>7
      <3>2. ToSeq(seq) = seq
        <4>1. seq = SeqCount * 0 + seq /\ seq \in 0 .. SeqCount - 1
          BY <2>1 DEF SeqNums
        <4> QED BY <2>1, <4>1, SeqCountAssumption, RemainderUnique DEF ToSeq
      <3>3. seq - i = seq
        BY <2>1, <3>1
      <3> QED BY <3>1, <3>2, <3>3
    <2>8. CASE ~ (i < k)
      <3>1. i - k \in HistoryIndex /\ n.History[i - k]
        BY <2>2, <2>5, <2>8, HistoryAssumption DEF HistoryIndex
      <3>2. seq - i = (A - (i - k)) + SeqCount * q
        BY <2>1, <2>2, <2>3, <2>6
      <3>3. seq - i \in Int /\ A - (i - k) \in Int
        BY <2>1, <2>2, <2>6
      <3>4. ToSeq(seq - i) = ToSeq(A - (i - k))
        BY <3>2, <3>3, SameNumber
      <3> QED BY <3>1, <3>4 DEF Reported
    <2> QED BY <2>7, <2>8
  <1> QED BY <1>1, <1>2

\* Reading the acks of a header leaves the receiving half alone.
LEMMA AcksLeaveIn ==
  ASSUME NEW n \in Notify, NEW h \in Header
  PROVE  LET m == ProcessReceivedAcks(n, h)
         IN  m.InSeq = n.InSeq /\ m.InAckSeq = n.InAckSeq /\ m.History = n.History
  BY UpdateInAckSeqAckType DEF ProcessReceivedAcks, UpdateInAckSeqAck, Notify

\* So does the start of a flush.
LEMMA FlushLeavesIn ==
  ASSUME NEW n \in Notify, NEW h \in Header
  PROVE  LET m == EnterFlush(n, h)
         IN  m.InSeq = n.InSeq /\ m.InAckSeq = n.InAckSeq /\ m.History = n.History
  BY DEF EnterFlush, Notify

\* What Update does to the receiving half: the packet is taken in, or, in a
\* flush, numbers are passed over as lost; in neither case is anything reported
\* that was not reported before.
LEMMA UpdateIn ==
  ASSUME NEW n \in Notify, NEW h \in Header
  PROVE  LET u == Update(n, h)
             m == u.notify
         IN  /\ Reported(m) \subseteq Reported(n)
             /\ \/ /\ ~ IsWaitingForSequenceHistoryFlush(m)
                   /\ m.InSeq = h.seq /\ m.InAckSeq = n.InAckSeq
                \/ /\ IsWaitingForSequenceHistoryFlush(m)
                   /\ \/ m.InAckSeq = m.InSeq
                      \/ m.InAckSeq = n.InAckSeq /\ ~ Greater(m.InSeq, m.InAckSeq)
                   /\ u.delta = Diff(m.InSeq, n.InSeq)
                \/ /\ IsWaitingForSequenceHistoryFlush(m)
                   /\ m.InSeq = n.InSeq /\ m.InAckSeq = n.InAckSeq /\ u.delta = 0
  <1> DEFINE a == ProcessReceivedAcks(n, h)
             f == EnterFlush(a, h)
             t == FlushTarget(f, h)
             g == [f EXCEPT !.InSeq = t]
             l == AckSeq(g, t, FALSE)
  <1>1. a \in Notify /\ f \in Notify /\ t \in SeqNums
    BY ProcessReceivedAcksType, EnterFlushType, FlushTargetType
  <1>2. f.InSeq = n.InSeq /\ f.InAckSeq = n.InAckSeq /\ f.History = n.History
    BY <1>1, AcksLeaveIn, FlushLeavesIn
  <1>3. Update(n, h) =
          IF ~ IsWaitingForSequenceHistoryFlush(f)
          THEN [notify |-> [f EXCEPT !.InSeq = h.seq], delta |-> SequenceDelta(n, h)]
          ELSE IF GreaterEq(t, f.InSeq) THEN [notify |-> l, delta |-> Diff(t, f.InSeq)]
          ELSE [notify |-> f, delta |-> 0]
    BY DEF Update, InternalUpdate
  <1> HIDE DEF a, f, t
  <1>4. CASE ~ IsWaitingForSequenceHistoryFlush(f)
    <2> DEFINE m == [f EXCEPT !.InSeq = h.seq]
    <2>1. /\ m.InSeq = h.seq /\ m.InAckSeq = f.InAckSeq /\ m.History = f.History
          /\ m.Waiting = f.Waiting /\ m.OutAckSeq = f.OutAckSeq
      BY <1>1 DEF Notify
    <2>2. Update(n, h).notify = m
      BY <1>3, <1>4
    <2> HIDE DEF m
    <2> QED BY <1>2, <1>4, <2>1, <2>2 DEF IsWaitingForSequenceHistoryFlush, Reported
  <1>5. CASE IsWaitingForSequenceHistoryFlush(f) /\ GreaterEq(t, f.InSeq)
    <2>1. g \in Notify /\ g.InSeq = t /\ g.InAckSeq = f.InAckSeq /\ g.History = f.History
          /\ g.Waiting = f.Waiting /\ g.OutAckSeq = f.OutAckSeq
      BY <1>1 DEF Notify
    <2>2. Update(n, h).notify = l /\ Update(n, h).delta = Diff(t, n.InSeq)
      BY <1>2, <1>3, <1>5
    <2> HIDE DEF g
    <2>3. /\ l.InSeq = t /\ l.Waiting = g.Waiting /\ l.OutAckSeq = g.OutAckSeq
          /\ \/ l.InAckSeq = t
             \/ l.InAckSeq = g.InAckSeq /\ ~ Greater(t, l.InAckSeq)
      BY <2>1 DEF AckSeq, Notify
    <2>4. Reported(l) \subseteq Reported(g)
      BY <1>1, <2>1, AckSeqReports
    <2> HIDE DEF l
    <2>5. Reported(g) = Reported(n)
      BY <1>2, <2>1 DEF Reported
    <2>6. IsWaitingForSequenceHistoryFlush(l)
      BY <1>5, <2>1, <2>3 DEF IsWaitingForSequenceHistoryFlush
    <2> QED BY <1>2, <2>1, <2>2, <2>3, <2>4, <2>5, <2>6
  <1>6. CASE IsWaitingForSequenceHistoryFlush(f) /\ ~ GreaterEq(t, f.InSeq)
    BY <1>2, <1>3, <1>6 DEF Reported
  <1> QED BY <1>4, <1>5, <1>6

-----------------------------------------------------------------------------
(* The sending half counts packets.                                        *)

\* After the acks of a header, Update leaves the sending half alone.
LEMMA UpdateOut ==
  ASSUME NEW n \in Notify, NEW h \in Header
  PROVE  LET m == Update(n, h).notify
             a == ProcessReceivedAcks(n, h)
         IN  /\ m.OutSeq = a.OutSeq /\ m.OutAckSeq = a.OutAckSeq
             /\ m.AckRecord = a.AckRecord
  <1> DEFINE a == ProcessReceivedAcks(n, h)
             f == EnterFlush(a, h)
             t == FlushTarget(f, h)
             g == [f EXCEPT !.InSeq = t]
             l == AckSeq(g, t, FALSE)
             k == [f EXCEPT !.InSeq = h.seq]
  <1>1. a \in Notify /\ f \in Notify
    BY ProcessReceivedAcksType, EnterFlushType
  <1>2. f.OutSeq = a.OutSeq /\ f.OutAckSeq = a.OutAckSeq /\ f.AckRecord = a.AckRecord
    <2> HIDE DEF a
    <2> QED BY <1>1 DEF EnterFlush, Notify
  <1>3. Update(n, h).notify \in {f, l, k}
    BY DEF Update, InternalUpdate
  <1> HIDE DEF a, f, t
  <1>4. k.OutSeq = f.OutSeq /\ k.OutAckSeq = f.OutAckSeq /\ k.AckRecord = f.AckRecord
    BY <1>1 DEF Notify
  <1>5. g.OutSeq = f.OutSeq /\ g.OutAckSeq = f.OutAckSeq /\ g.AckRecord = f.AckRecord
    BY <1>1 DEF Notify
  <1>6. l.OutSeq = g.OutSeq /\ l.OutAckSeq = g.OutAckSeq /\ l.AckRecord = g.AckRecord
    BY <1>1 DEF AckSeq, Notify
  <1> HIDE DEF g, l, k
  <1> QED BY <1>2, <1>3, <1>4, <1>5, <1>6 DEF a

\* sent is the id of the packet to send next, acked that of the newest one reported
\* on.  While fewer than half the sequence space is in flight, a header acknowledges
\* only packets that were sent, and the ack record has an entry for each of the rest.
LEMMA AcksAreCounted ==
  ASSUME NEW n \in Notify, NEW h \in Header, NEW sent \in Int, NEW acked \in Int,
         ToSeq(sent) = n.OutSeq, ToSeq(acked) = n.OutAckSeq,
         Len(n.AckRecord) = sent - acked - 1, sent - acked < SeqHalf,
         SequenceDelta(n, h) > 0
  PROVE  LET m == Update(n, h).notify
             k == AckCount(n, h)
         IN  /\ k \in Nat /\ ToSeq(acked + k) = h.acked
             /\ k <= sent - acked - 1
             /\ m.OutSeq = n.OutSeq /\ m.OutAckSeq = h.acked
             /\ Len(m.AckRecord) = sent - (acked + k) - 1
  <1> DEFINE k == AckCount(n, h)
             r == n.AckRecord
  <1>1. /\ n.OutSeq \in SeqNums /\ n.OutAckSeq \in SeqNums /\ h.acked \in SeqNums
        /\ r \in Seq(SeqNums \X SeqNums) /\ Len(r) \in Nat /\ k \in Nat
    BY NotifyFields, AckCountType DEF Header
  <1>2. GreaterEq(h.acked, n.OutAckSeq) /\ Greater(n.OutSeq, h.acked)
    BY DEF SequenceDelta
  <1>3. k = Diff(h.acked, n.OutAckSeq) /\ k < SeqHalf
    <2>1. Diff(h.acked, n.OutAckSeq) < SeqHalf /\ Diff(h.acked, n.OutAckSeq)
                                                   = (h.acked - n.OutAckSeq) % SeqCount
      BY <1>2 DEF GreaterEq, Diff
    <2>2. CASE h.acked # n.OutAckSeq
      BY <1>2, <2>1, <2>2 DEF AckCount, Greater, GreaterEq
    <2>3. CASE h.acked = n.OutAckSeq
      <3>1. k = 0
        BY <2>3 DEF AckCount, Greater
      <3>2. (h.acked - n.OutAckSeq) % SeqCount = 0
        <4>1. h.acked - n.OutAckSeq = SeqCount * 0 + 0 /\ h.acked - n.OutAckSeq \in Int
          BY <1>1, <2>3, SeqNumsAreInt, SeqCountAssumption
        <4> QED BY <4>1, SeqCountAssumption, RemainderUnique
      <3> QED BY <2>1, <3>1, <3>2
    <2> QED BY <2>2, <2>3
  <1>4. ToSeq(acked + k) = h.acked
    BY <1>1, <1>3, DiffAdds
  <1> DEFINE now == acked + k
  <1>5. k <= sent - acked - 1
    <2>1. now \in Int /\ -SeqHalf < sent - now /\ sent - now < SeqHalf
      BY <1>1, <1>3, HalfIsHalf
    <2>2. Greater(ToSeq(sent), ToSeq(now))
      BY <1>2, <1>4
    <2> HIDE DEF now
    <2>3. sent > now
      BY <2>1, <2>2, OrderIsCounting
    <2> QED BY <1>1, <2>1, <2>3 DEF now
  <1> DEFINE a == ProcessReceivedAcks(n, h)
  <1>6. /\ a.OutSeq = n.OutSeq /\ a.OutAckSeq = h.acked
        /\ Len(a.AckRecord) = sent - (acked + k) - 1
    <2>1. CASE k = 0
      <3>1. a = n
        BY <2>1 DEF ProcessReceivedAcks
      <3>2. acked + k = acked
        BY <2>1
      <3> QED BY <1>4, <2>1, <3>1, <3>2
    <2>2. CASE k # 0
      <3> DEFINE u == UpdateInAckSeqAck(n, h)
      <3>1. u \in Notify
        BY <2>2, UpdateInAckSeqAckType
      <3>2. u.OutSeq = n.OutSeq /\ u.AckRecord = SubSeq(r, k + 1, Len(r))
        <4>1. k <= Len(n.AckRecord)
          BY <1>1, <1>5
        <4> QED BY <4>1 DEF UpdateInAckSeqAck, Notify
      <3>3. a.OutSeq = u.OutSeq /\ a.OutAckSeq = h.acked /\ a.AckRecord = u.AckRecord
        <4> HIDE DEF u
        <4> QED BY <2>2, <3>1 DEF ProcessReceivedAcks, Notify, u
      <3>4. Len(SubSeq(r, k + 1, Len(r))) = Len(r) - k
        <4>1. k <= Len(r)
          BY <1>1, <1>5
        <4> HIDE DEF r
        <4> QED BY <1>1, <4>1
      <3> HIDE DEF a, u, k
      <3> QED BY <1>1, <3>2, <3>3, <3>4
    <2> QED BY <2>1, <2>2
  <1> HIDE DEF a, k
  <1> QED BY <1>1, <1>4, <1>5, <1>6, UpdateOut DEF a, k
-----------------------------------------------------------------------------
(* The containers a connection is built from.                               *)

\* Maps from packet ids or channel sequence numbers.
MapTo(S) == UNION {[D -> S] : D \in SUBSET Int}

\* A function of the sides, updated for one side.
LEMMA EpUpdate ==
  ASSUME NEW S, NEW f \in [Ep -> S], NEW e \in Ep, NEW v \in S
  PROVE  f[e] \in S /\ [f EXCEPT ![e] = v] \in [Ep -> S]
  OBVIOUS

\* A function of sides and channels, updated for one channel of one side.
LEMMA ChannelUpdate ==
  ASSUME NEW S, NEW f \in PerChannel(S), NEW e \in Ep, NEW c \in Channels,
      NEW v \in S
  PROVE  f[e][c] \in S /\ [f EXCEPT ![e][c] = v] \in PerChannel(S)
  BY DEF PerChannel

\* A function of sides and channels, updated for all channels of one side.
LEMMA ChannelsUpdate ==
  ASSUME NEW S, NEW f \in PerChannel(S), NEW e \in Ep, NEW g \in [Channels -> S]
  PROVE  f[e] \in [Channels -> S] /\ [f EXCEPT ![e] = g] \in PerChannel(S)
  BY DEF PerChannel

\* The value of such a function at one channel.
LEMMA ChannelValue ==
  ASSUME NEW S, NEW f \in PerChannel(S), NEW e \in Ep, NEW c \in Channels
  PROVE  f[e][c] \in S
  BY DEF PerChannel

\* Head and tail of a queue that is not empty.
LEMMA HeadTail ==
  ASSUME NEW S, NEW q \in Seq(S), q # << >>
  PROVE  Head(q) \in S /\ Tail(q) \in Seq(S)
  OBVIOUS

\* Last element of a queue that is not empty, and the rest.
LEMMA LastFront ==
  ASSUME NEW S, NEW q \in Seq(S), q # << >>
  PROVE  LastOf(q) \in S /\ FrontOf(q) \in Seq(S)
  BY DEF LastOf, FrontOf

\* What is in a map (OutUnAckedBunches, InUnreadBunchMap) has the map's type.
LEMMA MapValue ==
  ASSUME NEW S, NEW m \in MapTo(S)
  PROVE  /\ DOMAIN m \subseteq Int
         /\ m \in [DOMAIN m -> S]
         /\ \A x \in DOMAIN m : m[x] \in S
  BY DEF MapTo

\* A function on integers is a map.
LEMMA MapIntro ==
  ASSUME NEW S, NEW D \in SUBSET Int, NEW m \in [D -> S]
  PROVE  m \in MapTo(S)
  BY DEF MapTo

\* The empty map.
LEMMA EmptyMapType ==
  ASSUME NEW S
  PROVE  EmptyMap \in MapTo(S)
  <1>1. EmptyMap \in [{} -> S] BY DEF EmptyMap
  <1> QED BY <1>1, MapIntro

\* Acked and the end of Nacked leave a map.
LEMMA EraseType ==
  ASSUME NEW S, NEW m \in MapTo(S), NEW id
  PROVE  Erase(m, id) \in MapTo(S)
  <1>1. Erase(m, id) \in [DOMAIN m \ {id} -> S]
    BY MapValue, Zenon DEF Erase
  <1>2. DOMAIN m \ {id} \in SUBSET Int
    BY MapValue
  <1> QED BY <1>1, <1>2, MapIntro

\* What Nacked puts back is a sequence of bunches, also without an entry.
LEMMA BunchesOfType ==
  ASSUME NEW S, NEW m \in MapTo(Seq(S)), NEW id
  PROVE  BunchesOf(m, id) \in Seq(S)
  <1>1. id \in DOMAIN m => m[id] \in Seq(S) BY MapValue
  <1> QED BY <1>1 DEF BunchesOf

\* AddUnAckedOutBunch leaves a map to sequences of bunches.
LEMMA AddUnAckedType ==
  ASSUME NEW S, NEW m \in MapTo(Seq(S)), NEW id \in Int, NEW b \in S
  PROVE  AddUnAcked(m, id, b) \in MapTo(Seq(S))
  <1> DEFINE D == DOMAIN m \union {id}
  <1>1. D \in SUBSET Int BY MapValue
  <1>2. \A p \in DOMAIN m : m[p] \in Seq(S) BY MapValue
  <1>3. << b >> \in Seq(S) /\ \A q \in Seq(S) : Append(q, b) \in Seq(S) OBVIOUS
  <1>4. \A p \in D : (IF p # id THEN m[p]
                      ELSE IF id \in DOMAIN m THEN Append(m[id], b) ELSE << b >>) \in Seq(S)
    BY <1>2, <1>3
  <1>5. AddUnAcked(m, id, b) \in [D -> Seq(S)] BY <1>4, Zenon DEF AddUnAcked
  <1> QED BY <1>1, <1>5, MapIntro

\* AddUnreadInCopyBunch leaves a map.
LEMMA AddUnreadType ==
  ASSUME NEW S, NEW m \in MapTo(S), NEW s \in Int, NEW b \in S
  PROVE  AddUnread(m, s, b) \in MapTo(S)
  <1> DEFINE D == DOMAIN m \union {s}
  <1>1. D \in SUBSET Int BY MapValue
  <1>2. AddUnread(m, s, b) \in [D -> S] BY MapValue, Zenon DEF AddUnread
  <1> QED BY <1>1, <1>2, MapIntro

\* The drain loop of DispatchRawBunch takes bunches out of the map and leaves a map.
LEMMA DrainedType ==
  ASSUME NEW S, NEW m \in MapTo(S), NEW last \in Int, NEW n \in Nat,
         IsDrainLength(m, last, n)
  PROVE  Drained(m, last, n) \in MapTo(S) /\ DrainedBunches(m, last, n) \in Seq(S)
  <1> DEFINE D == DOMAIN m \ (last + 1 .. last + n)
  <1>1. D \in SUBSET Int BY MapValue
  <1>2. \A s \in D : m[s] \in S BY MapValue
  <1>3. Drained(m, last, n) \in [D -> S] BY <1>2, Zenon DEF Drained
  <1>4. \A i \in 1 .. n : last + i \in DOMAIN m
    BY DEF IsDrainLength
  <1>5. DrainedBunches(m, last, n) \in [1 .. n -> S]
    BY <1>4, MapValue DEF DrainedBunches
  <1>6. DrainedBunches(m, last, n) \in Seq(S)
    BY <1>5
  <1> QED BY <1>1, <1>3, <1>6, MapIntro

\* MakeRelative yields an integer.
LEMMA MakeRelativeType ==
  ASSUME NEW v \in Int, NEW r \in Int PROVE MakeRelative(v, r) \in Int
  BY MaxChSequenceAssumption DEF MakeRelative, BestSignedDifference

\* SealAndPush makes one bunch of each unit.
LEMMA SealedBunchesType ==
  ASSUME NEW c \in Channels, NEW r \in Int, NEW sizes \in Seq(Nat)
  PROVE  SealedBunches(c, r, sizes) \in Seq(Bunch) /\ Len(SealedBunches(c, r, sizes)) = Len(sizes)
  <1>1. Len(sizes) \in Nat OBVIOUS
  <1>2. \A i \in 1 .. Len(sizes) : [ch |-> c, seq |-> r + i, size |-> sizes[i]] \in Bunch
    BY DEF Bunch
  <1>3. SealedBunches(c, r, sizes) \in [1 .. Len(sizes) -> Bunch]
    BY <1>2, Zenon DEF SealedBunches
  <1> QED BY <1>1, <1>3

\* The fields of a bunch.
LEMMA BunchFields ==
  ASSUME NEW b \in Bunch
  PROVE  b.ch \in Channels /\ b.seq \in Int /\ b.size \in Nat
  BY DEF Bunch
\* The fields of a datagram.
LEMMA DatagramFields ==
  ASSUME NEW p \in Datagram
  PROVE  p.header \in Header /\ p.bunches \in Seq(Bunch)
  BY DEF Datagram

\* Reading one bunch of the packet at the head of Pending.
LEMMA DropBunchType ==
  ASSUME NEW q \in Seq(Datagram), q # << >>, Head(q).bunches # << >>
  PROVE  DropBunch(q) \in Seq(Datagram) /\ Head(Head(q).bunches) \in Bunch
  <1>1. Head(q) \in Datagram /\ Tail(q) \in Seq(Datagram) BY HeadTail
  <1>2. Tail(Head(q).bunches) \in Seq(Bunch) /\ Head(Head(q).bunches) \in Bunch
    BY <1>1, DatagramFields, HeadTail
  <1>3. [Head(q) EXCEPT !.bunches = Tail(@)] \in Datagram
    BY <1>1, <1>2 DEF Datagram
  <1> QED BY <1>1, <1>2, <1>3 DEF DropBunch

-----------------------------------------------------------------------------
(* The type invariant, in parts.  OutUnAcked and InUnread are maps here:   *)
(* TypeOK says so for each channel, induction needs it for the whole       *)
(* function.                                                               *)

CtlTyped ==
    /\ pc \in [Ep -> {"idle", "acks", "retransmit", "dispatch", "assemble",
                      "keepalive", "flush"}]
    /\ turn \in [Ep -> {"dispatch", "flush"}]
    /\ closed \in [Ep -> BOOLEAN]
NotifyTyped ==
    /\ notify \in [Ep -> Notify]
    /\ notes \in [Ep -> Seq(BOOLEAN)]
    /\ InPacketId \in [Ep -> Int]
    /\ LastNotified \in [Ep -> Int]
RecordTyped ==
    /\ OutPacketId \in [Ep -> Int]
    /\ LastRecordId \in [Ep -> Int]
    /\ Record \in [Ep -> Seq(RecordEntry)]
PacketTyped ==
    /\ OutPacketQueue \in [Ep -> Seq(Packet)]
    /\ asm \in [Ep -> Seq(Packet)]
QueueTyped ==
    /\ Submitted \in PerChannel(Seq(Nat))
    /\ OutBunchQueue \in PerChannel(Seq(Bunch))
    /\ OutUnAcked \in PerChannel(MapTo(Seq(Bunch)))
SealedTyped ==
    /\ OutReliable \in PerChannel(Int)
    /\ sealed \in PerChannel(Seq(Bunch))
DatagramTyped ==
    /\ Pending \in [Ep -> Seq(Datagram)]
    /\ net \in [Ep -> SUBSET Datagram]
InTyped ==
    /\ InReliable \in PerChannel(Int)
    /\ InUnread \in PerChannel(MapTo(Bunch))
    /\ delivered \in PerChannel(Seq(Bunch))
    /\ dispatched \in [Ep -> SUBSET SeqNums]

Typed ==
    /\ CtlTyped /\ NotifyTyped /\ RecordTyped /\ PacketTyped /\ QueueTyped
    /\ SealedTyped /\ DatagramTyped /\ InTyped

\* SendNetMessage keeps the types of the channel queues.
LEMMA SubmitTyped ==
  ASSUME Typed, NEW e \in Ep, NEW c \in Channels, NEW size \in Sizes,
         SendNetMessage(e, c, size)
  PROVE  QueueTyped'
  <1>1. Append(Submitted[e][c], size) \in Seq(Nat)
    BY ConnectionAssumption, ChannelValue DEF Typed, QueueTyped
  <1> QED BY <1>1, ChannelUpdate DEF Typed, QueueTyped, SendNetMessage

\* An old packet is queued as a datagram.
LEMMA ReceiveOldTyped ==
  ASSUME Typed, NEW e \in Ep, NEW p \in net[e], ReceiveOld(e, p)
  PROVE  DatagramTyped'
  <1>1. p \in Datagram /\ Pending[e] \in Seq(Datagram)
    BY DEF Typed, DatagramTyped
  <1>2. Append(Pending[e], p) \in Seq(Datagram)
    BY <1>1
  <1> QED BY <1>2 DEF Typed, DatagramTyped, ReceiveOld

\* PacketNotify.Update keeps its types, and what is queued is a datagram.
LEMMA ReceiveNewTyped ==
  ASSUME Typed, NEW e \in Ep, NEW p \in net[e], ReceiveNew(e, p)
  PROVE  NotifyTyped' /\ DatagramTyped'
  <1> DEFINE n == notify[e]
             u == Update(n, p.header)
             d == SequenceDelta(n, p.header)
  <1>1. p \in Datagram /\ Pending[e] \in Seq(Datagram) /\ n \in Notify
    BY DEF Typed, DatagramTyped, NotifyTyped
  <1>2. p.header \in Header
    BY <1>1, DatagramFields
  <1>3. u.notify \in Notify /\ u.delta \in Int
    BY <1>1, <1>2, UpdateType
  <1>4. d \in Int
    BY <1>1, <1>2, SequenceDeltaType
  <1>5. Notifications(n, p.header) \in Seq(BOOLEAN)
    BY <1>1, <1>2, NotificationsType
  <1>6. NotifyTyped'
    <2>1. notify' = [notify EXCEPT ![e] = u.notify]
      BY DEF ReceiveNew
    <2>2. notes' = [notes EXCEPT ![e] = Notifications(n, p.header)]
      BY DEF ReceiveNew
    <2>3. \E k \in Int : InPacketId' = [InPacketId EXCEPT ![e] = InPacketId[e] + k]
      BY <1>3, <1>4 DEF ReceiveNew
    <2>4. LastNotified' = LastNotified
      BY DEF ReceiveNew
    <2> HIDE DEF n, u
    <2> QED BY <1>3, <1>5, <2>1, <2>2, <2>3, <2>4 DEF Typed, NotifyTyped
  <1>7. DatagramTyped'
    <2>1. Append(Pending[e], p) \in Seq(Datagram)
      BY <1>1
    <2>2. \E q \in Seq(Datagram) : Pending' = [Pending EXCEPT ![e] = q]
      BY <1>1, <2>1 DEF ReceiveNew
    <2> QED BY <2>2 DEF Typed, DatagramTyped, ReceiveNew
  <1> QED BY <1>6, <1>7

\* HandlePacketNotification keeps the types of the record and of the queues.
LEMMA NotificationTyped ==
  ASSUME Typed, NEW e \in Ep, HandlePacketNotification(e), notes[e] # << >>
  PROVE  NotifyTyped' /\ RecordTyped' /\ QueueTyped'
  <1>1. Tail(notes[e]) \in Seq(BOOLEAN) /\ LastNotified[e] + 1 \in Int
    BY HeadTail DEF Typed, NotifyTyped
  <1>2. NotifyTyped'
    BY <1>1 DEF Typed, NotifyTyped, HandlePacketNotification
  <1>3. RecordTyped'
    <2>1. \/ Record' = Record
          \/ \E n \in 0 .. Len(Record[e]) - 1 :
                Record' = [Record EXCEPT ![e] = DropPacket(@, n)]
      BY DEF HandlePacketNotification
    <2>2. \A n \in 0 .. Len(Record[e]) - 1 : DropPacket(Record[e], n) \in Seq(RecordEntry)
      BY DEF Typed, RecordTyped, DropPacket
    <2>3. OutPacketId' = OutPacketId /\ LastRecordId' = LastRecordId
      BY DEF HandlePacketNotification, sendVars
    <2> QED BY <2>1, <2>2, <2>3 DEF Typed, RecordTyped
  <1>4. QueueTyped'
    <2>1. CASE UNCHANGED << OutUnAcked, OutBunchQueue >>
      BY <2>1 DEF Typed, QueueTyped, HandlePacketNotification
    <2>2. ASSUME NEW cs, NEW d, NotifyChannels(e, LastNotified[e] + 1, cs, d)
          PROVE  QueueTyped'
      <3> DEFINE id == LastNotified[e] + 1
                 U == [c \in Channels |-> IF c \in cs THEN Erase(OutUnAcked[e][c], id)
                                                      ELSE OutUnAcked[e][c]]
                 Q == [c \in Channels |-> IF c \in cs /\ ~ d
                         THEN BunchesOf(OutUnAcked[e][c], id) \o OutBunchQueue[e][c]
                         ELSE OutBunchQueue[e][c]]
      <3>1. \A c \in Channels : /\ OutUnAcked[e][c] \in MapTo(Seq(Bunch))
                                /\ OutBunchQueue[e][c] \in Seq(Bunch)
        BY ChannelValue DEF Typed, QueueTyped
      <3>2. \A c \in Channels : /\ Erase(OutUnAcked[e][c], id) \in MapTo(Seq(Bunch))
                                /\ BunchesOf(OutUnAcked[e][c], id) \in Seq(Bunch)
        BY <3>1, EraseType, BunchesOfType
      <3>3. U \in [Channels -> MapTo(Seq(Bunch))]
        BY <3>1, <3>2
      <3>4. Q \in [Channels -> Seq(Bunch)]
        BY <3>1, <3>2
      <3>5. OutUnAcked' = [OutUnAcked EXCEPT ![e] = U] /\ OutBunchQueue' = [OutBunchQueue EXCEPT ![e] = Q]
        BY <2>2 DEF NotifyChannels, Typed, QueueTyped, PerChannel
      <3>6. Submitted' = Submitted
        BY DEF HandlePacketNotification
      <3> HIDE DEF U, Q
      <3> QED BY <3>3, <3>4, <3>5, <3>6, ChannelsUpdate DEF Typed, QueueTyped
    <2> QED BY <2>1, <2>2 DEF HandlePacketNotification
  <1> QED BY <1>2, <1>3, <1>4

\* ForceRetransmitAllUnAcked moves bunches to the queue.
LEMMA ForceRetransmitTyped ==
  ASSUME Typed, NEW e \in Ep, NEW c \in Channels,
      NEW id \in DOMAIN OutUnAcked[e][c],
         ForceRetransmit(e, c, id)
  PROVE  QueueTyped'
  <1>1. OutUnAcked[e][c] \in MapTo(Seq(Bunch)) /\ OutBunchQueue[e][c] \in Seq(Bunch)
    BY ChannelValue DEF Typed, QueueTyped
  <1>2. /\ OutUnAcked[e][c][id] \o OutBunchQueue[e][c] \in Seq(Bunch)
        /\ Erase(OutUnAcked[e][c], id) \in MapTo(Seq(Bunch))
    BY <1>1, MapValue, EraseType
  <1> QED BY <1>2, ChannelUpdate DEF Typed, QueueTyped, ForceRetransmit

\* DispatchPacket puts a bunch aside under an integer.
LEMMA BufferBunchTyped ==
  ASSUME Typed, NEW e \in Ep, BufferBunch(e)
  PROVE  DatagramTyped' /\ InTyped'
  <1> DEFINE b == NextBunch(e)
  <1>1. Pending[e] \in Seq(Datagram) /\ Pending[e] # << >> /\ Head(Pending[e]).bunches # << >>
    BY DEF Typed, DatagramTyped, BufferBunch, HasBunch
  <1>2. b \in Bunch /\ DropBunch(Pending[e]) \in Seq(Datagram)
    BY <1>1, DropBunchType DEF NextBunch
  <1>3. DatagramTyped'
    BY <1>2 DEF Typed, DatagramTyped, BufferBunch
  <1>4. b.ch \in Channels /\ b.seq \in Int
    BY <1>2, BunchFields
  <1>5. InUnread[e][b.ch] \in MapTo(Bunch) /\ InReliable[e][b.ch] \in Int
    BY <1>4, ChannelValue DEF Typed, InTyped
  <1>6. AddUnread(InUnread[e][b.ch], Relative(e, b), b) \in MapTo(Bunch)
    BY <1>2, <1>4, <1>5, MakeRelativeType, AddUnreadType DEF Relative
  <1>7. InUnread' = [InUnread EXCEPT ![e][b.ch] = AddUnread(InUnread[e][b.ch], Relative(e, b), b)]
    BY DEF BufferBunch
  <1>8. UNCHANGED << InReliable, delivered, dispatched >>
    BY DEF BufferBunch
  <1> HIDE DEF b
  <1>9. InTyped'
    BY <1>4, <1>6, <1>7, <1>8, ChannelUpdate DEF Typed, InTyped
  <1> QED BY <1>3, <1>9

\* DispatchRawBunch appends bunches to what was delivered.
LEMMA DispatchBunchTyped ==
  ASSUME Typed, NEW e \in Ep, DispatchBunch(e)
  PROVE  DatagramTyped' /\ InTyped'
  <1> DEFINE b == NextBunch(e)
             c == b.ch
             last == InReliable[e][c] + 1
             unread == InUnread[e][c]
  <1>1. Pending[e] \in Seq(Datagram) /\ Pending[e] # << >> /\ Head(Pending[e]).bunches # << >>
    BY DEF Typed, DatagramTyped, DispatchBunch, HasBunch
  <1>2. b \in Bunch /\ DropBunch(Pending[e]) \in Seq(Datagram)
    BY <1>1, DropBunchType DEF NextBunch
  <1>3. DatagramTyped'
    BY <1>2 DEF Typed, DatagramTyped, DispatchBunch
  <1>4. c \in Channels
    BY <1>2, BunchFields
  <1>5. unread \in MapTo(Bunch) /\ last \in Int /\ delivered[e][c] \in Seq(Bunch)
    BY <1>4, ChannelValue DEF Typed, InTyped
  <1>6. PICK n \in 0 .. Cardinality(DOMAIN unread) :
          /\ IsDrainLength(unread, last, n)
          /\ InReliable' = [InReliable EXCEPT ![e][c] = last + n]
          /\ delivered' = [delivered EXCEPT ![e][c] =
                             Append(delivered[e][c], b) \o DrainedBunches(unread, last, n)]
          /\ InUnread' = [InUnread EXCEPT ![e][c] = Drained(unread, last, n)]
    BY DEF DispatchBunch
  <1> HIDE DEF unread, last, c, b
  <1>7. n \in Nat
    OBVIOUS
  <1>8. Drained(unread, last, n) \in MapTo(Bunch) /\ DrainedBunches(unread, last, n) \in Seq(Bunch)
    BY <1>5, <1>6, <1>7, DrainedType
  <1>9. last + n \in Int /\ Append(delivered[e][c], b) \o DrainedBunches(unread, last, n) \in Seq(Bunch)
    BY <1>2, <1>5, <1>7, <1>8
  <1>10. dispatched' = dispatched
    BY DEF DispatchBunch
  <1>11. InTyped'
    BY <1>4, <1>6, <1>8, <1>9, <1>10, ChannelUpdate DEF Typed, InTyped
  <1> QED BY <1>3, <1>11

\* AckSeq at the end of a packet keeps the type of PacketNotify.
LEMMA AckPacketTyped ==
  ASSUME Typed, NEW e \in Ep, AckPacket(e)
  PROVE  NotifyTyped' /\ DatagramTyped' /\ InTyped'
  <1>1. /\ Head(Pending[e]) \in Datagram /\ Tail(Pending[e]) \in Seq(Datagram)
        /\ notify[e] \in Notify /\ InPacketId[e] \in Int
    BY HeadTail DEF Typed, DatagramTyped, NotifyTyped, AckPacket
  <1>2. AckSeq(notify[e], ToSeq(InPacketId[e]), TRUE) \in Notify
    BY <1>1, ToSeqType, AckSeqType
  <1>3. NotifyTyped'
    BY <1>2 DEF Typed, NotifyTyped, AckPacket
  <1>4. DatagramTyped'
    BY <1>1 DEF Typed, DatagramTyped, AckPacket
  <1>5. Head(Pending[e]).header.seq \in SeqNums
    BY <1>1, DatagramFields DEF Header
  <1>6. InTyped'
    BY <1>5 DEF Typed, InTyped, AckPacket
  <1> QED BY <1>3, <1>4, <1>6

\* TickFlush of the channels adds sealed bunches to the queues.
LEMMA TickChannelsTyped ==
  ASSUME Typed, NEW e \in Ep, TickChannels(e)
  PROVE  QueueTyped' /\ SealedTyped'
  <1> DEFINE new   == [c \in Channels |-> SealedBunches(c, OutReliable[e][c], Submitted[e][c])]
             queue == [c \in Channels |-> OutBunchQueue[e][c] \o new[c]]
             all   == [c \in Channels |-> sealed[e][c] \o new[c]]
             count == [c \in Channels |-> OutReliable[e][c] + Len(new[c])]
             none  == [c \in Channels |-> << >>]
  <1>1. \A c \in Channels : /\ OutReliable[e][c] \in Int /\ Submitted[e][c] \in Seq(Nat)
                            /\ OutBunchQueue[e][c] \in Seq(Bunch) /\ sealed[e][c] \in Seq(Bunch)
    BY ChannelValue DEF Typed, QueueTyped, SealedTyped
  <1>2. \A c \in Channels : new[c] \in Seq(Bunch)
    BY <1>1, SealedBunchesType
  <1>3. OutBunchQueue' = [OutBunchQueue EXCEPT ![e] = queue]
    BY DEF TickChannels
  <1>4. sealed' = [sealed EXCEPT ![e] = all]
    BY DEF TickChannels, Typed, SealedTyped, PerChannel
  <1>5. OutReliable' = [OutReliable EXCEPT ![e] = count]
    BY DEF TickChannels, Typed, SealedTyped, PerChannel
  <1>6. Submitted' = [Submitted EXCEPT ![e] = none] /\ OutUnAcked' = OutUnAcked
    BY DEF TickChannels
  <1> HIDE DEF new
  <1>7. queue \in [Channels -> Seq(Bunch)] /\ all \in [Channels -> Seq(Bunch)]
    BY <1>1, <1>2
  <1>8. count \in [Channels -> Int] /\ none \in [Channels -> Seq(Nat)]
    BY <1>1, <1>2
  <1> HIDE DEF queue, all, count, none
  <1>9. QueueTyped'
    BY <1>3, <1>6, <1>7, <1>8, ChannelsUpdate DEF Typed, QueueTyped
  <1>10. SealedTyped'
    BY <1>4, <1>5, <1>7, <1>8, ChannelsUpdate DEF Typed, SealedTyped
  <1> QED BY <1>9, <1>10

\* PushPacketId adds a record entry.
LEMMA PushPacketIdType ==
  ASSUME NEW r \in Seq(RecordEntry), NEW last, NEW id \in Int
  PROVE  PushPacketId(r, last, id) \in Seq(RecordEntry)
  <1>1. Marker(id) \in RecordEntry BY DEF Marker, RecordEntry
  <1> QED BY <1>1 DEF PushPacketId

\* createNewPacket makes a packet.
LEMMA NewPacketType ==
  ASSUME NEW id \in Int PROVE NewPacket(id) \in Packet
  BY ConnectionAssumption DEF NewPacket, Packet

\* There is a packet open when a bunch is packed.
LEMMA OpenedType ==
  ASSUME Typed, NEW e \in Ep
  PROVE  Opened(e) \in Seq(Packet) /\ Opened(e) # << >> /\ OutPacketId[e] \in Int
  <1>1. OutPacketId[e] \in Int /\ asm[e] \in Seq(Packet)
    BY DEF Typed, RecordTyped, PacketTyped
  <1>2. << NewPacket(OutPacketId[e]) >> \in Seq(Packet)
    BY <1>1, NewPacketType
  <1> QED BY <1>1, <1>2 DEF Opened

\* The id under which a bunch is accounted for is an integer.
LEMMA PacketIdType ==
  ASSUME Typed, NEW e \in Ep, NEW b PROVE PacketId(e, b) \in Int
  BY OpenedType DEF PacketId

\* The packets of an assembly, after a bunch found its packet.
LEMMA PacketsType ==
  ASSUME Typed, NEW e \in Ep, NEW b PROVE Packets(e,
      b) \in Seq(Packet) /\ Packets(e, b) # << >>
  <1>1. NewPacket(PacketId(e, b)) \in Packet
    BY PacketIdType, NewPacketType
  <1> QED BY <1>1, OpenedType DEF Packets

\* PushChannelRecord keeps the type of the record.
LEMMA RecordBunchTyped ==
  ASSUME Typed, NEW e \in Ep, NEW c \in Channels, NEW b, RecordBunch(e, c, b),
         OutPacketId' = [OutPacketId EXCEPT ![e] = PacketId(e, b)]
  PROVE  RecordTyped'
  <1> DEFINE opened == IF asm[e] = << >>
                       THEN PushPacketId(Record[e], LastRecordId[e], OutPacketId[e])
                       ELSE Record[e]
             last   == IF asm[e] = << >> THEN OutPacketId[e] ELSE LastRecordId[e]
             marked == PushPacketId(opened, last, PacketId(e, b))
  <1>1. Record[e] \in Seq(RecordEntry) /\ OutPacketId[e] \in Int
    BY DEF Typed, RecordTyped
  <1>2. PacketId(e, b) \in Int
    BY PacketIdType
  <1>3. opened \in Seq(RecordEntry)
    BY <1>1, PushPacketIdType
  <1> HIDE DEF opened
  <1>4. marked \in Seq(RecordEntry)
    BY <1>2, <1>3, PushPacketIdType
  <1>5. ChannelOf(c) \in RecordEntry
    BY ConnectionAssumption DEF ChannelOf, RecordEntry
  <1> HIDE DEF marked
  <1>6. Append(marked, ChannelOf(c)) \in Seq(RecordEntry)
    BY <1>4, <1>5
  <1>7. /\ Record' = [Record EXCEPT ![e] = Append(marked, ChannelOf(c))]
        /\ LastRecordId' = [LastRecordId EXCEPT ![e] = PacketId(e, b)]
    BY DEF RecordBunch, marked, opened
  <1> QED BY <1>2, <1>6, <1>7 DEF Typed, RecordTyped

\* AddUnAckedOutBunch and Append keep the types of packets and queues.
LEMMA PackBunchTyped ==
  ASSUME Typed, NEW e \in Ep, NEW c \in Channels, PackBunch(e, c)
  PROVE  RecordTyped' /\ PacketTyped' /\ QueueTyped'
  <1> DEFINE b  == Head(OutBunchQueue[e][c])
             ps == Packets(e, b)
             p  == LastOf(ps)
             q  == [p EXCEPT !.size = @ + TotalSize(b), !.bunches = Append(@, b)]
  <1>1. OutBunchQueue[e][c] \in Seq(Bunch) /\ OutUnAcked[e][c] \in MapTo(Seq(Bunch))
    BY ChannelValue DEF Typed, QueueTyped
  <1>2. b \in Bunch /\ Tail(OutBunchQueue[e][c]) \in Seq(Bunch)
    BY <1>1, HeadTail DEF PackBunch, IsNextChannel
  <1>3. p \in Packet /\ FrontOf(ps) \in Seq(Packet) /\ ps \in Seq(Packet)
    BY PacketsType, LastFront
  <1>4. RecordTyped'
    BY RecordBunchTyped DEF PackBunch
  <1>5. /\ asm' = [asm EXCEPT ![e] = Append(FrontOf(ps), q)] \/ asm' = [asm EXCEPT ![e] = ps]
        /\ OutPacketQueue' = OutPacketQueue
        /\ OutUnAcked' = [OutUnAcked EXCEPT ![e][c] = AddUnAcked(OutUnAcked[e][c], p.id, b)]
        /\ OutBunchQueue' = [OutBunchQueue EXCEPT ![e][c] = Tail(OutBunchQueue[e][c])]
        /\ Submitted' = Submitted
    BY DEF PackBunch
  <1> HIDE DEF p, ps, b
  <1>6. p.id \in Int /\ p.size \in Nat /\ p.bunches \in Seq(Bunch)
    BY <1>3 DEF Packet
  <1>7. p.size + TotalSize(b) \in Nat /\ Append(p.bunches, b) \in Seq(Bunch)
    BY <1>2, <1>6, BunchFields, ConnectionAssumption DEF TotalSize
  <1>8. q \in Packet
    BY <1>3, <1>7 DEF Packet
  <1> HIDE DEF q
  <1>9. PacketTyped'
    <2>1. Append(FrontOf(ps), q) \in Seq(Packet)
      BY <1>3, <1>8
    <2> QED BY <1>3, <1>5, <2>1 DEF Typed, PacketTyped
  <1>10. QueueTyped'
    <2>1. AddUnAcked(OutUnAcked[e][c], p.id, b) \in MapTo(Seq(Bunch))
      BY <1>1, <1>2, <1>6, AddUnAckedType
    <2> QED BY <1>2, <1>5, <2>1, ChannelUpdate DEF Typed, QueueTyped
  <1> QED BY <1>4, <1>9, <1>10

\* The early return of AssembleOutgoingPackets keeps the types.
LEMMA OverflowTyped ==
  ASSUME Typed, NEW e \in Ep, NEW c \in Channels, OverflowReliableBuffer(e, c)
  PROVE  RecordTyped' /\ PacketTyped' /\ QueueTyped'
  <1>1. Tail(OutBunchQueue[e][c]) \in Seq(Bunch)
    BY ChannelValue, HeadTail DEF Typed, QueueTyped, OverflowReliableBuffer,
        IsNextChannel
  <1>2. RecordTyped'
    BY RecordBunchTyped DEF OverflowReliableBuffer
  <1>3. PacketTyped'
    BY DEF Typed, PacketTyped, OverflowReliableBuffer
  <1>4. QueueTyped'
    BY <1>1, ChannelUpdate DEF Typed, QueueTyped, OverflowReliableBuffer
  <1> QED BY <1>2, <1>3, <1>4

\* DiscardOutReadyBunch drops the head of the queue.
LEMMA DiscardTyped ==
  ASSUME Typed, NEW e \in Ep, NEW c \in Channels, DiscardBunch(e, c)
  PROVE  QueueTyped'
  <1>1. Tail(OutBunchQueue[e][c]) \in Seq(Bunch)
    BY ChannelValue, HeadTail DEF Typed, QueueTyped, DiscardBunch, IsNextChannel
  <1> QED BY <1>1, ChannelUpdate DEF Typed, QueueTyped, DiscardBunch

\* The packets of an assembly are queued.
LEMMA FinishTyped ==
  ASSUME Typed, NEW e \in Ep, FinishAssembly(e)
  PROVE  RecordTyped' /\ PacketTyped'
  <1>1. asm[e] \in Seq(Packet) /\ OutPacketQueue[e] \in Seq(Packet)
    BY DEF Typed, PacketTyped
  <1>2. \A q \in {asm[e], FrontOf(asm[e])} : asm[e] # << >> => q \in Seq(Packet)
    BY <1>1, LastFront
  <1>3. \E q \in Seq(Packet) :
           OutPacketQueue' = [OutPacketQueue EXCEPT ![e] = OutPacketQueue[e] \o q]
    BY <1>1, <1>2 DEF FinishAssembly
  <1>4. asm' = [asm EXCEPT ![e] = << >>]
    BY DEF FinishAssembly
  <1>5. PacketTyped'
    BY <1>1, <1>3, <1>4 DEF Typed, PacketTyped
  <1>6. RecordTyped'
    BY DEF Typed, RecordTyped, FinishAssembly, recVars
  <1> QED BY <1>5, <1>6

\* A keep-alive is queued as a packet without bunches.
LEMMA KeepAliveTyped ==
  ASSUME Typed, NEW e \in Ep, SendKeepAlive(e)
  PROVE  RecordTyped' /\ PacketTyped'
  <1>1. /\ OutPacketId[e] \in Int /\ Record[e] \in Seq(RecordEntry)
        /\ OutPacketQueue[e] \in Seq(Packet)
    BY DEF Typed, RecordTyped, PacketTyped
  <1>2. Append(OutPacketQueue[e], NewPacket(OutPacketId[e])) \in Seq(Packet)
    BY <1>1, NewPacketType
  <1>3. PacketTyped'
    BY <1>2 DEF Typed, PacketTyped, SendKeepAlive, NewPacket
  <1>4. RecordTyped'
    BY <1>1, PushPacketIdType DEF Typed, RecordTyped, SendKeepAlive
  <1> QED BY <1>3, <1>4

\* UpdatePacketHeader and SendToRemote: a packet becomes a datagram.
LEMMA SendPacketTyped ==
  ASSUME Typed, NEW e \in Ep, SendPacket(e), OutPacketQueue[e] # << >>
  PROVE  NotifyTyped' /\ PacketTyped' /\ DatagramTyped'
  <1>1. /\ notify[e] \in Notify
        /\ Head(OutPacketQueue[e]) \in Packet /\ Tail(OutPacketQueue[e]) \in Seq(Packet)
    BY HeadTail DEF Typed, NotifyTyped, PacketTyped
  <1>2. NotifyTyped'
    BY <1>1, CommitType DEF Typed, NotifyTyped, SendPacket, recvVars
  <1>3. PacketTyped'
    BY <1>1 DEF Typed, PacketTyped, SendPacket
  <1>4. [header |-> WriteHeader(notify[e]), bunches |-> Head(OutPacketQueue[e]).bunches] \in Datagram
    BY <1>1, WriteHeaderType DEF Packet, Datagram
  <1>5. DatagramTyped'
    BY <1>4 DEF Typed, DatagramTyped, SendPacket, recvVars
  <1> QED BY <1>2, <1>3, <1>5

-----------------------------------------------------------------------------
(* A loop that runs has something left to do: without it the heads and     *)
(* tails the loops take would have no type.                                *)

LoopsGuarded ==
    \A e \in Ep : /\ pc[e] = "acks" => notes[e] # << >>
                  /\ pc[e] = "flush" => OutPacketQueue[e] # << >>

TypeInv == Typed /\ LoopsGuarded

\* The loops over notes and OutPacketQueue go on while something is left.
LEMMA LongTail ==
  ASSUME NEW S, NEW q \in Seq(S), Len(q) > 1 PROVE Tail(q) # << >>
  <1>1. Len(q) \in Nat /\ q # << >>
    OBVIOUS
  <1>2. Len(Tail(q)) = Len(q) - 1
    BY <1>1
  <1>3. Len(Tail(q)) # 0
    BY <1>1, <1>2
  <1>4. Len(<< >>) = 0
    OBVIOUS
  <1> QED BY <1>3, <1>4, Zenon

\* SendNetMessage keeps the inductive invariant.
LEMMA SendNetMessageStep ==
  ASSUME TypeInv, NEW e \in Ep, NEW c \in Channels, NEW size \in Sizes,
      SendNetMessage(e, c, size)
  PROVE  TypeInv'
  <1> USE DEF TypeInv
  <1>1. QueueTyped'
    BY SubmitTyped
  <1>2. /\ CtlTyped' /\ NotifyTyped' /\ RecordTyped' /\ PacketTyped'
        /\ SealedTyped' /\ DatagramTyped' /\ InTyped'
    BY DEF Typed, CtlTyped, NotifyTyped, RecordTyped, PacketTyped, SealedTyped,
        DatagramTyped, InTyped, SendNetMessage, Close, ctlVars, inVars, outVars,
        recVars, recvVars, sendVars
  <1>3. LoopsGuarded'
    BY DEF LoopsGuarded, Typed, CtlTyped, NotifyTyped, PacketTyped,
        SendNetMessage, ctlVars, recvVars, sendVars
  <1> QED BY <1>1, <1>2, <1>3 DEF Typed

\* ReceiveOld keeps the inductive invariant.
LEMMA ReceiveOldStep ==
  ASSUME TypeInv, NEW e \in Ep, NEW p \in net[e], ReceiveOld(e, p)
  PROVE  TypeInv'
  <1> USE DEF TypeInv
  <1>1. DatagramTyped'
    BY ReceiveOldTyped
  <1>2. /\ CtlTyped' /\ NotifyTyped' /\ RecordTyped' /\ PacketTyped'
        /\ QueueTyped' /\ SealedTyped' /\ InTyped'
    BY DEF Typed, CtlTyped, NotifyTyped, RecordTyped, PacketTyped, QueueTyped,
        SealedTyped, InTyped, ReceiveOld, Close, ctlVars, inVars, outVars,
        recVars, recvVars, sendVars
  <1>3. LoopsGuarded'
    BY DEF LoopsGuarded, Typed, CtlTyped, NotifyTyped, PacketTyped, ReceiveOld,
        ctlVars, recvVars, sendVars
  <1> QED BY <1>1, <1>2, <1>3 DEF Typed

\* ReceiveNew keeps the inductive invariant.
LEMMA ReceiveNewStep ==
  ASSUME TypeInv, NEW e \in Ep, NEW p \in net[e], ReceiveNew(e, p)
  PROVE  TypeInv'
  <1> USE DEF TypeInv
  <1>1. NotifyTyped' /\ DatagramTyped'
    BY ReceiveNewTyped
  <1>2. /\ CtlTyped' /\ RecordTyped' /\ PacketTyped'
        /\ QueueTyped' /\ SealedTyped' /\ InTyped'
    BY DEF Typed, CtlTyped, RecordTyped, PacketTyped, QueueTyped, SealedTyped,
        InTyped, ReceiveNew, Close, ctlVars, inVars, outVars, recVars, sendVars
  <1>3. LoopsGuarded'
    <2> DEFINE n == notify[e]
               h == p.header
    <2>1. n \in Notify /\ h \in Header
      BY DatagramFields DEF Typed, NotifyTyped, DatagramTyped
    <2>2. AckCount(n, h) > 0 => Notifications(n, h) # << >>
      BY <2>1, NotificationsType, AckCountType
    <2>3. /\ notes' = [notes EXCEPT ![e] = Notifications(n, h)]
          /\ \/ pc' = [pc EXCEPT ![e] = "acks"] /\ AckCount(n, h) > 0
             \/ pc' = [pc EXCEPT ![e] = "retransmit"]
             \/ pc' = [pc EXCEPT ![e] = "idle"]
          /\ UNCHANGED OutPacketQueue
      BY DEF ReceiveNew, sendVars
    <2> HIDE DEF n, h
    <2> QED BY <2>2, <2>3 DEF LoopsGuarded, Typed, CtlTyped, NotifyTyped
  <1> QED BY <1>1, <1>2, <1>3 DEF Typed

\* HandlePacketNotification keeps the inductive invariant.
LEMMA HandlePacketNotificationStep ==
  ASSUME TypeInv, NEW e \in Ep, HandlePacketNotification(e)
  PROVE  TypeInv'
  <1> USE DEF TypeInv
  <1>1. NotifyTyped' /\ RecordTyped' /\ QueueTyped'
    BY NotificationTyped DEF LoopsGuarded, HandlePacketNotification
  <1>2. CtlTyped' /\ PacketTyped' /\ SealedTyped' /\ DatagramTyped' /\ InTyped'
    BY DEF Typed, CtlTyped, PacketTyped, SealedTyped, DatagramTyped, InTyped,
        HandlePacketNotification, Close, ctlVars, inVars, outVars, recvVars,
        sendVars
  <1>3. LoopsGuarded'
    <2>1. Len(notes[e]) > 1 => Tail(notes[e]) # << >>
      BY LongTail DEF Typed, NotifyTyped
    <2>2. /\ notes' = [notes EXCEPT ![e] = Tail(@)]
          /\ \/ pc' = [pc EXCEPT ![e] = "acks"] /\ Len(notes[e]) > 1
             \/ pc' = [pc EXCEPT ![e] = "retransmit"]
             \/ pc' = [pc EXCEPT ![e] = "idle"]
          /\ UNCHANGED OutPacketQueue
      BY DEF HandlePacketNotification, sendVars
    <2> QED BY <2>1, <2>2 DEF LoopsGuarded, Typed, CtlTyped, NotifyTyped
  <1> QED BY <1>1, <1>2, <1>3 DEF Typed

\* ForceRetransmit keeps the inductive invariant.
LEMMA ForceRetransmitStep ==
  ASSUME TypeInv, NEW e \in Ep, NEW c \in Channels,
      NEW id \in DOMAIN OutUnAcked[e][c], ForceRetransmit(e, c, id)
  PROVE  TypeInv'
  <1> USE DEF TypeInv
  <1>1. QueueTyped'
    BY ForceRetransmitTyped
  <1>2. /\ CtlTyped' /\ NotifyTyped' /\ RecordTyped' /\ PacketTyped'
        /\ SealedTyped' /\ DatagramTyped' /\ InTyped'
    BY DEF Typed, CtlTyped, NotifyTyped, RecordTyped, PacketTyped, SealedTyped,
        DatagramTyped, InTyped, ForceRetransmit, Close, ctlVars, inVars, outVars,
        recVars, recvVars, sendVars
  <1>3. LoopsGuarded'
    BY DEF LoopsGuarded, Typed, CtlTyped, NotifyTyped, PacketTyped,
        ForceRetransmit, ctlVars, recvVars, sendVars
  <1> QED BY <1>1, <1>2, <1>3 DEF Typed

\* RetransmitDone keeps the inductive invariant.
LEMMA RetransmitDoneStep ==
  ASSUME TypeInv, NEW e \in Ep, RetransmitDone(e)
  PROVE  TypeInv'
  <1> USE DEF TypeInv
  <1>1. /\ CtlTyped' /\ NotifyTyped' /\ RecordTyped' /\ PacketTyped'
        /\ QueueTyped' /\ SealedTyped' /\ DatagramTyped' /\ InTyped'
    BY DEF Typed, CtlTyped, NotifyTyped, RecordTyped, PacketTyped, QueueTyped,
        SealedTyped, DatagramTyped, InTyped, RetransmitDone, Close, ctlVars,
        inVars, outVars, recVars, recvVars, sendVars
  <1>2. LoopsGuarded'
    BY DEF LoopsGuarded, Typed, CtlTyped, NotifyTyped, PacketTyped,
        RetransmitDone, ctlVars, recvVars, sendVars
  <1> QED BY <1>1, <1>2 DEF Typed

\* TickDispatch keeps the inductive invariant.
LEMMA TickDispatchStep ==
  ASSUME TypeInv, NEW e \in Ep, TickDispatch(e)
  PROVE  TypeInv'
  <1> USE DEF TypeInv
  <1>1. /\ CtlTyped' /\ NotifyTyped' /\ RecordTyped' /\ PacketTyped'
        /\ QueueTyped' /\ SealedTyped' /\ DatagramTyped' /\ InTyped'
    BY DEF Typed, CtlTyped, NotifyTyped, RecordTyped, PacketTyped, QueueTyped,
        SealedTyped, DatagramTyped, InTyped, TickDispatch, Close, ctlVars,
        inVars, outVars, recVars, recvVars, sendVars
  <1>2. LoopsGuarded'
    BY DEF LoopsGuarded, Typed, CtlTyped, NotifyTyped, PacketTyped, TickDispatch,
        ctlVars, recvVars, sendVars
  <1> QED BY <1>1, <1>2 DEF Typed

\* BufferBunch keeps the inductive invariant.
LEMMA BufferBunchStep ==
  ASSUME TypeInv, NEW e \in Ep, BufferBunch(e)
  PROVE  TypeInv'
  <1> USE DEF TypeInv
  <1>1. DatagramTyped' /\ InTyped'
    BY BufferBunchTyped
  <1>2. /\ CtlTyped' /\ NotifyTyped' /\ RecordTyped'
        /\ PacketTyped' /\ QueueTyped' /\ SealedTyped'
    BY DEF Typed, CtlTyped, NotifyTyped, RecordTyped, PacketTyped, QueueTyped,
        SealedTyped, BufferBunch, Close, ctlVars, outVars, recVars, recvVars,
        sendVars
  <1>3. LoopsGuarded'
    BY DEF LoopsGuarded, Typed, CtlTyped, NotifyTyped, PacketTyped, BufferBunch,
        ctlVars, recvVars, sendVars
  <1> QED BY <1>1, <1>2, <1>3 DEF Typed

\* DispatchBunch keeps the inductive invariant.
LEMMA DispatchBunchStep ==
  ASSUME TypeInv, NEW e \in Ep, DispatchBunch(e)
  PROVE  TypeInv'
  <1> USE DEF TypeInv
  <1>1. DatagramTyped' /\ InTyped'
    BY DispatchBunchTyped
  <1>2. /\ CtlTyped' /\ NotifyTyped' /\ RecordTyped'
        /\ PacketTyped' /\ QueueTyped' /\ SealedTyped'
    BY DEF Typed, CtlTyped, NotifyTyped, RecordTyped, PacketTyped, QueueTyped,
        SealedTyped, DispatchBunch, Close, ctlVars, outVars, recVars, recvVars,
        sendVars
  <1>3. LoopsGuarded'
    BY DEF LoopsGuarded, Typed, CtlTyped, NotifyTyped, PacketTyped,
        DispatchBunch, ctlVars, recvVars, sendVars
  <1> QED BY <1>1, <1>2, <1>3 DEF Typed

\* AckPacket keeps the inductive invariant.
LEMMA AckPacketStep ==
  ASSUME TypeInv, NEW e \in Ep, AckPacket(e)
  PROVE  TypeInv'
  <1> USE DEF TypeInv
  <1>1. NotifyTyped' /\ DatagramTyped' /\ InTyped'
    BY AckPacketTyped
  <1>2. CtlTyped' /\ RecordTyped' /\ PacketTyped' /\ QueueTyped' /\ SealedTyped'
    BY DEF Typed, CtlTyped, RecordTyped, PacketTyped, QueueTyped, SealedTyped,
        AckPacket, Close, ctlVars, outVars, recVars, sendVars
  <1>3. LoopsGuarded'
    BY DEF LoopsGuarded, Typed, CtlTyped, NotifyTyped, PacketTyped, AckPacket,
        ctlVars, recvVars, sendVars
  <1> QED BY <1>1, <1>2, <1>3 DEF Typed

\* TickChannels keeps the inductive invariant.
LEMMA TickChannelsStep ==
  ASSUME TypeInv, NEW e \in Ep, TickChannels(e)
  PROVE  TypeInv'
  <1> USE DEF TypeInv
  <1>1. QueueTyped' /\ SealedTyped'
    BY TickChannelsTyped
  <1>2. /\ CtlTyped' /\ NotifyTyped' /\ RecordTyped'
        /\ PacketTyped' /\ DatagramTyped' /\ InTyped'
    BY DEF Typed, CtlTyped, NotifyTyped, RecordTyped, PacketTyped, DatagramTyped,
        InTyped, TickChannels, Close, ctlVars, inVars, recVars, recvVars,
        sendVars
  <1>3. LoopsGuarded'
    BY DEF LoopsGuarded, Typed, CtlTyped, NotifyTyped, PacketTyped, TickChannels,
        ctlVars, recvVars, sendVars
  <1> QED BY <1>1, <1>2, <1>3 DEF Typed

\* DiscardBunch keeps the inductive invariant.
LEMMA DiscardBunchStep ==
  ASSUME TypeInv, NEW e \in Ep, NEW c \in Channels, DiscardBunch(e, c)
  PROVE  TypeInv'
  <1> USE DEF TypeInv
  <1>1. QueueTyped'
    BY DiscardTyped
  <1>2. /\ CtlTyped' /\ NotifyTyped' /\ RecordTyped' /\ PacketTyped'
        /\ SealedTyped' /\ DatagramTyped' /\ InTyped'
    BY DEF Typed, CtlTyped, NotifyTyped, RecordTyped, PacketTyped, SealedTyped,
        DatagramTyped, InTyped, DiscardBunch, Close, ctlVars, inVars, outVars,
        recVars, recvVars, sendVars
  <1>3. LoopsGuarded'
    BY DEF LoopsGuarded, Typed, CtlTyped, NotifyTyped, PacketTyped, DiscardBunch,
        ctlVars, recvVars, sendVars
  <1> QED BY <1>1, <1>2, <1>3 DEF Typed

\* PackBunch keeps the inductive invariant.
LEMMA PackBunchStep ==
  ASSUME TypeInv, NEW e \in Ep, NEW c \in Channels, PackBunch(e, c)
  PROVE  TypeInv'
  <1> USE DEF TypeInv
  <1>1. RecordTyped' /\ PacketTyped' /\ QueueTyped'
    BY PackBunchTyped
  <1>2. CtlTyped' /\ NotifyTyped' /\ SealedTyped' /\ DatagramTyped' /\ InTyped'
    BY DEF Typed, CtlTyped, NotifyTyped, SealedTyped, DatagramTyped, InTyped,
        PackBunch, Close, ctlVars, inVars, outVars, recvVars
  <1>3. LoopsGuarded'
    BY DEF LoopsGuarded, Typed, CtlTyped, NotifyTyped, PacketTyped, PackBunch,
        ctlVars, recvVars, sendVars
  <1> QED BY <1>1, <1>2, <1>3 DEF Typed

\* OverflowReliableBuffer keeps the inductive invariant.
LEMMA OverflowReliableBufferStep ==
  ASSUME TypeInv, NEW e \in Ep, NEW c \in Channels, OverflowReliableBuffer(e, c)
  PROVE  TypeInv'
  <1> USE DEF TypeInv
  <1>1. RecordTyped' /\ PacketTyped' /\ QueueTyped'
    BY OverflowTyped
  <1>2. CtlTyped' /\ NotifyTyped' /\ SealedTyped' /\ DatagramTyped' /\ InTyped'
    BY DEF Typed, CtlTyped, NotifyTyped, SealedTyped, DatagramTyped, InTyped,
        OverflowReliableBuffer, Close, ctlVars, inVars, outVars, recvVars
  <1>3. LoopsGuarded'
    BY DEF LoopsGuarded, Typed, CtlTyped, NotifyTyped, PacketTyped,
        OverflowReliableBuffer, ctlVars, recvVars, sendVars
  <1> QED BY <1>1, <1>2, <1>3 DEF Typed

\* FinishAssembly keeps the inductive invariant.
LEMMA FinishAssemblyStep ==
  ASSUME TypeInv, NEW e \in Ep, FinishAssembly(e)
  PROVE  TypeInv'
  <1> USE DEF TypeInv
  <1>1. RecordTyped' /\ PacketTyped'
    BY FinishTyped
  <1>2. /\ CtlTyped' /\ NotifyTyped' /\ QueueTyped'
        /\ SealedTyped' /\ DatagramTyped' /\ InTyped'
    BY DEF Typed, CtlTyped, NotifyTyped, QueueTyped, SealedTyped, DatagramTyped,
        InTyped, FinishAssembly, Close, ctlVars, inVars, outVars, recvVars
  <1>3. LoopsGuarded'
    BY DEF LoopsGuarded, Typed, CtlTyped, NotifyTyped, PacketTyped,
        FinishAssembly, ctlVars, recvVars, sendVars
  <1> QED BY <1>1, <1>2, <1>3 DEF Typed

\* SendKeepAlive keeps the inductive invariant.
LEMMA SendKeepAliveStep ==
  ASSUME TypeInv, NEW e \in Ep, SendKeepAlive(e)
  PROVE  TypeInv'
  <1> USE DEF TypeInv
  <1>1. RecordTyped' /\ PacketTyped'
    BY KeepAliveTyped
  <1>2. /\ CtlTyped' /\ NotifyTyped' /\ QueueTyped'
        /\ SealedTyped' /\ DatagramTyped' /\ InTyped'
    BY DEF Typed, CtlTyped, NotifyTyped, QueueTyped, SealedTyped, DatagramTyped,
        InTyped, SendKeepAlive, Close, ctlVars, inVars, outVars, recvVars
  <1>3. LoopsGuarded'
    BY DEF LoopsGuarded, Typed, CtlTyped, NotifyTyped, PacketTyped,
        SendKeepAlive, ctlVars, recvVars, sendVars
  <1> QED BY <1>1, <1>2, <1>3 DEF Typed

\* NothingToSend keeps the inductive invariant.
LEMMA NothingToSendStep ==
  ASSUME TypeInv, NEW e \in Ep, NothingToSend(e)
  PROVE  TypeInv'
  <1> USE DEF TypeInv
  <1>1. /\ CtlTyped' /\ NotifyTyped' /\ RecordTyped' /\ PacketTyped'
        /\ QueueTyped' /\ SealedTyped' /\ DatagramTyped' /\ InTyped'
    BY DEF Typed, CtlTyped, NotifyTyped, RecordTyped, PacketTyped, QueueTyped,
        SealedTyped, DatagramTyped, InTyped, NothingToSend, Close, ctlVars,
        inVars, outVars, recVars, recvVars, sendVars
  <1>2. LoopsGuarded'
    BY DEF LoopsGuarded, Typed, CtlTyped, NotifyTyped, PacketTyped,
        NothingToSend, ctlVars, recvVars, sendVars
  <1> QED BY <1>1, <1>2 DEF Typed

\* TickFlush keeps the inductive invariant.
LEMMA TickFlushStep ==
  ASSUME TypeInv, NEW e \in Ep, TickFlush(e)
  PROVE  TypeInv'
  <1> USE DEF TypeInv
  <1>1. /\ CtlTyped' /\ NotifyTyped' /\ RecordTyped' /\ PacketTyped'
        /\ QueueTyped' /\ SealedTyped' /\ DatagramTyped' /\ InTyped'
    BY DEF Typed, CtlTyped, NotifyTyped, RecordTyped, PacketTyped, QueueTyped,
        SealedTyped, DatagramTyped, InTyped, TickFlush, Close, ctlVars, inVars,
        outVars, recVars, recvVars, sendVars
  <1>2. LoopsGuarded'
    BY DEF LoopsGuarded, Typed, CtlTyped, NotifyTyped, PacketTyped, TickFlush,
        ctlVars, recvVars, sendVars
  <1> QED BY <1>1, <1>2 DEF Typed

\* SendPacket keeps the inductive invariant.
LEMMA SendPacketStep ==
  ASSUME TypeInv, NEW e \in Ep, SendPacket(e)
  PROVE  TypeInv'
  <1> USE DEF TypeInv
  <1>1. NotifyTyped' /\ PacketTyped' /\ DatagramTyped'
    BY SendPacketTyped DEF LoopsGuarded, SendPacket
  <1>2. CtlTyped' /\ RecordTyped' /\ QueueTyped' /\ SealedTyped' /\ InTyped'
    BY DEF Typed, CtlTyped, RecordTyped, QueueTyped, SealedTyped, InTyped,
        SendPacket, Close, ctlVars, inVars, outVars, recVars, sendVars
  <1>3. LoopsGuarded'
    <2>1. Len(OutPacketQueue[e]) > 1 => Tail(OutPacketQueue[e]) # << >>
      BY LongTail DEF Typed, PacketTyped
    <2>2. /\ OutPacketQueue' = [OutPacketQueue EXCEPT ![e] = Tail(@)]
          /\ \/ pc' = [pc EXCEPT ![e] = "flush"] /\ Len(OutPacketQueue[e]) > 1
             \/ pc' = [pc EXCEPT ![e] = "idle"]
          /\ UNCHANGED notes
      BY DEF SendPacket, recvVars
    <2> QED BY <2>1, <2>2 DEF LoopsGuarded, Typed, CtlTyped, PacketTyped
  <1> QED BY <1>1, <1>2, <1>3 DEF Typed


\* Every step keeps the types.
LEMMA TypeInvStep ==
  ASSUME TypeInv, [Next]_vars
  PROVE  TypeInv'
  <1>1. CASE UNCHANGED vars
    BY <1>1 DEF TypeInv, Typed, LoopsGuarded, CtlTyped, NotifyTyped, RecordTyped,
       PacketTyped, QueueTyped, SealedTyped, DatagramTyped, InTyped, vars, ctlVars,
       recvVars, sendVars, recVars, outVars, inVars
  <1>2. ASSUME NEW e \in Ep, Submit(e) PROVE TypeInv'
    BY <1>2, SendNetMessageStep DEF Submit
  <1>3. ASSUME NEW e \in Ep, ReceivedPacket(e) PROVE TypeInv'
    BY <1>3, ReceiveOldStep, ReceiveNewStep DEF ReceivedPacket
  <1>4. ASSUME NEW e \in Ep, ForceRetransmitAllUnAcked(e) PROVE TypeInv'
    BY <1>4, ForceRetransmitStep, RetransmitDoneStep DEF ForceRetransmitAllUnAcked
  <1>5. ASSUME NEW e \in Ep, DispatchPendingPacket(e) PROVE TypeInv'
    BY <1>5, BufferBunchStep, DispatchBunchStep, AckPacketStep
        DEF DispatchPendingPacket
  <1>6. ASSUME NEW e \in Ep, AssembleOutgoingPackets(e) PROVE TypeInv'
    BY <1>6, DiscardBunchStep, PackBunchStep, OverflowReliableBufferStep,
       FinishAssemblyStep, SendKeepAliveStep, NothingToSendStep
       DEF AssembleOutgoingPackets
  <1> QED BY <1>1, <1>2, <1>3, <1>4, <1>5, <1>6, HandlePacketNotificationStep,
       TickDispatchStep, TickChannelsStep, TickFlushStep, SendPacketStep DEF Next

\* The state after InitSequence has the types.
LEMMA InitTyped == Init => TypeInv
  <1> SUFFICES ASSUME Init PROVE TypeInv
    OBVIOUS
  <1>1. InitSeq \in [Ep -> SeqNums] /\ (\A e \in Ep : Peer(e) \in Ep)
    BY ConnectionAssumption DEF Ep, Peer
  <1>2. \A e \in Ep : InitSeq[e] \in Int /\ InitSeq[Peer(e)] \in Int
    BY <1>1, SeqNumsAreInt
  <1>3. \A e \in Ep : InitReliable(e) \in Int
    BY <1>2, MaxChSequenceAssumption DEF InitReliable
  <1>4. ASSUME NEW i \in Int, NEW o \in Int PROVE NotifyInit(i, o) \in Notify
    <2>1. ToSeq(i) \in SeqNums /\ ToSeq(o) \in SeqNums /\ ToSeq(o - 1) \in SeqNums
      BY <1>4, ToSeqType
    <2>2. << >> \in Seq(SeqNums \X SeqNums) /\ [j \in HistoryIndex |-> FALSE] \in [HistoryIndex -> BOOLEAN]
      OBVIOUS
    <2> QED BY <2>1, <2>2 DEF NotifyInit, Notify
  <1>5. CtlTyped /\ LoopsGuarded
    BY DEF Init, CtlTyped, LoopsGuarded
  <1>6. NotifyTyped
    BY <1>2, <1>4 DEF Init, NotifyTyped
  <1>7. RecordTyped /\ PacketTyped
    BY <1>1, <1>2 DEF Init, RecordTyped, PacketTyped
  <1>8. QueueTyped
    BY EmptyMapType DEF Init, QueueTyped, PerChannel
  <1>9. SealedTyped /\ DatagramTyped
    BY <1>3 DEF Init, SealedTyped, DatagramTyped, PerChannel
  <1>10. InTyped
    BY <1>1, <1>3, EmptyMapType DEF Init, InTyped, PerChannel
  <1> QED BY <1>5, <1>6, <1>7, <1>8, <1>9, <1>10 DEF TypeInv, Typed

\* The inductive invariant contains the type invariant the runs check.
LEMMA TypedImpliesTypeOK == TypeInv => TypeOK
  <1> SUFFICES ASSUME TypeInv PROVE TypeOK
    OBVIOUS
  <1>1. \A e \in Ep, c \in Channels :
          /\ OutUnAcked[e][c] \in [DOMAIN OutUnAcked[e][c] -> Seq(Bunch)]
          /\ InUnread[e][c] \in [DOMAIN InUnread[e][c] -> Bunch]
    BY ChannelValue, MapValue DEF TypeInv, Typed, QueueTyped, InTyped
  <1> QED BY <1>1 DEF TypeOK, TypeInv, Typed, CtlTyped, NotifyTyped, RecordTyped,
       PacketTyped, QueueTyped, SealedTyped, DatagramTyped, InTyped

\* For every number of channels, every size of the sequence space, of the history
\* and of packets, and without any bound on traffic: the state of a connection and
\* the datagrams it sends keep their types (NetConnection, NetPacketNotify and
\* NetChannel never read past a queue or outside a map).
THEOREM TypeCorrect == Spec => []TypeOK
  <1>1. Init => TypeInv BY InitTyped
  <1>2. TypeInv /\ [Next]_vars => TypeInv' BY TypeInvStep
  <1>3. TypeInv => TypeOK BY TypedImpliesTypeOK
  <1> QED BY <1>1, <1>2, <1>3, PTL DEF Spec

-----------------------------------------------------------------------------
(* Where bunches travel: queues, packets, datagrams.                       *)

\* Packets and datagrams whose bunches are in S.
PacketOf(S)   == [id: Int, size: Nat, bunches: Seq(S)]
DatagramOf(S) == [header: Header, bunches: Seq(S)]

\* B[e] holds the bunches side e may send.  Its queues hold no others,
QueuesCarry(B) ==
    \A e \in Ep, c \in Channels :
        OutBunchQueue[e][c] \in Seq(B[e]) /\ OutUnAcked[e][c] \in MapTo(Seq(B[e]))

\* its packets hold no others,
PacketsCarry(B) ==
    \A e \in Ep : /\ OutPacketQueue[e] \in Seq(PacketOf(B[e]))
                  /\ asm[e] \in Seq(PacketOf(B[e]))

\* and the datagrams from it hold no others.
DatagramsCarry(B) ==
    \A e \in Ep : /\ Pending[e] \in Seq(DatagramOf(B[Peer(e)]))
                  /\ net[e] \subseteq DatagramOf(B[Peer(e)])

\* Everything under way.
Carried(B) == QueuesCarry(B) /\ PacketsCarry(B) /\ DatagramsCarry(B)

\* The two sides are each other's peers.
LEMMA PeerType ==
  ASSUME NEW e \in Ep
  PROVE  Peer(e) \in Ep /\ Peer(Peer(e)) = e /\ Peer(e) # e
  BY DEF Ep, Peer

\* Two queues of bunches one behind the other.
LEMMA ConcatType ==
  ASSUME NEW S, NEW p \in Seq(S), NEW q \in Seq(S) PROVE p \o q \in Seq(S)
  OBVIOUS

\* One element more at the end of a queue, or one alone.
LEMMA AppendType ==
  ASSUME NEW S, NEW q \in Seq(S), NEW x \in S
  PROVE  Append(q, x) \in Seq(S) /\ Append(q, x) # << >>
         /\ << x >> \in Seq(S) /\ << x >> # << >>
  <1>1. Append(q, x) \in Seq(S)
    OBVIOUS
  <1>2. Append(q, x) # << >>
    <2>1. Len(Append(q, x)) = Len(q) + 1 /\ Len(q) \in Nat
      OBVIOUS
    <2>2. Len(Append(q, x)) # 0 /\ Len(<< >>) = 0
      BY <2>1
    <2> QED BY <2>2, Zenon
  <1>3. << x >> \in Seq(S)
    OBVIOUS
  <1>4. << x >> # << >>
    OBVIOUS
  <1> QED BY <1>1, <1>2, <1>3, <1>4

\* A step that changes the queues of one channel of one side.
LEMMA QueuesUpdate ==
  ASSUME TypeInv, NEW B, QueuesCarry(B), NEW e \in Ep, NEW c \in Channels,
         NEW q \in Seq(B[e]), OutBunchQueue' = [OutBunchQueue EXCEPT ![e][c] = q],
         NEW u \in MapTo(Seq(B[e])), OutUnAcked' = [OutUnAcked EXCEPT ![e][c] = u]
  PROVE  QueuesCarry(B)'
  BY DEF TypeInv, Typed, QueueTyped, PerChannel, QueuesCarry

\* An OutUnAckedBunches that does not change, in the form of QueuesUpdate.
LEMMA UnAckedSame ==
  ASSUME TypeInv, UNCHANGED OutUnAcked, NEW e \in Ep, NEW c \in Channels
  PROVE  OutUnAcked' = [OutUnAcked EXCEPT ![e][c] = OutUnAcked[e][c]]
  BY DEF TypeInv, Typed, QueueTyped, PerChannel

\* RecivedAck forgets bunches, RecivedNack moves them back in front of the queue:
\* neither makes one.
LEMMA NotificationCarries ==
  ASSUME TypeInv, NEW B, QueuesCarry(B), NEW e \in Ep, HandlePacketNotification(e)
  PROVE  QueuesCarry(B)'
  <1>1. CASE UNCHANGED << OutUnAcked, OutBunchQueue >>
    BY <1>1 DEF QueuesCarry
  <1>2. ASSUME NEW cs, NEW d, NotifyChannels(e, LastNotified[e] + 1, cs, d)
        PROVE  QueuesCarry(B)'
    <2> DEFINE id == LastNotified[e] + 1
    <2>1. \A c \in Channels : /\ OutUnAcked[e][c] \in MapTo(Seq(B[e]))
                              /\ OutBunchQueue[e][c] \in Seq(B[e])
      BY DEF QueuesCarry
    <2>2. \A c \in Channels : /\ Erase(OutUnAcked[e][c], id) \in MapTo(Seq(B[e]))
                              /\ BunchesOf(OutUnAcked[e][c], id) \in Seq(B[e])
      BY <2>1, EraseType, BunchesOfType
    <2>3. /\ \A c \in Channels :
               OutUnAcked'[e][c] \in {OutUnAcked[e][c], Erase(OutUnAcked[e][c], id)}
          /\ \A c \in Channels :
               OutBunchQueue'[e][c] \in
                 {OutBunchQueue[e][c],
                  BunchesOf(OutUnAcked[e][c], id) \o OutBunchQueue[e][c]}
          /\ \A d2 \in Ep : d2 # e => /\ OutUnAcked'[d2] = OutUnAcked[d2]
                                      /\ OutBunchQueue'[d2] = OutBunchQueue[d2]
      BY <1>2 DEF NotifyChannels, TypeInv, Typed, QueueTyped, PerChannel
    <2>4. \A c \in Channels :
             BunchesOf(OutUnAcked[e][c], id) \o OutBunchQueue[e][c] \in Seq(B[e])
      BY <2>1, <2>2, ConcatType
    <2> HIDE DEF id
    <2>5. ASSUME NEW c \in Channels
          PROVE  OutBunchQueue'[e][c] \in Seq(B[e]) /\ OutUnAcked'[e][c] \in MapTo(Seq(B[e]))
      BY <2>1, <2>2, <2>3, <2>4
    <2>6. ASSUME NEW d2 \in Ep, NEW c \in Channels, d2 # e
          PROVE  /\ OutBunchQueue'[d2][c] \in Seq(B[d2])
                 /\ OutUnAcked'[d2][c] \in MapTo(Seq(B[d2]))
      BY <2>3, <2>6 DEF QueuesCarry
    <2> QED BY <2>5, <2>6 DEF QueuesCarry
  <1> QED BY <1>1, <1>2 DEF HandlePacketNotification

\* ForceRetransmitAllUnAcked moves bunches from OutUnAckedBunches to the queue.
LEMMA ForceRetransmitCarries ==
  ASSUME TypeInv, NEW B, QueuesCarry(B), NEW e \in Ep, NEW c \in Channels,
         NEW id \in DOMAIN OutUnAcked[e][c], ForceRetransmit(e, c, id)
  PROVE  QueuesCarry(B)'
  <1>1. OutUnAcked[e][c] \in MapTo(Seq(B[e])) /\ OutBunchQueue[e][c] \in Seq(B[e])
    BY DEF QueuesCarry
  <1>2. /\ OutUnAcked[e][c][id] \in Seq(B[e])
        /\ Erase(OutUnAcked[e][c], id) \in MapTo(Seq(B[e]))
    BY <1>1, MapValue, EraseType
  <1>3. OutUnAcked[e][c][id] \o OutBunchQueue[e][c] \in Seq(B[e])
    BY <1>1, <1>2, ConcatType
  <1> QED BY <1>2, <1>3, QueuesUpdate DEF ForceRetransmit

\* Taking a bunch from the queue (a discarded one, or one that overflows).
LEMMA DropHeadCarries ==
  ASSUME TypeInv, NEW B, QueuesCarry(B), NEW e \in Ep, NEW c \in Channels,
         OutBunchQueue[e][c] # << >>,
         OutBunchQueue' = [OutBunchQueue EXCEPT ![e][c] = Tail(@)], UNCHANGED OutUnAcked
  PROVE  QueuesCarry(B)'
  <1>1. OutUnAcked[e][c] \in MapTo(Seq(B[e])) /\ OutBunchQueue[e][c] \in Seq(B[e])
    BY DEF QueuesCarry
  <1>2. Tail(OutBunchQueue[e][c]) \in Seq(B[e])
    BY <1>1, HeadTail
  <1> QED BY <1>1, <1>2, UnAckedSame, QueuesUpdate

\* TickFlush of the channels adds the bunches it seals, if those are allowed.
LEMMA TickChannelsCarries ==
  ASSUME TypeInv, NEW B, QueuesCarry(B), NEW e \in Ep, TickChannels(e),
         \A c \in Channels :
            SealedBunches(c, OutReliable[e][c], Submitted[e][c]) \in Seq(B[e])
  PROVE  QueuesCarry(B)'
  <1> DEFINE new(c) == SealedBunches(c, OutReliable[e][c], Submitted[e][c])
  <1>1. \A c \in Channels : OutBunchQueue'[e][c] = OutBunchQueue[e][c] \o new(c)
    BY DEF TickChannels, TypeInv, Typed, QueueTyped, PerChannel
  <1>2. \A d \in Ep : d # e => OutBunchQueue'[d] = OutBunchQueue[d]
    BY DEF TickChannels, TypeInv, Typed, QueueTyped, PerChannel
  <1>3. UNCHANGED OutUnAcked
    BY DEF TickChannels
  <1>4. \A c \in Channels : OutBunchQueue[e][c] \in Seq(B[e]) /\ new(c) \in Seq(B[e])
    BY DEF QueuesCarry
  <1> HIDE DEF new
  <1>5. \A c \in Channels : OutBunchQueue[e][c] \o new(c) \in Seq(B[e])
    BY <1>4, ConcatType
  <1> QED BY <1>1, <1>2, <1>3, <1>5 DEF QueuesCarry

\* createNewPacket makes a packet without bunches.
LEMMA NewPacketCarries ==
  ASSUME NEW S, NEW id \in Int PROVE NewPacket(id) \in PacketOf(S)
  BY ConnectionAssumption DEF NewPacket, PacketOf

\* The packets under assembly, with the new one if the bunch needs it.
LEMMA PacketsOfAssembly ==
  ASSUME TypeInv, NEW B, PacketsCarry(B), NEW e \in Ep, NEW b
  PROVE  Packets(e, b) \in Seq(PacketOf(B[e])) /\ Packets(e, b) # << >>
  <1>1. OutPacketId[e] \in Int /\ asm[e] \in Seq(PacketOf(B[e]))
    BY DEF TypeInv, Typed, RecordTyped, PacketsCarry
  <1>2. NewPacket(OutPacketId[e]) \in PacketOf(B[e])
    BY <1>1, NewPacketCarries
  <1>3. NewPacket(PacketId(e, b)) \in PacketOf(B[e])
    BY PacketIdType, NewPacketCarries DEF TypeInv
  <1>4. Opened(e) \in Seq(PacketOf(B[e])) /\ Opened(e) # << >>
    BY <1>1, <1>2, AppendType DEF Opened
  <1> QED BY <1>3, <1>4, AppendType DEF Packets

\* The bunch that is packed came from the queue of the same side.
LEMMA PackBunchCarries ==
  ASSUME TypeInv, NEW B, QueuesCarry(B), PacketsCarry(B), NEW e \in Ep, NEW c \in Channels,
         PackBunch(e, c)
  PROVE  QueuesCarry(B)' /\ PacketsCarry(B)'
  <1> DEFINE b  == Head(OutBunchQueue[e][c])
             ps == Packets(e, b)
             p  == LastOf(ps)
             q  == [p EXCEPT !.size = @ + TotalSize(b), !.bunches = Append(@, b)]
  <1>1. OutBunchQueue[e][c] \in Seq(B[e]) /\ OutUnAcked[e][c] \in MapTo(Seq(B[e]))
    BY DEF QueuesCarry
  <1>2. b \in B[e] /\ Tail(OutBunchQueue[e][c]) \in Seq(B[e])
    BY <1>1, HeadTail DEF PackBunch, IsNextChannel
  <1>3. b.size \in Nat
    BY ChannelValue, HeadTail, BunchFields
       DEF PackBunch, IsNextChannel, TypeInv, Typed, QueueTyped
  <1>4. /\ p \in PacketOf(B[e]) /\ FrontOf(ps) \in Seq(PacketOf(B[e]))
        /\ ps \in Seq(PacketOf(B[e]))
    BY PacketsOfAssembly, LastFront
  <1>5. /\ \/ asm' = [asm EXCEPT ![e] = Append(FrontOf(ps), q)]
           \/ asm' = [asm EXCEPT ![e] = ps]
        /\ OutPacketQueue' = OutPacketQueue
        /\ OutUnAcked' = [OutUnAcked EXCEPT ![e][c] = AddUnAcked(OutUnAcked[e][c], p.id, b)]
        /\ OutBunchQueue' = [OutBunchQueue EXCEPT ![e][c] = Tail(OutBunchQueue[e][c])]
    BY DEF PackBunch
  <1> HIDE DEF p, ps, b
  <1>6. p.id \in Int /\ p.size \in Nat /\ p.bunches \in Seq(B[e])
    BY <1>4 DEF PacketOf
  <1>7. p.size + TotalSize(b) \in Nat /\ Append(p.bunches, b) \in Seq(B[e])
    <2>1. p.size + TotalSize(b) \in Nat
      BY <1>3, <1>6, ConnectionAssumption DEF TotalSize
    <2> QED BY <1>2, <1>6, <2>1, AppendType
  <1>8. q \in PacketOf(B[e])
    BY <1>4, <1>7 DEF PacketOf
  <1> HIDE DEF q
  <1>9. PacketsCarry(B)'
    <2>1. Append(FrontOf(ps), q) \in Seq(PacketOf(B[e]))
      BY <1>4, <1>8, AppendType
    <2> QED BY <1>4, <1>5, <2>1 DEF TypeInv, Typed, PacketTyped, PacketsCarry
  <1>10. QueuesCarry(B)'
    <2>1. AddUnAcked(OutUnAcked[e][c], p.id, b) \in MapTo(Seq(B[e]))
      BY <1>1, <1>2, <1>6, AddUnAckedType
    <2> QED BY <1>2, <1>5, <2>1, QueuesUpdate
  <1> QED BY <1>9, <1>10

\* When AddUnAckedOutBunch refuses, the bunch and the packets are dropped.
LEMMA OverflowCarries ==
  ASSUME TypeInv, NEW B, QueuesCarry(B), PacketsCarry(B), NEW e \in Ep, NEW c \in Channels,
         OverflowReliableBuffer(e, c)
  PROVE  QueuesCarry(B)' /\ PacketsCarry(B)'
  <1>1. QueuesCarry(B)'
    BY DropHeadCarries DEF OverflowReliableBuffer, IsNextChannel
  <1>2. OutPacketQueue' = OutPacketQueue /\ asm' = [asm EXCEPT ![e] = << >>]
    BY DEF OverflowReliableBuffer
  <1>3. << >> \in Seq(PacketOf(B[e]))
    OBVIOUS
  <1>4. PacketsCarry(B)'
    BY <1>2, <1>3 DEF TypeInv, Typed, PacketTyped, PacketsCarry
  <1> QED BY <1>1, <1>4

\* The assembled packets move to OutPacketQueue.
LEMMA FinishCarries ==
  ASSUME TypeInv, NEW B, PacketsCarry(B), NEW e \in Ep, FinishAssembly(e)
  PROVE  PacketsCarry(B)'
  <1> DEFINE S == PacketOf(B[e])
  <1>1. asm[e] \in Seq(S) /\ OutPacketQueue[e] \in Seq(S)
    BY DEF PacketsCarry
  <1>2. asm[e] # << >> => FrontOf(asm[e]) \in Seq(S)
    BY <1>1, LastFront
  <1> HIDE DEF S
  <1>3. \E q \in Seq(S) :
           OutPacketQueue' = [OutPacketQueue EXCEPT ![e] = OutPacketQueue[e] \o q]
    BY <1>1, <1>2 DEF FinishAssembly
  <1>4. asm' = [asm EXCEPT ![e] = << >>] /\ << >> \in Seq(S)
    BY DEF FinishAssembly
  <1>5. \A q \in Seq(S) : OutPacketQueue[e] \o q \in Seq(S)
    BY <1>1, ConcatType
  <1>6. OutPacketQueue'[e] \in Seq(S) /\ asm'[e] \in Seq(S)
    BY <1>3, <1>4, <1>5 DEF TypeInv, Typed, PacketTyped
  <1>7. \A d \in Ep : d # e => OutPacketQueue'[d] = OutPacketQueue[d] /\ asm'[d] = asm[d]
    BY <1>3, <1>4 DEF TypeInv, Typed, PacketTyped
  <1> QED BY <1>6, <1>7 DEF PacketsCarry, S

\* A keep-alive packet has no bunches.
LEMMA KeepAliveCarries ==
  ASSUME TypeInv, NEW B, PacketsCarry(B), NEW e \in Ep, SendKeepAlive(e)
  PROVE  PacketsCarry(B)'
  <1>1. OutPacketId[e] \in Int /\ OutPacketQueue[e] \in Seq(PacketOf(B[e]))
    BY DEF TypeInv, Typed, RecordTyped, PacketsCarry
  <1>2. Append(OutPacketQueue[e], NewPacket(OutPacketId[e])) \in Seq(PacketOf(B[e]))
    BY <1>1, NewPacketCarries, AppendType
  <1> QED BY <1>2 DEF SendKeepAlive, NewPacket, TypeInv, Typed, PacketTyped, PacketsCarry

-----------------------------------------------------------------------------
(* The receiving side, and all actions together.                           *)

\* A step that changes the pending packets of one side.
LEMMA PendingUpdate ==
  ASSUME TypeInv, NEW B, DatagramsCarry(B), NEW e \in Ep,
         NEW q \in Seq(DatagramOf(B[Peer(e)])), Pending' = [Pending EXCEPT ![e] = q],
         UNCHANGED net
  PROVE  DatagramsCarry(B)'
  BY DEF TypeInv, Typed, DatagramTyped, DatagramsCarry

\* A datagram with an old header is queued as it came.
LEMMA ReceiveOldCarries ==
  ASSUME TypeInv, NEW B, DatagramsCarry(B), NEW e \in Ep, NEW p \in net[e], ReceiveOld(e, p)
  PROVE  DatagramsCarry(B)'
  <1>1. p \in DatagramOf(B[Peer(e)]) /\ Pending[e] \in Seq(DatagramOf(B[Peer(e)]))
    BY DEF DatagramsCarry
  <1>2. Append(Pending[e], p) \in Seq(DatagramOf(B[Peer(e)]))
    BY <1>1, AppendType
  <1> QED BY <1>2, PendingUpdate DEF ReceiveOld

\* A datagram with a new header is queued as it came, or dropped by a flush.
LEMMA ReceiveNewCarries ==
  ASSUME TypeInv, NEW B, DatagramsCarry(B), NEW e \in Ep, NEW p \in net[e], ReceiveNew(e, p)
  PROVE  DatagramsCarry(B)'
  <1>1. p \in DatagramOf(B[Peer(e)]) /\ Pending[e] \in Seq(DatagramOf(B[Peer(e)]))
    BY DEF DatagramsCarry
  <1>2. Append(Pending[e], p) \in Seq(DatagramOf(B[Peer(e)]))
    BY <1>1, AppendType
  <1>3. \/ Pending' = [Pending EXCEPT ![e] = Pending[e]]
        \/ Pending' = [Pending EXCEPT ![e] = Append(Pending[e], p)]
    BY DEF ReceiveNew
  <1>4. UNCHANGED net
    BY DEF ReceiveNew
  <1> QED BY <1>1, <1>2, <1>3, <1>4, PendingUpdate

\* Reading one bunch leaves the rest of the packet.
LEMMA DropBunchCarries ==
  ASSUME NEW S, NEW q \in Seq(DatagramOf(S)), q # << >>, Head(q).bunches # << >>
  PROVE  DropBunch(q) \in Seq(DatagramOf(S)) /\ Head(Head(q).bunches) \in S
  <1>1. Head(q) \in DatagramOf(S) /\ Tail(q) \in Seq(DatagramOf(S)) BY HeadTail
  <1>2. Head(q).bunches \in Seq(S) BY <1>1 DEF DatagramOf
  <1>3. Tail(Head(q).bunches) \in Seq(S) /\ Head(Head(q).bunches) \in S
    BY <1>2, HeadTail
  <1>4. [Head(q) EXCEPT !.bunches = Tail(@)] \in DatagramOf(S)
    BY <1>1, <1>3 DEF DatagramOf
  <1> QED BY <1>1, <1>3, <1>4, ConcatType, AppendType DEF DropBunch

\* The bunch the loop of DispatchPacket reads was made by the peer.
LEMMA ReadBunchFrom ==
  ASSUME NEW B, DatagramsCarry(B), NEW e \in Ep, HasBunch(e)
  PROVE  NextBunch(e) \in B[Peer(e)]
  <1>1. Pending[e] \in Seq(DatagramOf(B[Peer(e)]))
    BY DEF DatagramsCarry
  <1> QED BY <1>1, DropBunchCarries DEF HasBunch, NextBunch

\* When it is read, the rest of the packet stays.
LEMMA ReadBunchCarries ==
  ASSUME TypeInv, NEW B, DatagramsCarry(B), NEW e \in Ep, HasBunch(e),
         Pending' = [Pending EXCEPT ![e] = DropBunch(@)], UNCHANGED net
  PROVE  DatagramsCarry(B)'
  <1>1. Pending[e] \in Seq(DatagramOf(B[Peer(e)]))
    BY DEF DatagramsCarry
  <1>2. DropBunch(Pending[e]) \in Seq(DatagramOf(B[Peer(e)]))
    BY <1>1, DropBunchCarries DEF HasBunch
  <1> QED BY <1>2, PendingUpdate

\* A packet that was dispatched is taken from the pending ones.
LEMMA AckPacketCarries ==
  ASSUME TypeInv, NEW B, DatagramsCarry(B), NEW e \in Ep, AckPacket(e)
  PROVE  DatagramsCarry(B)'
  <1>1. Pending[e] \in Seq(DatagramOf(B[Peer(e)]))
    BY DEF DatagramsCarry
  <1>2. Tail(Pending[e]) \in Seq(DatagramOf(B[Peer(e)]))
    BY <1>1, HeadTail DEF AckPacket
  <1> QED BY <1>2, PendingUpdate DEF AckPacket

\* SendToRemote: the bunches of a packet go into the datagram unchanged.
LEMMA SendPacketCarries ==
  ASSUME TypeInv, NEW B, PacketsCarry(B), DatagramsCarry(B), NEW e \in Ep, SendPacket(e)
  PROVE  PacketsCarry(B)' /\ DatagramsCarry(B)'
  <1> DEFINE p == Head(OutPacketQueue[e])
             g == [header |-> WriteHeader(notify[e]), bunches |-> p.bunches]
  <1>1. OutPacketQueue[e] # << >>
    BY DEF TypeInv, LoopsGuarded, SendPacket
  <1>2. p \in PacketOf(B[e]) /\ Tail(OutPacketQueue[e]) \in Seq(PacketOf(B[e]))
    BY <1>1, HeadTail DEF PacketsCarry
  <1>3. WriteHeader(notify[e]) \in Header /\ p.bunches \in Seq(B[e])
    BY <1>2, WriteHeaderType DEF TypeInv, Typed, NotifyTyped, PacketOf
  <1>4. /\ net' = [net EXCEPT ![Peer(e)] = @ \union {g}]
        /\ OutPacketQueue' = [OutPacketQueue EXCEPT ![e] = Tail(@)]
        /\ UNCHANGED << asm, Pending >>
    BY DEF SendPacket, recvVars
  <1> HIDE DEF p
  <1>5. g \in DatagramOf(B[e])
    BY <1>3 DEF DatagramOf
  <1> HIDE DEF g
  <1>6. PacketsCarry(B)'
    BY <1>2, <1>4 DEF TypeInv, Typed, PacketTyped, PacketsCarry
  <1>7. DatagramsCarry(B)'
    BY <1>4, <1>5, PeerType DEF TypeInv, Typed, DatagramTyped, DatagramsCarry
  <1> QED BY <1>6, <1>7

\* No action brings a bunch into a queue, packet or datagram that is not of B, as
\* long as TickFlush seals only bunches of B.
LEMMA CarriedStep ==
  ASSUME TypeInv, NEW B, Carried(B), [Next]_vars,
         \A e \in Ep : TickChannels(e) => \A c \in Channels :
            SealedBunches(c, OutReliable[e][c], Submitted[e][c]) \in Seq(B[e])
  PROVE  Carried(B)'
  <1> USE DEF Carried
  <1>1. ASSUME UNCHANGED << OutBunchQueue, OutUnAcked >> PROVE QueuesCarry(B)'
    BY <1>1 DEF QueuesCarry
  <1>2. ASSUME UNCHANGED << OutPacketQueue, asm >> PROVE PacketsCarry(B)'
    BY <1>2 DEF PacketsCarry
  <1>3. ASSUME UNCHANGED << Pending, net >> PROVE DatagramsCarry(B)'
    BY <1>3 DEF DatagramsCarry
  <1>4. CASE UNCHANGED vars
    BY <1>1, <1>2, <1>3, <1>4 DEF vars, recvVars, sendVars, outVars
  <1>5. ASSUME NEW e \in Ep, Submit(e) PROVE Carried(B)'
    BY <1>1, <1>2, <1>3, <1>5 DEF Submit, SendNetMessage, recvVars, sendVars
  <1>6. ASSUME NEW e \in Ep, ReceivedPacket(e) PROVE Carried(B)'
    <2>1. PICK p \in net[e] : ReceiveOld(e, p) \/ ReceiveNew(e, p)
      BY <1>6 DEF ReceivedPacket
    <2>2. DatagramsCarry(B)'
      BY <2>1, ReceiveOldCarries, ReceiveNewCarries
    <2>3. UNCHANGED << OutBunchQueue, OutUnAcked, OutPacketQueue, asm >>
      BY <2>1 DEF ReceiveOld, ReceiveNew, sendVars, outVars
    <2> QED BY <1>1, <1>2, <2>2, <2>3
  <1>7. ASSUME NEW e \in Ep, HandlePacketNotification(e) PROVE Carried(B)'
    <2>1. UNCHANGED << OutPacketQueue, asm, Pending, net >>
      BY <1>7 DEF HandlePacketNotification, sendVars
    <2> QED BY <1>2, <1>3, <1>7, <2>1, NotificationCarries
  <1>8. ASSUME NEW e \in Ep, ForceRetransmitAllUnAcked(e) PROVE Carried(B)'
    <2>1. UNCHANGED << OutPacketQueue, asm, Pending, net >>
      BY <1>8 DEF ForceRetransmitAllUnAcked, ForceRetransmit, RetransmitDone, recvVars,
         sendVars
    <2>2. ASSUME RetransmitDone(e) PROVE UNCHANGED << OutBunchQueue, OutUnAcked >>
      BY <2>2 DEF RetransmitDone, outVars
    <2> QED BY <1>1, <1>2, <1>3, <1>8, <2>1, <2>2, ForceRetransmitCarries
         DEF ForceRetransmitAllUnAcked
  <1>9. ASSUME NEW e \in Ep, TickDispatch(e) \/ TickFlush(e) PROVE Carried(B)'
    BY <1>1, <1>2, <1>3, <1>9 DEF TickDispatch, TickFlush, recvVars, sendVars, outVars
  <1>10. ASSUME NEW e \in Ep, DispatchPendingPacket(e) PROVE Carried(B)'
    <2>1. UNCHANGED << OutBunchQueue, OutUnAcked, OutPacketQueue, asm >>
      BY <1>10 DEF DispatchPendingPacket, BufferBunch, DispatchBunch, AckPacket, sendVars,
         outVars
    <2>2. ASSUME BufferBunch(e) \/ DispatchBunch(e) PROVE DatagramsCarry(B)'
      BY <2>2, ReadBunchCarries DEF BufferBunch, DispatchBunch
    <2> QED BY <1>1, <1>2, <1>10, <2>1, <2>2, AckPacketCarries DEF DispatchPendingPacket
  <1>11. ASSUME NEW e \in Ep, TickChannels(e) PROVE Carried(B)'
    <2>1. UNCHANGED << OutPacketQueue, asm, Pending, net >>
      BY <1>11 DEF TickChannels, recvVars, sendVars
    <2> QED BY <1>2, <1>3, <1>11, <2>1, TickChannelsCarries
  <1>12. ASSUME NEW e \in Ep, NEW c \in Channels, DiscardBunch(e, c) PROVE Carried(B)'
    <2>1. UNCHANGED << OutPacketQueue, asm, Pending, net >>
      BY <1>12 DEF DiscardBunch, recvVars, sendVars
    <2>2. QueuesCarry(B)'
      BY <1>12, DropHeadCarries DEF DiscardBunch, IsNextChannel
    <2> QED BY <1>2, <1>3, <2>1, <2>2
  <1>13. ASSUME NEW e \in Ep, NEW c \in Channels, PackBunch(e, c) PROVE Carried(B)'
    <2>1. UNCHANGED << Pending, net >>
      BY <1>13 DEF PackBunch, recvVars
    <2> QED BY <1>3, <1>13, <2>1, PackBunchCarries
  <1>14. ASSUME NEW e \in Ep, NEW c \in Channels, OverflowReliableBuffer(e, c)
         PROVE  Carried(B)'
    <2>1. UNCHANGED << Pending, net >>
      BY <1>14 DEF OverflowReliableBuffer, recvVars
    <2> QED BY <1>3, <1>14, <2>1, OverflowCarries
  <1>15. ASSUME NEW e \in Ep, FinishAssembly(e) \/ SendKeepAlive(e) PROVE Carried(B)'
    <2>1. UNCHANGED << OutBunchQueue, OutUnAcked, Pending, net >>
      BY <1>15 DEF FinishAssembly, SendKeepAlive, recvVars, outVars
    <2> QED BY <1>1, <1>3, <1>15, <2>1, FinishCarries, KeepAliveCarries
  <1>16. ASSUME NEW e \in Ep, NothingToSend(e) PROVE Carried(B)'
    BY <1>1, <1>2, <1>3, <1>16 DEF NothingToSend, recvVars, sendVars, outVars
  <1>17. ASSUME NEW e \in Ep, SendPacket(e) PROVE Carried(B)'
    <2>1. UNCHANGED << OutBunchQueue, OutUnAcked >>
      BY <1>17 DEF SendPacket, outVars
    <2> QED BY <1>1, <1>17, <2>1, SendPacketCarries
  <1> QED BY <1>4, <1>5, <1>6, <1>7, <1>8, <1>9, <1>10, <1>11, <1>12, <1>13, <1>14,
       <1>15, <1>16, <1>17 DEF Next, AssembleOutgoingPackets

-----------------------------------------------------------------------------
(* What was sealed, how it is numbered, what was received.                 *)

\* The bunches side e has sealed: number InitReliable + k is the k-th of its channel.
Made(e) ==
    {b \in Bunch :
        LET k == b.seq - InitReliable(e)
        IN  k \in 1 .. Len(sealed[e][b.ch]) /\ sealed[e][b.ch][k] = b}

\* No other bunch is under way.
OnlyMadeBunches == Carried([e \in Ep |-> Made(e)])

\* Channel numbers count the sealed bunches.
Numbered ==
    \A e \in Ep, c \in Channels :
        /\ OutReliable[e][c] = InitReliable(e) + Len(sealed[e][c])
        /\ \A k \in 1 .. Len(sealed[e][c]) :
             /\ sealed[e][c][k].ch = c
             /\ sealed[e][c][k].seq = InitReliable(e) + k

\* The receiver of channel c of side e: a prefix of what was sealed is delivered, the
\* next number counts it, and what is put aside lies under its own number.
ReceivedOf(e, c) ==
    LET s      == sealed[e][c]
        d      == delivered[Peer(e)][c]
        unread == InUnread[Peer(e)][c]
    IN  /\ Len(d) <= Len(s)
        /\ \A k \in 1 .. Len(d) : d[k] = s[k]
        /\ InReliable[Peer(e)][c] = InitReliable(e) + Len(d)
        /\ \A q \in DOMAIN unread : /\ q - InitReliable(e) \in 1 .. Len(s)
                                    /\ unread[q] = s[q - InitReliable(e)]

Received == \A e \in Ep, c \in Channels : ReceivedOf(e, c)

\* The window assumption: the number of a bunch is less than half of MAX_CHSEQUENCE
\* away from the number received last when DispatchPacket looks at it.
InWindow ==
    \A e \in Ep : pc[e] = "dispatch" /\ HasBunch(e) =>
        LET distance == NextBunch(e).seq - InReliable[e][NextBunch(e).ch]
        IN  - (MaxChSequence \div 2) <= distance /\ distance < MaxChSequence \div 2

\* The inductive invariant.  Delivery in order is not inductive: that the next bunch
\* is the right one depends on what every queue and datagram holds.
OrderInv == TypeInv /\ Numbered /\ OnlyMadeBunches /\ Received

\* The first channel number is an integer.
LEMMA InitReliableType == ASSUME NEW e \in Ep PROVE InitReliable(e) \in Int
  BY ConnectionAssumption, SeqNumsAreInt, MaxChSequenceAssumption DEF InitReliable

\* The types of one channel's state.
LEMMA SealedTypes ==
  ASSUME TypeInv, NEW e \in Ep, NEW c \in Channels
  PROVE  /\ sealed[e][c] \in Seq(Bunch) /\ Submitted[e][c] \in Seq(Nat)
         /\ OutReliable[e][c] \in Int /\ InReliable[e][c] \in Int
         /\ delivered[e][c] \in Seq(Bunch) /\ InUnread[e][c] \in MapTo(Bunch)
  BY ChannelValue DEF TypeInv, Typed, SealedTyped, QueueTyped, InTyped

\* Bunches are sealed by the channels' TickFlush and nowhere else.
LEMMA SealedGrows ==
  ASSUME TypeInv, [Next]_vars
  PROVE  \/ UNCHANGED << sealed, OutReliable >> /\ \A e \in Ep : ~ TickChannels(e)
         \/ \E e \in Ep : TickChannels(e)
  <1>1. CASE \E e \in Ep : TickChannels(e)
    BY <1>1
  <1>2. CASE ~ \E e \in Ep : TickChannels(e)
    <2> SUFFICES UNCHANGED << sealed, OutReliable >>
      BY <1>2
    <2>1. CASE UNCHANGED vars
      BY <2>1 DEF vars, outVars
    <2>2. ASSUME NEW e \in Ep, Submit(e) PROVE UNCHANGED << sealed, OutReliable >>
      BY <2>2 DEF Submit, SendNetMessage
    <2>3. ASSUME NEW e \in Ep,
                 \/ ReceivedPacket(e) \/ HandlePacketNotification(e)
                 \/ ForceRetransmitAllUnAcked(e)
          PROVE  UNCHANGED << sealed, OutReliable >>
      BY <2>3 DEF ReceivedPacket, ReceiveOld, ReceiveNew, HandlePacketNotification,
         ForceRetransmitAllUnAcked, ForceRetransmit, RetransmitDone, outVars
    <2>4. ASSUME NEW e \in Ep, TickDispatch(e) \/ DispatchPendingPacket(e)
          PROVE  UNCHANGED << sealed, OutReliable >>
      BY <2>4 DEF TickDispatch, DispatchPendingPacket, BufferBunch, DispatchBunch,
         AckPacket, outVars
    <2>5. ASSUME NEW e \in Ep, AssembleOutgoingPackets(e)
          PROVE  UNCHANGED << sealed, OutReliable >>
      BY <2>5 DEF AssembleOutgoingPackets, DiscardBunch, PackBunch,
         OverflowReliableBuffer, FinishAssembly, SendKeepAlive, NothingToSend, outVars
    <2>6. ASSUME NEW e \in Ep, TickFlush(e) \/ SendPacket(e)
          PROVE  UNCHANGED << sealed, OutReliable >>
      BY <2>6 DEF TickFlush, SendPacket, outVars
    <2> QED BY <1>2, <2>1, <2>2, <2>3, <2>4, <2>5, <2>6 DEF Next
  <1> QED BY <1>1, <1>2

\* Where the elements of two concatenated queues stand.
LEMMA ConcatElements ==
  ASSUME NEW S, NEW p \in Seq(S), NEW q \in Seq(S)
  PROVE  /\ Len(p) \in Nat /\ Len(q) \in Nat
         /\ Len(p \o q) = Len(p) + Len(q)
         /\ \A k \in 1 .. Len(p) : (p \o q)[k] = p[k]
         /\ \A k \in 1 .. Len(q) : (p \o q)[Len(p) + k] = q[k]
  <1>1. Len(p) \in Nat /\ Len(q) \in Nat /\ Len(p \o q) = Len(p) + Len(q)
    OBVIOUS
  <1>2. \A k \in 1 .. Len(p) : (p \o q)[k] = p[k]
    OBVIOUS
  <1>3. \A k \in 1 .. Len(q) : (p \o q)[Len(p) + k] = q[k]
    OBVIOUS
  <1> QED BY <1>1, <1>2, <1>3

\* TickChannels, seen from the sealed bunches.
LEMMA TickChannelsSeals ==
  ASSUME TypeInv, Numbered, NEW e \in Ep, TickChannels(e), NEW d \in Ep, NEW c \in Channels
  PROVE  /\ sealed'[d][c] \in Seq(Bunch)
         /\ Len(sealed[d][c]) <= Len(sealed'[d][c])
         /\ \A k \in 1 .. Len(sealed[d][c]) : sealed'[d][c][k] = sealed[d][c][k]
         /\ OutReliable'[d][c] = InitReliable(d) + Len(sealed'[d][c])
         /\ \A k \in 1 .. Len(sealed'[d][c]) :
              /\ sealed'[d][c][k].ch = c
              /\ sealed'[d][c][k].seq = InitReliable(d) + k
  <1> DEFINE new == SealedBunches(c, OutReliable[e][c], Submitted[e][c])
             s   == sealed[d][c]
  <1>1. /\ s \in Seq(Bunch) /\ OutReliable[d][c] = InitReliable(d) + Len(s)
        /\ \A k \in 1 .. Len(s) : s[k].ch = c /\ s[k].seq = InitReliable(d) + k
        /\ InitReliable(d) \in Int
    BY SealedTypes, InitReliableType DEF Numbered
  <1>2. CASE d # e
    <2>1. sealed'[d] = sealed[d] /\ OutReliable'[d] = OutReliable[d]
      BY <1>2 DEF TickChannels, TypeInv, Typed, SealedTyped, PerChannel
    <2>2. /\ sealed'[d][c] = s /\ OutReliable'[d][c] = OutReliable[d][c]
          /\ Len(s) \in Nat
      BY <1>1, <2>1
    <2> HIDE DEF s
    <2> QED BY <1>1, <2>2 DEF s
  <1>3. CASE d = e
    <2>1. /\ sealed'[d][c] = s \o new
          /\ OutReliable'[d][c] = OutReliable[d][c] + Len(new)
      BY <1>3 DEF TickChannels, TypeInv, Typed, SealedTyped, PerChannel
    <2>2. /\ new \in Seq(Bunch) /\ Len(new) = Len(Submitted[e][c]) /\ Len(new) \in Nat
          /\ Submitted[e][c] \in Seq(Nat)
      <3>1. Submitted[e][c] \in Seq(Nat) /\ OutReliable[e][c] \in Int
        BY SealedTypes
      <3> QED BY <3>1, SealedBunchesType
    <2>3. \A k \in 1 .. Len(new) : /\ new[k].ch = c
                                   /\ new[k].seq = InitReliable(d) + Len(s) + k
      BY <1>1, <1>3, <2>2 DEF SealedBunches
    <2> HIDE DEF new, s
    <2>4. /\ s \o new \in Seq(Bunch) /\ Len(s \o new) = Len(s) + Len(new)
          /\ \A k \in 1 .. Len(s) : (s \o new)[k] = s[k]
          /\ \A k \in 1 .. Len(new) : (s \o new)[Len(s) + k] = new[k]
      <3>1. s \in Seq(Bunch) /\ new \in Seq(Bunch)
        BY <1>1, <2>2
      <3>2. s \o new \in Seq(Bunch)
        BY <3>1, ConcatType
      <3>3. Len(s \o new) = Len(s) + Len(new)
        BY <3>1, ConcatElements
      <3>4. \A k \in 1 .. Len(s) : (s \o new)[k] = s[k]
        BY <3>1, ConcatElements
      <3>5. \A k \in 1 .. Len(new) : (s \o new)[Len(s) + k] = new[k]
        BY <3>1, ConcatElements
      <3> QED BY <3>2, <3>3, <3>4, <3>5
    <2>5. Len(s) \in Nat
      BY <1>1
    <2>6. \A k \in 1 .. Len(s) + Len(new) :
            /\ (s \o new)[k].ch = c
            /\ (s \o new)[k].seq = InitReliable(d) + k
      <3> TAKE k \in 1 .. Len(s) + Len(new)
      <3>1. CASE k \in 1 .. Len(s)
        BY <1>1, <2>4, <3>1
      <3>2. CASE k \notin 1 .. Len(s)
        <4>1. k - Len(s) \in 1 .. Len(new) /\ Len(s) + (k - Len(s)) = k
          BY <2>2, <2>5, <3>2
        <4>2. (s \o new)[k] = new[k - Len(s)]
          BY <2>4, <4>1
        <4> QED BY <1>1, <2>3, <2>5, <4>1, <4>2
      <3> QED BY <3>1, <3>2
    <2>7. /\ OutReliable'[d][c] = InitReliable(d) + Len(s \o new)
          /\ Len(s) <= Len(s \o new)
      BY <1>1, <2>1, <2>2, <2>4, <2>5
    <2> QED BY <1>3, <2>1, <2>2, <2>4, <2>5, <2>6, <2>7 DEF new, s
  <1> QED BY <1>2, <1>3

\* The k-th bunch of a channel always has number InitReliable + k.
LEMMA NumberedStep ==
  ASSUME TypeInv, Numbered, [Next]_vars
  PROVE  Numbered'
  <1>1. CASE UNCHANGED << sealed, OutReliable >>
    BY <1>1 DEF Numbered, InitReliable
  <1>2. CASE \E e \in Ep : TickChannels(e)
    <2>1. \A d \in Ep, c \in Channels :
            /\ OutReliable'[d][c] = InitReliable(d) + Len(sealed'[d][c])
            /\ \A k \in 1 .. Len(sealed'[d][c]) :
                 /\ sealed'[d][c][k].ch = c
                 /\ sealed'[d][c][k].seq = InitReliable(d) + k
      BY <1>2, TickChannelsSeals
    <2> QED BY <2>1 DEF Numbered, InitReliable
  <1> QED BY <1>1, <1>2, SealedGrows

-----------------------------------------------------------------------------
(* Only sealed bunches are under way.                                      *)

\* A queue of a smaller set is a queue of a larger one.
LEMMA SeqMono ==
  ASSUME NEW S, NEW T, S \subseteq T, NEW q \in Seq(S)
  PROVE  q \in Seq(T)
  <1>1. Len(q) \in Nat /\ q \in [1 .. Len(q) -> S]
    OBVIOUS
  <1>2. q \in [1 .. Len(q) -> T]
    BY <1>1
  <1> QED BY <1>1, <1>2

\* The same for maps to queues.
LEMMA MapMono ==
  ASSUME NEW S, NEW T, S \subseteq T, NEW m \in MapTo(Seq(S))
  PROVE  m \in MapTo(Seq(T))
  <1>1. /\ DOMAIN m \in SUBSET Int
        /\ m \in [DOMAIN m -> Seq(S)]
    BY MapValue
  <1>2. \A x \in DOMAIN m : m[x] \in Seq(T)
    BY <1>1, MapValue, SeqMono
  <1>3. m \in [DOMAIN m -> Seq(T)]
    BY <1>1, <1>2
  <1> QED BY <1>1, <1>3, MapIntro

\* The same for queues of packets and of datagrams.
LEMMA PacketMono ==
  ASSUME NEW S, NEW T, S \subseteq T
  PROVE  PacketOf(S) \subseteq PacketOf(T) /\ DatagramOf(S) \subseteq DatagramOf(T)
  <1>1. Seq(S) \subseteq Seq(T)
    BY SeqMono
  <1> QED BY <1>1 DEF PacketOf, DatagramOf

\* What carries the bunches of B carries those of any larger set.
LEMMA CarriedMono ==
  ASSUME NEW B, NEW C, \A e \in Ep : B[e] \subseteq C[e], Carried(B)
  PROVE  Carried(C)
  <1>1. \A e \in Ep, c \in Channels :
          /\ OutBunchQueue[e][c] \in Seq(C[e])
          /\ OutUnAcked[e][c] \in MapTo(Seq(C[e]))
    <2> TAKE e \in Ep, c \in Channels
    <2>1. /\ OutBunchQueue[e][c] \in Seq(B[e])
          /\ OutUnAcked[e][c] \in MapTo(Seq(B[e]))
          /\ B[e] \subseteq C[e]
      BY DEF Carried, QueuesCarry
    <2> QED BY <2>1, SeqMono, MapMono
  <1>2. \A e \in Ep : /\ OutPacketQueue[e] \in Seq(PacketOf(C[e]))
                      /\ asm[e] \in Seq(PacketOf(C[e]))
    <2> TAKE e \in Ep
    <2>1. /\ OutPacketQueue[e] \in Seq(PacketOf(B[e]))
          /\ asm[e] \in Seq(PacketOf(B[e]))
      BY DEF Carried, PacketsCarry
    <2>2. PacketOf(B[e]) \subseteq PacketOf(C[e])
      BY PacketMono
    <2> QED BY <2>1, <2>2, SeqMono
  <1>3. \A e \in Ep : /\ Pending[e] \in Seq(DatagramOf(C[Peer(e)]))
                      /\ net[e] \subseteq DatagramOf(C[Peer(e)])
    <2> TAKE e \in Ep
    <2>1. /\ Pending[e] \in Seq(DatagramOf(B[Peer(e)]))
          /\ net[e] \subseteq DatagramOf(B[Peer(e)])
      BY DEF Carried, DatagramsCarry
    <2>2. DatagramOf(B[Peer(e)]) \subseteq DatagramOf(C[Peer(e)])
      BY PeerType, PacketMono
    <2> QED BY <2>1, <2>2, SeqMono
  <1> QED BY <1>1, <1>2, <1>3 DEF Carried, QueuesCarry, PacketsCarry, DatagramsCarry

\* What was sealed stays where it is.
LEMMA SealedStays ==
  ASSUME TypeInv, Numbered, [Next]_vars, NEW e \in Ep, NEW c \in Channels
  PROVE  /\ sealed[e][c] \in Seq(Bunch) /\ sealed'[e][c] \in Seq(Bunch)
         /\ Len(sealed[e][c]) \in Nat /\ Len(sealed'[e][c]) \in Nat
         /\ Len(sealed[e][c]) <= Len(sealed'[e][c])
         /\ \A k \in 1 .. Len(sealed[e][c]) : sealed'[e][c][k] = sealed[e][c][k]
  <1>1. sealed[e][c] \in Seq(Bunch) /\ Len(sealed[e][c]) \in Nat
    BY SealedTypes
  <1>2. CASE UNCHANGED << sealed, OutReliable >>
    BY <1>1, <1>2
  <1>3. CASE \E d \in Ep : TickChannels(d)
    <2>1. /\ sealed'[e][c] \in Seq(Bunch)
          /\ Len(sealed[e][c]) <= Len(sealed'[e][c])
          /\ \A k \in 1 .. Len(sealed[e][c]) : sealed'[e][c][k] = sealed[e][c][k]
      BY <1>3, TickChannelsSeals
    <2>2. Len(sealed'[e][c]) \in Nat
      BY <2>1
    <2> QED BY <1>1, <2>1, <2>2
  <1> QED BY <1>2, <1>3, SealedGrows

\* The bunches TickChannels queues are among those it seals.
LEMMA NewBunchesAreMade ==
  ASSUME TypeInv, Numbered, NEW e \in Ep, TickChannels(e), NEW c \in Channels
  PROVE  SealedBunches(c, OutReliable[e][c], Submitted[e][c]) \in Seq(Made(e)')
  <1> DEFINE new == SealedBunches(c, OutReliable[e][c], Submitted[e][c])
             s   == sealed[e][c]
  <1>1. /\ s \in Seq(Bunch) /\ OutReliable[e][c] = InitReliable(e) + Len(s)
        /\ Submitted[e][c] \in Seq(Nat) /\ OutReliable[e][c] \in Int
        /\ InitReliable(e) \in Int /\ Len(s) \in Nat
    BY SealedTypes, InitReliableType DEF Numbered
  <1>2. /\ new \in Seq(Bunch) /\ Len(new) = Len(Submitted[e][c]) /\ Len(new) \in Nat
    BY <1>1, SealedBunchesType
  <1>3. sealed'[e][c] = s \o new
    BY DEF TickChannels, TypeInv, Typed, SealedTyped, PerChannel
  <1>4. \A k \in 1 .. Len(new) : /\ new[k].ch = c
                                 /\ new[k].seq = InitReliable(e) + Len(s) + k
    BY <1>1, <1>2 DEF SealedBunches
  <1> HIDE DEF new, s
  <1>5. Len(s \o new) = Len(s) + Len(new)
    BY <1>1, <1>2, ConcatElements
  <1>6. \A k \in 1 .. Len(new) : (s \o new)[Len(s) + k] = new[k]
    BY <1>1, <1>2, ConcatElements
  <1>7. \A k \in 1 .. Len(new) : new[k] \in Made(e)'
    <2> TAKE k \in 1 .. Len(new)
    <2>1. new[k] \in Bunch
      BY <1>2
    <2>2. new[k].seq - InitReliable(e) = Len(s) + k
      BY <1>1, <1>4
    <2>3. Len(s) + k \in 1 .. Len(sealed'[e][c]) /\ sealed'[e][c][Len(s) + k] = new[k]
      BY <1>1, <1>2, <1>3, <1>5, <1>6
    <2> QED BY <1>4, <2>1, <2>2, <2>3 DEF Made, InitReliable
  <1>8. new \in [1 .. Len(new) -> Made(e)']
    BY <1>2, <1>7
  <1>9. new \in Seq(Made(e)')
    BY <1>2, <1>8
  <1> QED BY <1>9 DEF new

\* No step puts a bunch in a queue, a packet or a datagram that was not sealed.
LEMMA MadeStep ==
  ASSUME TypeInv, Numbered, OnlyMadeBunches, [Next]_vars
  PROVE  OnlyMadeBunches'
  <1>1. \A e \in Ep : Made(e) \subseteq Made(e)'
    <2> SUFFICES ASSUME NEW e \in Ep, NEW b \in Made(e) PROVE b \in Made(e)'
      OBVIOUS
    <2>1. b \in Bunch /\ b.ch \in Channels
      BY BunchFields DEF Made
    <2>2. /\ b.seq - InitReliable(e) \in 1 .. Len(sealed[e][b.ch])
          /\ sealed[e][b.ch][b.seq - InitReliable(e)] = b
      BY DEF Made
    <2>3. /\ b.seq - InitReliable(e) \in 1 .. Len(sealed'[e][b.ch])
          /\ sealed'[e][b.ch][b.seq - InitReliable(e)] = b
      BY <2>1, <2>2, SealedStays
    <2> QED BY <2>1, <2>3 DEF Made, InitReliable
  <1>2. PICK C : C = [e \in Ep |-> Made(e)']
    OBVIOUS
  <1>3. Carried(C)
    <2>1. \A e \in Ep : [d \in Ep |-> Made(d)][e] \subseteq C[e]
      BY <1>1, <1>2
    <2> QED BY <2>1, CarriedMono DEF OnlyMadeBunches
  <1>4. \A e \in Ep : TickChannels(e) => \A c \in Channels :
          SealedBunches(c, OutReliable[e][c], Submitted[e][c]) \in Seq(C[e])
    BY <1>2, NewBunchesAreMade
  <1>5. Carried(C)'
    BY <1>3, <1>4, CarriedStep
  <1>6. \A e \in Ep : C[e] = Made(e)'
    BY <1>2
  <1> QED BY <1>2, <1>5, PeerType
       DEF OnlyMadeBunches, Carried, QueuesCarry, PacketsCarry, DatagramsCarry

-----------------------------------------------------------------------------
(* The loop of DispatchPacket, under the window assumption.                *)

\* A number in the window around the reference is its own relative number.
LEMMA MakeRelativeInWindow ==
  ASSUME NEW v \in Int, NEW r \in Int,
         - (MaxChSequence \div 2) <= v - r, v - r < MaxChSequence \div 2
  PROVE  MakeRelative(v, r) = v
  <1> DEFINE M == MaxChSequence
             h == MaxChSequence \div 2
             x == v - r + h
  <1>1. M \in Nat /\ M >= 2 /\ h \in Int /\ M = 2 * h
    BY MaxChSequenceAssumption
  <1>2. x \in Int /\ 0 <= x /\ x < M
    BY <1>1
  <1>3. x % M = x
    <2> HIDE DEF x, M
    <2> QED BY <1>1, <1>2
  <1> QED BY <1>1, <1>3 DEF MakeRelative, BestSignedDifference

\* Only the loop of DispatchPacket touches what was received.
LEMMA ReceivedGrows ==
  ASSUME [Next]_vars
  PROVE  \/ UNCHANGED << InReliable, InUnread, delivered >>
         \/ \E e \in Ep : BufferBunch(e) \/ DispatchBunch(e)
  <1> SUFFICES ASSUME ~ \E e \in Ep : BufferBunch(e) \/ DispatchBunch(e)
               PROVE  UNCHANGED << InReliable, InUnread, delivered >>
    OBVIOUS
  <1>1. CASE UNCHANGED vars
    BY <1>1 DEF vars, inVars
  <1>2. ASSUME NEW e \in Ep, Submit(e) \/ ReceivedPacket(e) \/ HandlePacketNotification(e)
        PROVE  UNCHANGED << InReliable, InUnread, delivered >>
    BY <1>2 DEF Submit, SendNetMessage, ReceivedPacket, ReceiveOld, ReceiveNew,
       HandlePacketNotification, inVars
  <1>3. ASSUME NEW e \in Ep,
               ForceRetransmitAllUnAcked(e) \/ TickDispatch(e) \/ TickChannels(e)
        PROVE  UNCHANGED << InReliable, InUnread, delivered >>
    BY <1>3 DEF ForceRetransmitAllUnAcked, ForceRetransmit, RetransmitDone, TickDispatch,
       TickChannels, inVars
  <1>4. ASSUME NEW e \in Ep, AckPacket(e)
        PROVE  UNCHANGED << InReliable, InUnread, delivered >>
    BY <1>4 DEF AckPacket
  <1>5. ASSUME NEW e \in Ep, AssembleOutgoingPackets(e)
        PROVE  UNCHANGED << InReliable, InUnread, delivered >>
    BY <1>5 DEF AssembleOutgoingPackets, DiscardBunch, PackBunch,
       OverflowReliableBuffer, FinishAssembly, SendKeepAlive, NothingToSend, inVars
  <1>6. ASSUME NEW e \in Ep, TickFlush(e) \/ SendPacket(e)
        PROVE  UNCHANGED << InReliable, InUnread, delivered >>
    BY <1>6 DEF TickFlush, SendPacket, inVars
  <1> QED BY <1>1, <1>2, <1>3, <1>4, <1>5, <1>6 DEF Next, DispatchPendingPacket

\* More sealed bunches do not disturb what was received.
LEMMA ReceivedSealed ==
  ASSUME TypeInv, Numbered, Received, [Next]_vars,
         UNCHANGED << InReliable, InUnread, delivered >>
  PROVE  Received'
  <1> SUFFICES ASSUME NEW e \in Ep, NEW c \in Channels PROVE ReceivedOf(e, c)'
    BY DEF Received
  <1>1. ReceivedOf(e, c) /\ InitReliable(e) \in Int /\ InReliable[Peer(e)][c] \in Int
    BY InitReliableType, PeerType, SealedTypes DEF Received
  <1>2. /\ Len(sealed[e][c]) \in Nat /\ Len(sealed'[e][c]) \in Nat
        /\ Len(sealed[e][c]) <= Len(sealed'[e][c])
        /\ \A k \in 1 .. Len(sealed[e][c]) : sealed'[e][c][k] = sealed[e][c][k]
    BY SealedStays
  <1>3. Len(delivered[Peer(e)][c]) \in Nat
    BY PeerType, SealedTypes
  <1>4. Len(delivered[Peer(e)][c]) <= Len(sealed[e][c])
    BY <1>1 DEF ReceivedOf
  <1>5. \A k \in 1 .. Len(delivered[Peer(e)][c]) :
          delivered[Peer(e)][c][k] = sealed'[e][c][k]
    BY <1>1, <1>2, <1>3, <1>4 DEF ReceivedOf
  <1>6. \A q \in DOMAIN InUnread[Peer(e)][c] :
          /\ q - InitReliable(e) \in 1 .. Len(sealed'[e][c])
          /\ InUnread[Peer(e)][c][q] = sealed'[e][c][q - InitReliable(e)]
    BY <1>1, <1>2 DEF ReceivedOf
  <1>7. Len(delivered[Peer(e)][c]) <= Len(sealed'[e][c])
    BY <1>2, <1>3, <1>4
  <1>8. InReliable[Peer(e)][c] = InitReliable(e) + Len(delivered[Peer(e)][c])
    BY <1>1 DEF ReceivedOf
  <1> QED BY <1>5, <1>6, <1>7, <1>8 DEF ReceivedOf, InitReliable

\* The next bunch to be read is one the peer sealed, and its relative number is
\* its own.
LEMMA NextBunchIsSealed ==
  ASSUME OrderInv, InWindow, NEW r \in Ep, pc[r] = "dispatch", HasBunch(r)
  PROVE  LET b == NextBunch(r)
             e == Peer(r)
             k == b.seq - InitReliable(e)
         IN  /\ b \in Bunch /\ b.ch \in Channels /\ b.seq \in Int
             /\ k \in 1 .. Len(sealed[e][b.ch]) /\ sealed[e][b.ch][k] = b
             /\ Relative(r, b) = b.seq
  <1> DEFINE b == NextBunch(r)
             e == Peer(r)
  <1>1. b \in Made(e)
    <2>1. b \in [d \in Ep |-> Made(d)][Peer(r)]
      BY ReadBunchFrom DEF OrderInv, OnlyMadeBunches, Carried
    <2> QED BY <2>1, PeerType
  <1>2. b \in Bunch /\ b.ch \in Channels /\ b.seq \in Int
    BY <1>1, BunchFields DEF Made
  <1>3. InReliable[r][b.ch] \in Int
    BY <1>2, SealedTypes DEF OrderInv
  <1>4. Relative(r, b) = b.seq
    BY <1>2, <1>3, MakeRelativeInWindow DEF InWindow, Relative
  <1> QED BY <1>1, <1>2, <1>4 DEF Made

\* A bunch that is put aside lies under its own number.
LEMMA BufferBunchReceived ==
  ASSUME OrderInv, InWindow, NEW r \in Ep, BufferBunch(r)
  PROVE  Received'
  <1> DEFINE b == NextBunch(r)
             u == InUnread[r][b.ch]
  <1>1. HasBunch(r) /\ pc[r] = "dispatch"
    BY DEF BufferBunch
  <1>2. /\ b.ch \in Channels /\ b.seq \in Int
        /\ b.seq - InitReliable(Peer(r)) \in 1 .. Len(sealed[Peer(r)][b.ch])
        /\ sealed[Peer(r)][b.ch][b.seq - InitReliable(Peer(r))] = b
        /\ Relative(r, b) = b.seq
    BY <1>1, NextBunchIsSealed
  <1>3. InUnread' = [InUnread EXCEPT ![r][b.ch] = AddUnread(u, b.seq, b)]
    BY <1>2 DEF BufferBunch
  <1>4. UNCHANGED << InReliable, delivered, sealed >>
    BY DEF BufferBunch, outVars
  <1> SUFFICES ASSUME NEW e \in Ep, NEW c \in Channels PROVE ReceivedOf(e, c)'
    BY DEF Received
  <1>5. ReceivedOf(e, c)
    BY DEF OrderInv, Received
  <1>6. CASE Peer(e) = r /\ c = b.ch
    <2>1. InUnread'[Peer(e)][c] = AddUnread(u, b.seq, b) /\ e = Peer(r)
      BY <1>2, <1>3, <1>6, PeerType DEF OrderInv, TypeInv, Typed, InTyped, PerChannel
    <2>2. \A q \in DOMAIN u : /\ q - InitReliable(e) \in 1 .. Len(sealed[e][c])
                              /\ u[q] = sealed[e][c][q - InitReliable(e)]
      BY <1>5, <1>6 DEF ReceivedOf
    <2> HIDE DEF b, u
    <2>3. DOMAIN AddUnread(u, b.seq, b) = DOMAIN u \union {b.seq}
      BY DEF AddUnread
    <2>4. \A q \in DOMAIN u \union {b.seq} :
             AddUnread(u, b.seq, b)[q] = IF q \in DOMAIN u THEN u[q] ELSE b
      BY DEF AddUnread
    <2>5. \A q \in DOMAIN InUnread'[Peer(e)][c] :
             /\ q - InitReliable(e) \in 1 .. Len(sealed[e][c])
             /\ InUnread'[Peer(e)][c][q] = sealed[e][c][q - InitReliable(e)]
      BY <1>2, <1>6, <2>1, <2>2, <2>3, <2>4
    <2> QED BY <1>4, <1>5, <2>5 DEF ReceivedOf, InitReliable
  <1>7. CASE ~ (Peer(e) = r /\ c = b.ch)
    <2>1. InUnread'[Peer(e)][c] = InUnread[Peer(e)][c]
      BY <1>2, <1>3, <1>7, PeerType DEF OrderInv, TypeInv, Typed, InTyped, PerChannel
    <2> QED BY <1>4, <1>5, <2>1 DEF ReceivedOf, InitReliable
  <1> QED BY <1>6, <1>7

\* The next bunch in order and the buffered ones behind it are dispatched as they
\* were sealed.
LEMMA DispatchBunchReceived ==
  ASSUME OrderInv, InWindow, NEW r \in Ep, DispatchBunch(r)
  PROVE  Received'
  <1> DEFINE b    == NextBunch(r)
             u    == InUnread[r][b.ch]
             d    == delivered[r][b.ch]
             s    == sealed[Peer(r)][b.ch]
             i0   == InitReliable(Peer(r))
             last == InReliable[r][b.ch] + 1
  <1>1. HasBunch(r) /\ pc[r] = "dispatch" /\ Peer(r) \in Ep /\ Peer(Peer(r)) = r
    BY PeerType DEF DispatchBunch
  <1>2. /\ b \in Bunch /\ b.ch \in Channels /\ b.seq \in Int
        /\ b.seq - i0 \in 1 .. Len(s) /\ s[b.seq - i0] = b
        /\ Relative(r, b) = b.seq
    BY <1>1, NextBunchIsSealed
  <1>3. /\ i0 \in Int /\ s \in Seq(Bunch) /\ Len(s) \in Nat
        /\ d \in Seq(Bunch) /\ Len(d) \in Nat
        /\ last \in Int /\ u \in MapTo(Bunch)
    BY <1>1, <1>2, InitReliableType, SealedTypes DEF OrderInv
  <1>4. /\ Len(d) <= Len(s) /\ \A k \in 1 .. Len(d) : d[k] = s[k]
        /\ last = i0 + Len(d) + 1
        /\ \A q \in DOMAIN u : q - i0 \in 1 .. Len(s) /\ u[q] = s[q - i0]
    <2>1. ReceivedOf(Peer(r), b.ch)
      BY <1>1, <1>2 DEF OrderInv, Received
    <2> QED BY <1>1, <2>1 DEF ReceivedOf
  <1>5. last = b.seq
    BY <1>2 DEF DispatchBunch, InTurn
  <1>6. PICK n \in Nat :
          /\ IsDrainLength(u, last, n)
          /\ InReliable' = [InReliable EXCEPT ![r][b.ch] = last + n]
          /\ delivered' = [delivered EXCEPT ![r][b.ch] =
                             Append(d, b) \o DrainedBunches(u, last, n)]
          /\ InUnread' = [InUnread EXCEPT ![r][b.ch] = Drained(u, last, n)]
    <2>1. PICK n \in 0 .. Cardinality(DOMAIN u) :
            /\ IsDrainLength(u, last, n)
            /\ InReliable' = [InReliable EXCEPT ![r][b.ch] = last + n]
            /\ delivered' = [delivered EXCEPT ![r][b.ch] =
                               Append(@, b) \o DrainedBunches(u, last, n)]
            /\ InUnread' = [InUnread EXCEPT ![r][b.ch] = Drained(@, last, n)]
      BY DEF DispatchBunch
    <2>2. n \in Nat
      BY <2>1
    <2>3. r \in DOMAIN delivered /\ r \in DOMAIN InUnread
      BY DEF OrderInv, TypeInv, Typed, InTyped, PerChannel
    <2> QED BY <2>1, <2>2
  <1>7. UNCHANGED sealed
    BY DEF DispatchBunch, outVars
  <1>8. \A e \in Ep, c \in Channels : ~ (Peer(e) = r /\ c = b.ch) =>
          /\ InUnread'[Peer(e)][c] = InUnread[Peer(e)][c]
          /\ InReliable'[Peer(e)][c] = InReliable[Peer(e)][c]
          /\ delivered'[Peer(e)][c] = delivered[Peer(e)][c]
    BY <1>2, <1>6, PeerType DEF OrderInv, TypeInv, Typed, InTyped, PerChannel
  <1>9. /\ InUnread'[r][b.ch] = Drained(u, last, n)
        /\ InReliable'[r][b.ch] = last + n
        /\ delivered'[r][b.ch] = Append(d, b) \o DrainedBunches(u, last, n)
    BY <1>2, <1>6 DEF OrderInv, TypeInv, Typed, InTyped, PerChannel
  <1>10. \A i \in 1 .. n : last + i \in DOMAIN u
    BY <1>6 DEF IsDrainLength
  <1>11. /\ DrainedBunches(u, last, n) \in Seq(Bunch)
         /\ Len(DrainedBunches(u, last, n)) = n
         /\ \A i \in 1 .. n : DrainedBunches(u, last, n)[i] = u[last + i]
    <2>1. DrainedBunches(u, last, n) \in Seq(Bunch)
      BY <1>3, <1>6, DrainedType
    <2>2. DOMAIN DrainedBunches(u, last, n) = 1 .. n
      BY DEF DrainedBunches
    <2>3. Len(DrainedBunches(u, last, n)) = n
      BY <1>6, <2>1, <2>2
    <2>4. \A i \in 1 .. n : DrainedBunches(u, last, n)[i] = u[last + i]
      BY DEF DrainedBunches
    <2> QED BY <2>1, <2>3, <2>4
  <1> DEFINE drained == DrainedBunches(u, last, n)
             d2      == Append(d, b) \o drained
  <1> HIDE DEF b, u, d, s, i0, last, drained
  <1>12. /\ n \in Nat /\ i0 \in Int /\ last \in Int /\ Len(d) \in Nat /\ Len(s) \in Nat
          /\ last = i0 + Len(d) + 1
    BY <1>3, <1>4, <1>6
  <1>13. \A q \in DOMAIN u : q - i0 \in 1 .. Len(s) /\ u[q] = s[q - i0]
    BY <1>4
  <1>14. Append(d, b) \in Seq(Bunch) /\ Len(Append(d, b)) = Len(d) + 1
         /\ (\A k \in 1 .. Len(d) : Append(d, b)[k] = d[k]) /\ Append(d, b)[Len(d) + 1] = b
    BY <1>2, <1>3
  <1>15. Len(d2) = Len(d) + 1 + n
    BY <1>11, <1>14, ConcatElements DEF drained
  <1>16. \A k \in 1 .. Len(d) + 1 : d2[k] = Append(d, b)[k]
    BY <1>11, <1>14, ConcatElements DEF drained
  <1>17. \A i \in 1 .. n : d2[Len(d) + 1 + i] = drained[i]
    BY <1>11, <1>14, ConcatElements DEF drained
  <1>18. Len(d2) <= Len(s)
    <2>1. CASE n = 0
      BY <1>2, <1>3, <1>4, <1>5, <1>15, <2>1
    <2>2. CASE n # 0
      <3>1. last + n \in DOMAIN u
        BY <1>6, <1>10, <2>2
      <3>2. last + n - i0 \in 1 .. Len(s)
        BY <1>12, <1>13, <3>1
      <3> QED BY <1>12, <1>15, <3>2
    <2> QED BY <2>1, <2>2
  <1>19. \A k \in 1 .. Len(d2) : d2[k] = s[k]
    <2> HIDE DEF d2
    <2> TAKE k \in 1 .. Len(d2)
    <2>1. CASE k \in 1 .. Len(d)
      BY <1>3, <1>4, <1>14, <1>16, <2>1
    <2>2. CASE k = Len(d) + 1
      <3>1. b.seq - i0 = Len(d) + 1
        BY <1>3, <1>4, <1>5
      <3> QED BY <1>2, <1>3, <1>14, <1>16, <2>2, <3>1
    <2>3. CASE k > Len(d) + 1
      <3>1. PICK j \in 1 .. n : k = Len(d) + 1 + j
        <4>1. k - Len(d) - 1 \in 1 .. n /\ k = Len(d) + 1 + (k - Len(d) - 1)
          BY <1>12, <1>15, <2>3
        <4> QED BY <4>1
      <3>2. PICK q \in DOMAIN u : q = last + j
        BY <1>10
      <3>3. q - i0 = k
        BY <1>12, <3>1, <3>2
      <3>4. u[q] = s[q - i0]
        BY <1>13
      <3>5. d2[k] = u[q]
        BY <1>11, <1>17, <3>1, <3>2 DEF drained
      <3> QED BY <3>3, <3>4, <3>5
    <2> QED BY <1>3, <1>15, <2>1, <2>2, <2>3
  <1>20. \A q \in DOMAIN Drained(u, last, n) :
           q - i0 \in 1 .. Len(s) /\ Drained(u, last, n)[q] = s[q - i0]
    BY <1>4 DEF Drained
  <1>21. last + n = i0 + Len(d2)
    BY <1>3, <1>4, <1>6, <1>15
  <1> SUFFICES ASSUME NEW e \in Ep, NEW c \in Channels PROVE ReceivedOf(e, c)'
    BY DEF Received
  <1>22. ReceivedOf(e, c)
    BY DEF OrderInv, Received
  <1>23. CASE Peer(e) = r /\ c = b.ch
    <2>1. e = Peer(r) /\ sealed'[e][c] = s /\ InitReliable(e) = i0
      BY <1>7, <1>23, PeerType DEF s, b, i0
    <2>2. /\ InUnread'[Peer(e)][c] = Drained(u, last, n)
          /\ InReliable'[Peer(e)][c] = last + n
          /\ delivered'[Peer(e)][c] = d2
      BY <1>9, <1>23 DEF drained
    <2> HIDE DEF d2
    <2> QED BY <1>18, <1>19, <1>20, <1>21, <2>1, <2>2 DEF ReceivedOf, InitReliable
  <1>24. CASE ~ (Peer(e) = r /\ c = b.ch)
    <2>1. /\ InUnread'[Peer(e)][c] = InUnread[Peer(e)][c]
          /\ InReliable'[Peer(e)][c] = InReliable[Peer(e)][c]
          /\ delivered'[Peer(e)][c] = delivered[Peer(e)][c]
      BY <1>8, <1>24
    <2> QED BY <1>7, <1>22, <2>1 DEF ReceivedOf, InitReliable
  <1> QED BY <1>23, <1>24

-----------------------------------------------------------------------------
(* The induction and the theorems.                                         *)

\* At the start nothing was sealed, nothing is under way.
LEMMA InitOrder == Init => OrderInv
  <1> SUFFICES ASSUME Init PROVE OrderInv
    OBVIOUS
  <1>1. TypeInv
    BY InitTyped
  <1>2. \A e \in Ep, c \in Channels :
          /\ sealed[e][c] = << >> /\ delivered[Peer(e)][c] = << >>
          /\ InUnread[Peer(e)][c] = EmptyMap
          /\ OutReliable[e][c] = InitReliable(e)
          /\ InReliable[Peer(e)][c] = InitReliable(e)
          /\ InitReliable(e) \in Int
    BY PeerType, InitReliableType DEF Init
  <1>3. Numbered
    BY <1>2 DEF Numbered
  <1>4. Received
    <2> SUFFICES ASSUME NEW e \in Ep, NEW c \in Channels PROVE ReceivedOf(e, c)
      BY DEF Received
    <2>1. DOMAIN EmptyMap = {}
      BY DEF EmptyMap
    <2> QED BY <1>2, <2>1 DEF ReceivedOf
  <1>5. OnlyMadeBunches
    <2> DEFINE B == [e \in Ep |-> Made(e)]
    <2>1. \A e \in Ep, c \in Channels :
            /\ OutBunchQueue[e][c] = << >> /\ OutUnAcked[e][c] = EmptyMap
            /\ OutPacketQueue[e] = << >> /\ asm[e] = << >>
            /\ Pending[e] = << >> /\ net[e] = {}
      BY DEF Init
    <2>2. \A e \in Ep : /\ OutPacketQueue[e] = << >> /\ asm[e] = << >>
                        /\ Pending[e] = << >> /\ net[e] = {}
      BY DEF Init
    <2> HIDE DEF B
    <2>3. \A S : << >> \in Seq(S) /\ EmptyMap \in MapTo(S)
      BY EmptyMapType
    <2>4. QueuesCarry(B)
      BY <2>1, <2>3 DEF QueuesCarry
    <2>5. PacketsCarry(B) /\ DatagramsCarry(B)
      BY <2>2, <2>3 DEF PacketsCarry, DatagramsCarry
    <2> QED BY <2>4, <2>5 DEF Carried, OnlyMadeBunches, B
  <1> QED BY <1>1, <1>3, <1>4, <1>5 DEF OrderInv

\* One step of the induction.
LEMMA OrderStep == OrderInv /\ InWindow /\ [Next]_vars => OrderInv'
  <1> SUFFICES ASSUME OrderInv, InWindow, [Next]_vars PROVE OrderInv'
    OBVIOUS
  <1> USE DEF OrderInv
  <1>1. TypeInv'
    BY TypeInvStep
  <1>2. Numbered'
    BY NumberedStep
  <1>3. OnlyMadeBunches'
    BY MadeStep
  <1>4. Received'
    <2>1. CASE UNCHANGED << InReliable, InUnread, delivered >>
      BY <2>1, ReceivedSealed
    <2>2. ASSUME NEW e \in Ep, BufferBunch(e) \/ DispatchBunch(e)
          PROVE  Received'
      BY <2>2, BufferBunchReceived, DispatchBunchReceived
    <2> QED BY <2>1, <2>2, ReceivedGrows
  <1> QED BY <1>1, <1>2, <1>3, <1>4

\* What was received is a prefix of what was sealed.
LEMMA OrderImpliesDelivery == OrderInv => InOrderDelivery
  <1> SUFFICES ASSUME OrderInv, NEW e \in Ep, NEW c \in Channels
               PROVE  /\ Len(delivered[Peer(e)][c]) <= Len(sealed[e][c])
                      /\ \A k \in 1 .. Len(delivered[Peer(e)][c]) :
                           delivered[Peer(e)][c][k] = sealed[e][c][k]
    BY DEF InOrderDelivery
  <1>1. ReceivedOf(e, c)
    BY DEF OrderInv, Received
  <1> QED BY <1>1 DEF ReceivedOf

\* As long as the window assumption holds, whatever the network loses, repeats or
\* reorders and however packets are nacked, flushed and retransmitted: DispatchPacket
\* hands out each channel's bunches in the order in which they were sealed, each once,
\* for all sizes of the sequence spaces, of packets and of the RELIABLE_BUFFER.
THEOREM InOrderInWindow == Spec /\ []InWindow => []InOrderDelivery
  <1>1. Init => OrderInv
    BY InitOrder
  <1>2. OrderInv /\ InWindow /\ [Next]_vars => OrderInv'
    BY OrderStep
  <1>3. OrderInv => InOrderDelivery
    BY OrderImpliesDelivery
  <1> QED BY <1>1, <1>2, <1>3, PTL DEF Spec

\* Fewer bunches than half of MAX_CHSEQUENCE are submitted to a channel.
ShortTraffic == \A e \in Ep : 2 * MaxUnits[e] < MaxChSequence

\* The units of a channel, sealed or not, within the bound on units.
Counted ==
    \A e \in Ep, c \in Channels : Len(sealed[e][c]) + Len(Submitted[e][c]) <= MaxUnits[e]

\* Units come from SendNetMessage and go to the sealed bunches in TickFlush.
LEMMA SubmittedGrows ==
  ASSUME [Next]_vars
  PROVE  \/ UNCHANGED << Submitted, sealed >>
         \/ \E e \in Ep : Submit(e) \/ TickChannels(e)
  <1> SUFFICES ASSUME ~ \E e \in Ep : Submit(e) \/ TickChannels(e)
               PROVE  UNCHANGED << Submitted, sealed >>
    OBVIOUS
  <1>1. CASE UNCHANGED vars
    BY <1>1 DEF vars, outVars
  <1>2. ASSUME NEW e \in Ep, ReceivedPacket(e) \/ HandlePacketNotification(e)
        PROVE  UNCHANGED << Submitted, sealed >>
    BY <1>2 DEF ReceivedPacket, ReceiveOld, ReceiveNew, HandlePacketNotification, outVars
  <1>3. ASSUME NEW e \in Ep, ForceRetransmitAllUnAcked(e) \/ TickDispatch(e)
        PROVE  UNCHANGED << Submitted, sealed >>
    BY <1>3 DEF ForceRetransmitAllUnAcked, ForceRetransmit, RetransmitDone, TickDispatch,
       outVars
  <1>4. ASSUME NEW e \in Ep, DispatchPendingPacket(e)
        PROVE  UNCHANGED << Submitted, sealed >>
    BY <1>4 DEF DispatchPendingPacket, BufferBunch, DispatchBunch, AckPacket, outVars
  <1>5. ASSUME NEW e \in Ep, AssembleOutgoingPackets(e)
        PROVE  UNCHANGED << Submitted, sealed >>
    BY <1>5 DEF AssembleOutgoingPackets, DiscardBunch, PackBunch,
       OverflowReliableBuffer, FinishAssembly, SendKeepAlive, NothingToSend, outVars
  <1>6. ASSUME NEW e \in Ep, TickFlush(e) \/ SendPacket(e)
        PROVE  UNCHANGED << Submitted, sealed >>
    BY <1>6 DEF TickFlush, SendPacket, outVars
  <1> QED BY <1>1, <1>2, <1>3, <1>4, <1>5, <1>6 DEF Next

\* A channel never seals more than the units submitted to it.
LEMMA CountedStep == TypeInv /\ Counted /\ [Next]_vars => Counted'
  <1> SUFFICES ASSUME TypeInv, Counted, [Next]_vars PROVE Counted'
    OBVIOUS
  <1>1. CASE UNCHANGED << Submitted, sealed >>
    BY <1>1 DEF Counted
  <1>2. ASSUME NEW e \in Ep, NEW c \in Channels, NEW size \in Sizes,
               SendNetMessage(e, c, size)
        PROVE  Counted'
    <2> SUFFICES ASSUME NEW d \in Ep, NEW x \in Channels
                 PROVE  Len(sealed'[d][x]) + Len(Submitted'[d][x]) <= MaxUnits[d]
      BY DEF Counted
    <2>1. sealed' = sealed
      BY <1>2 DEF SendNetMessage
    <2>2. /\ Submitted[d][x] \in Seq(Nat) /\ Submitted[e][c] \in Seq(Nat) /\ size \in Nat
          /\ Len(sealed[d][x]) \in Nat /\ MaxUnits[d] \in Nat
      BY SealedTypes, ConnectionAssumption
    <2>3. CASE d = e /\ x = c
      <3>1. Submitted'[d][x] = Append(Submitted[e][c], size)
        BY <1>2, <2>3 DEF SendNetMessage, TypeInv, Typed, QueueTyped, PerChannel
      <3>2. Len(Submitted'[d][x]) = Len(Submitted[e][c]) + 1 /\ Len(Submitted[e][c]) \in Nat
        BY <2>2, <3>1
      <3>3. Len(sealed[e][c]) + Len(Submitted[e][c]) < MaxUnits[e]
        BY <1>2 DEF SendNetMessage
      <3>4. sealed'[d][x] = sealed[e][c] /\ MaxUnits[d] = MaxUnits[e]
        BY <2>1, <2>3
      <3>5. Len(sealed[e][c]) \in Nat /\ MaxUnits[e] \in Nat
        BY <2>2, <2>3
      <3>6. Len(sealed[e][c]) + (Len(Submitted[e][c]) + 1) <= MaxUnits[e]
        <4>1. \A i, j, m \in Nat : i + j < m => i + (j + 1) <= m
          OBVIOUS
        <4>2. Len(Submitted[e][c]) \in Nat
          BY <3>2
        <4> QED BY <3>3, <3>5, <4>1, <4>2
      <3> QED BY <3>2, <3>4, <3>6
    <2>4. CASE ~ (d = e /\ x = c)
      <3>1. Submitted'[d][x] = Submitted[d][x]
        BY <1>2, <2>4 DEF SendNetMessage, TypeInv, Typed, QueueTyped, PerChannel
      <3> QED BY <2>1, <3>1 DEF Counted
    <2> QED BY <2>3, <2>4
  <1>3. ASSUME NEW e \in Ep, TickChannels(e) PROVE Counted'
    <2> SUFFICES ASSUME NEW d \in Ep, NEW x \in Channels
                 PROVE  Len(sealed'[d][x]) + Len(Submitted'[d][x]) <= MaxUnits[d]
      BY DEF Counted
    <2> DEFINE new == SealedBunches(x, OutReliable[e][x], Submitted[e][x])
    <2>1. CASE d = e
      <3>1. sealed'[d][x] = sealed[d][x] \o new /\ Submitted'[d][x] = << >>
        BY <1>3, <2>1 DEF TickChannels, TypeInv, Typed, SealedTyped, QueueTyped, PerChannel
      <3>2. /\ sealed[d][x] \in Seq(Bunch) /\ Submitted[e][x] \in Seq(Nat)
            /\ OutReliable[e][x] \in Int
        BY SealedTypes
      <3>3. new \in Seq(Bunch) /\ Len(new) = Len(Submitted[e][x])
        BY <3>2, SealedBunchesType
      <3> HIDE DEF new
      <3>4. Len(sealed[d][x] \o new) = Len(sealed[d][x]) + Len(new) /\ Len(new) \in Nat
            /\ Len(sealed[d][x]) \in Nat
        BY <3>2, <3>3, ConcatElements
      <3>5. Len(Submitted'[d][x]) = 0
        BY <3>1
      <3>6. Len(sealed[d][x]) + Len(Submitted[d][x]) <= MaxUnits[d]
        BY DEF Counted
      <3>7. Len(sealed'[d][x]) + Len(Submitted'[d][x])
              = Len(sealed[d][x]) + Len(Submitted[d][x])
        BY <2>1, <3>1, <3>3, <3>4, <3>5
      <3> QED BY <3>6, <3>7
    <2>2. CASE d # e
      <3>1. sealed'[d] = sealed[d] /\ Submitted'[d] = Submitted[d]
        BY <1>3, <2>2 DEF TickChannels, TypeInv, Typed, SealedTyped, QueueTyped, PerChannel
      <3> QED BY <3>1 DEF Counted
    <2> QED BY <2>1, <2>2
  <1> QED BY <1>1, <1>2, <1>3, SubmittedGrows DEF Submit

\* Short traffic cannot leave the window of MakeRelative.
LEMMA ShortTrafficInWindow ==
  ASSUME ShortTraffic, OrderInv, Counted PROVE InWindow
  <1> SUFFICES ASSUME NEW r \in Ep, pc[r] = "dispatch", HasBunch(r)
               PROVE  LET distance == NextBunch(r).seq - InReliable[r][NextBunch(r).ch]
                      IN  /\ - (MaxChSequence \div 2) <= distance
                          /\ distance < MaxChSequence \div 2
    BY DEF InWindow
  <1> DEFINE b == NextBunch(r)
             e == Peer(r)
             s == sealed[e][b.ch]
             d == delivered[r][b.ch]
             u == Submitted[e][b.ch]
  <1>1. e \in Ep /\ Peer(e) = r
    BY PeerType
  <1>2. b \in Made(e)
    <2>1. b \in [d2 \in Ep |-> Made(d2)][Peer(r)]
      BY ReadBunchFrom DEF OrderInv, OnlyMadeBunches, Carried
    <2> QED BY <2>1, PeerType
  <1>3. /\ b.ch \in Channels /\ b.seq \in Int /\ b.seq - InitReliable(e) \in 1 .. Len(s)
    BY <1>2, BunchFields DEF Made
  <1>4. /\ Len(s) \in Nat /\ Len(d) \in Nat /\ Len(u) \in Nat /\ InitReliable(e) \in Int
        /\ MaxUnits[e] \in Nat /\ 2 * MaxUnits[e] < MaxChSequence
    <2>1. Len(s) \in Nat /\ Len(d) \in Nat /\ Len(u) \in Nat
      <3>1. s \in Seq(Bunch) /\ d \in Seq(Bunch) /\ u \in Seq(Nat)
        BY <1>1, <1>3, SealedTypes DEF OrderInv
      <3> QED BY <3>1
    <2>2. MaxUnits[e] \in Nat /\ 2 * MaxUnits[e] < MaxChSequence
      BY <1>1, ConnectionAssumption DEF ShortTraffic
    <2> QED BY <1>1, <2>1, <2>2, InitReliableType
  <1>5. Len(s) + Len(u) <= MaxUnits[e]
    BY <1>1, <1>3 DEF Counted
  <1>6. Len(d) <= Len(s) /\ InReliable[r][b.ch] = InitReliable(e) + Len(d)
    <2>1. ReceivedOf(e, b.ch)
      BY <1>1, <1>3 DEF OrderInv, Received
    <2> QED BY <1>1, <2>1 DEF ReceivedOf
  <1> HIDE DEF b, e, s, d, u
  <1>7. MaxChSequence \div 2 \in Nat /\ MaxChSequence = 2 * (MaxChSequence \div 2)
    BY MaxChSequenceAssumption
  <1>8. ASSUME NEW h \in Nat, h = MaxChSequence \div 2
        PROVE  /\ - h <= b.seq - InReliable[r][b.ch] /\ b.seq - InReliable[r][b.ch] < h
    <2>1. MaxUnits[e] < h
      BY <1>4, <1>7, <1>8
    <2>2. Len(s) < h /\ Len(d) < h
      BY <1>4, <1>5, <1>6, <2>1
    <2>3. b.seq - InReliable[r][b.ch] = (b.seq - InitReliable(e)) - Len(d)
      BY <1>3, <1>4, <1>6
    <2> QED BY <1>3, <1>4, <1>8, <2>2, <2>3
  <1> QED BY <1>7, <1>8 DEF b

\* At the start no unit was submitted.
LEMMA InitCounted == Init => Counted
  <1> SUFFICES ASSUME Init, NEW e \in Ep, NEW c \in Channels
               PROVE  Len(sealed[e][c]) + Len(Submitted[e][c]) <= MaxUnits[e]
    BY DEF Counted
  <1>1. sealed[e][c] = << >> /\ Submitted[e][c] = << >> /\ MaxUnits[e] \in Nat
    BY ConnectionAssumption DEF Init
  <1> QED BY <1>1

\* In-order delivery without the window as an assumption on the run: for a channel
\* that carries fewer bunches than half of MAX_CHSEQUENCE.
THEOREM InOrderShortTraffic ==
  ASSUME ShortTraffic
  PROVE  Spec => []InOrderDelivery
  <1>1. Init => OrderInv /\ Counted
    BY InitOrder, InitCounted
  <1>2. OrderInv /\ Counted /\ [Next]_vars => (OrderInv /\ Counted)'
    BY ShortTrafficInWindow, OrderStep, CountedStep DEF OrderInv
  <1>3. OrderInv => InOrderDelivery
    BY OrderImpliesDelivery
  <1> QED BY <1>1, <1>2, <1>3, PTL DEF Spec

-----------------------------------------------------------------------------
(* The refinement of ReliableChannel.                                      *)

\* A dispatch only adds to what was delivered on one channel.
LEMMA DispatchAppends ==
  ASSUME TypeInv, NEW r \in Ep, DispatchBunch(r), NextBunch(r).ch \in Channels
  PROVE  LET c == NextBunch(r).ch
         IN  /\ delivered' = [delivered EXCEPT ![r][c] = delivered'[r][c]]
             /\ Promise!IsPrefixOf(delivered[r][c], delivered'[r][c])
  <1> DEFINE b    == NextBunch(r)
             c    == b.ch
             d    == delivered[r][c]
             u    == InUnread[r][c]
             last == InReliable[r][c] + 1
  <1>1. PICK n \in Nat :
          /\ IsDrainLength(u, last, n)
          /\ delivered' = [delivered EXCEPT ![r][c] =
                             Append(d, b) \o DrainedBunches(u, last, n)]
    <2>1. PICK n \in 0 .. Cardinality(DOMAIN u) :
            /\ IsDrainLength(u, last, n)
            /\ delivered' = [delivered EXCEPT ![r][c] =
                               Append(@, b) \o DrainedBunches(u, last, n)]
      BY DEF DispatchBunch
    <2>2. n \in Nat /\ r \in DOMAIN delivered
      BY <2>1 DEF TypeInv, Typed, InTyped, PerChannel
    <2> QED BY <2>1, <2>2
  <1>2. /\ d \in Seq(Bunch) /\ u \in MapTo(Bunch) /\ last \in Int
    BY SealedTypes
  <1>3. b \in Bunch
    <2>1. Pending[r] \in Seq(Datagram) /\ Pending[r] # << >>
          /\ Head(Pending[r]).bunches # << >>
      BY DEF TypeInv, Typed, DatagramTyped, DispatchBunch, HasBunch
    <2> QED BY <2>1, DropBunchType DEF NextBunch
  <1>4. DrainedBunches(u, last, n) \in Seq(Bunch)
    BY <1>1, <1>2, DrainedType
  <1> DEFINE drained == DrainedBunches(u, last, n)
             d2      == Append(d, b) \o drained
  <1>5. delivered'[r][c] = d2 /\ delivered' = [delivered EXCEPT ![r][c] = d2]
    BY <1>1 DEF TypeInv, Typed, InTyped, PerChannel
  <1> HIDE DEF b, d, u, last, drained
  <1>6. /\ Append(d, b) \in Seq(Bunch) /\ Len(Append(d, b)) = Len(d) + 1 /\ Len(d) \in Nat
        /\ \A k \in 1 .. Len(d) : Append(d, b)[k] = d[k]
    BY <1>2, <1>3
  <1>7. Len(d2) = Len(d) + 1 + Len(drained) /\ Len(drained) \in Nat
    BY <1>4, <1>6, ConcatElements DEF drained
  <1>8. \A k \in 1 .. Len(d) : d2[k] = Append(d, b)[k]
    <2>1. \A k \in 1 .. Len(Append(d, b)) : d2[k] = Append(d, b)[k]
      BY <1>4, <1>6, ConcatElements DEF drained
    <2>2. \A k \in 1 .. Len(d) : k \in 1 .. Len(Append(d, b))
      BY <1>6
    <2> QED BY <2>1, <2>2
  <1> HIDE DEF d2
  <1>9. Promise!IsPrefixOf(d, d2)
    BY <1>6, <1>7, <1>8 DEF Promise!IsPrefixOf
  <1> QED BY <1>5, <1>9 DEF b, d

\* Every step is one of the abstract channel, or none.
LEMMA PromiseStep ==
  ASSUME OrderInv, InWindow, [Next]_vars
  PROVE  [Promise!Next]_<< sealed, delivered >>
  <1> USE DEF OrderInv
  <1>1. CASE UNCHANGED << sealed, delivered >>
    BY <1>1
  <1>2. ASSUME NEW e \in Ep, TickChannels(e) PROVE Promise!Next
    <2>1. \A c \in Channels : Promise!IsPrefixOf(sealed[e][c], sealed'[e][c])
      BY SealedStays DEF Promise!IsPrefixOf
    <2>2. UNCHANGED delivered
      BY <1>2 DEF TickChannels, inVars
    <2>3. sealed' = [sealed EXCEPT ![e] = sealed'[e]]
      BY <1>2 DEF TickChannels, TypeInv, Typed, SealedTyped, PerChannel
    <2>4. Promise!Send(e)
      BY <2>1, <2>2, <2>3 DEF Promise!Send
    <2> QED BY <2>4 DEF Promise!Next
  <1>3. ASSUME NEW r \in Ep, DispatchBunch(r) PROVE Promise!Next
    <2> DEFINE c == NextBunch(r).ch
               e == Peer(r)
    <2>1. c \in Channels
      BY <1>3, NextBunchIsSealed DEF DispatchBunch
    <2>2. /\ delivered' = [delivered EXCEPT ![r][c] = delivered'[r][c]]
          /\ Promise!IsPrefixOf(delivered[r][c], delivered'[r][c])
      BY <1>3, <2>1, DispatchAppends
    <2>3. UNCHANGED sealed
      BY <1>3 DEF DispatchBunch, outVars
    <2>4. e \in Ep /\ Peer(e) = r /\ [d \in Ep |-> Peer(d)][r] = e
      BY PeerType
    <2>5. \A d \in Ep, x \in Channels :
            /\ Len(delivered'[Peer(d)][x]) <= Len(sealed'[d][x])
            /\ \A k \in 1 .. Len(delivered'[Peer(d)][x]) :
                 delivered'[Peer(d)][x][k] = sealed'[d][x][k]
      <3>1. Received'
        BY <1>3, DispatchBunchReceived
      <3>2. TAKE d \in Ep, x \in Channels
      <3>3. ReceivedOf(d, x)'
        BY <3>1 DEF Received
      <3> QED BY <3>3 DEF ReceivedOf
    <2>6. /\ Len(delivered'[Peer(e)][c]) <= Len(sealed'[e][c])
          /\ \A k \in 1 .. Len(delivered'[Peer(e)][c]) :
               delivered'[Peer(e)][c][k] = sealed'[e][c][k]
      BY <2>1, <2>4, <2>5
    <2> HIDE DEF c, e
    <2>7. Promise!IsPrefixOf(delivered'[r][c], sealed[[d \in Ep |-> Peer(d)][r]][c])
      BY <2>3, <2>4, <2>6 DEF Promise!IsPrefixOf
    <2>8. Promise!Receive(r, c)
      BY <2>2, <2>3, <2>7 DEF Promise!Receive
    <2> QED BY <2>1, <2>8 DEF Promise!Next
  <1>4. ASSUME NEW e \in Ep, BufferBunch(e) PROVE UNCHANGED << sealed, delivered >>
    BY <1>4 DEF BufferBunch, outVars
  <1> QED BY <1>1, <1>2, <1>3, <1>4, SealedGrows, ReceivedGrows

\* A connection starts as an abstract channel does.
LEMMA InitPromise == Init => Promise!Init
  BY DEF Init, Promise!Init

\* The connection with its packets, acks, flushes and retransmissions implements the
\* reliable channel of ReliableChannel, as long as the window assumption holds.
THEOREM ReliableInWindow == Spec /\ []InWindow => ImplementsReliableChannel
  <1>1. Init => OrderInv /\ Promise!Init
    BY InitOrder, InitPromise
  <1>2. OrderInv /\ InWindow /\ [Next]_vars => OrderInv'
    BY OrderStep
  <1>3. OrderInv /\ InWindow /\ [Next]_vars => [Promise!Next]_<< sealed, delivered >>
    BY PromiseStep
  <1> QED BY <1>1, <1>2, <1>3, PTL DEF Spec, ImplementsReliableChannel, Promise!Spec

\* For a channel that carries fewer bunches than half of MAX_CHSEQUENCE the
\* connection implements the reliable channel, without further assumptions.
THEOREM ReliableShortTraffic ==
  ASSUME ShortTraffic
  PROVE  Spec => ImplementsReliableChannel
  <1>1. Init => OrderInv /\ Counted
    BY InitOrder, InitCounted
  <1>2. OrderInv /\ Counted => InWindow
    BY ShortTrafficInWindow
  <1>3. OrderInv /\ Counted /\ [Next]_vars => (OrderInv /\ Counted)'
    BY <1>2, OrderStep, CountedStep DEF OrderInv
  <1>4. Spec => []InWindow
    BY <1>1, <1>2, <1>3, PTL DEF Spec
  <1> QED BY <1>4, ReliableInWindow, PTL
==============================================================================
