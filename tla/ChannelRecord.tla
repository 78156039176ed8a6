--------------------------- MODULE ChannelRecord ---------------------------
(***************************************************************************)
(* ConnectionChannelRecord: one flat queue that remembers, for every       *)
(* packet in flight, the channels whose bunches it carries.  A marker      *)
(* entry holds the packet's id; the channel entries after it belong to     *)
(* that packet.                                                            *)
(***************************************************************************)
EXTENDS Integers, Sequences

Marker(id)   == [isSequence |-> TRUE,  value |-> id]
ChannelOf(c) == [isSequence |-> FALSE, value |-> c]

RecordEntry == [isSequence: BOOLEAN, value: Int]

\* Variant: a marker each time.
PushPacketId_Always(record, last, id) == Append(record, Marker(id))

\* PushPacketId: no marker for the id that was pushed last.
PushPacketId(record, last, id) ==
    IF id # last THEN Append(record, Marker(id)) ELSE record

\* The test of ConsumeChannelRecordsForPacket on the front of a non-empty queue.
FrontIsPacket(record, id) == Head(record) = Marker(id)

\* n channel entries follow the marker at the front.
IsChannelRun(record, n) ==
    /\ \A i \in 2 .. n + 1 : ~ record[i].isSequence
    /\ n + 1 < Len(record) => record[n + 2].isSequence

\* Variant: only the first channel of the packet is told.
ChannelRun_FirstOnly(record, n) == {record[i].value : i \in (2 .. n + 1) \cap {2}}

ChannelRun(record, n) == {record[i].value : i \in 2 .. n + 1}

DropPacket(record, n) == SubSeq(record, n + 2, Len(record))
=============================================================================
