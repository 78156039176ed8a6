----------------------------- MODULE NetChannel -----------------------------
(***************************************************************************)
(* NetChannel: the queues of one reliable channel at one side, as         *)
(* operators on their values.  A bunch is the unit of transmission:        *)
(* what one pass of the bunch builder packs behind one bunch header.  It   *)
(* carries the channel's own sequence number, which the receiver brings    *)
(* back to the neighbourhood of what it expects next.                      *)
(***************************************************************************)
EXTENDS Integers, Sequences, FiniteSets

CONSTANT MaxChSequence      \* MAX_CHSEQUENCE, 1024 in the code

ASSUME MaxChSequenceAssumption ==
    MaxChSequence \in Nat /\ MaxChSequence >= 2 /\ MaxChSequence % 2 = 0

\* BestSignedDifference and MakeRelative: the number congruent to value that
\* lies closest to reference.
BestSignedDifference(value, reference) ==
    ((value - reference + (MaxChSequence \div 2)) % MaxChSequence)
        - (MaxChSequence \div 2)

MakeRelative(value, reference) ==
    reference + BestSignedDifference(value, reference)

-----------------------------------------------------------------------------
(* The sender.  OutUnAckedBunches maps a packet id to the bunches in it.   *)

EmptyMap == [x \in {} |-> << >>]

\* SealAndPush for every unit the builder packed: bunches get consecutive
\* numbers after OutReliable.
SealedBunches(ch, outReliable, sizes) ==
    [i \in 1 .. Len(sizes) |->
        [ch |-> ch, seq |-> outReliable + i, size |-> sizes[i]]]

\* Variant: the entry of the packet is overwritten.
AddUnAcked_Overwrite(unacked, id, b) ==
    [p \in DOMAIN unacked \union {id} |-> IF p # id THEN unacked[p] ELSE << b >>]

\* OutUnAckedBunches[id].push_back(b)
AddUnAcked(unacked, id, b) ==
    [p \in DOMAIN unacked \union {id} |->
        IF p # id THEN unacked[p]
        ELSE IF id \in DOMAIN unacked THEN Append(unacked[id], b) ELSE << b >>]

\* Variant: the erase is missing.
Erase_Nothing(unacked, id) == unacked

\* Acked, and the erase at the end of Nacked.
Erase(unacked, id) == [p \in DOMAIN unacked \ {id} |-> unacked[p]]

\* The bunches Nacked puts back: none when the packet has no entry.
BunchesOf(unacked, id) == IF id \in DOMAIN unacked THEN unacked[id] ELSE << >>

-----------------------------------------------------------------------------
(* The receiver.  InUnreadBunchMap maps a channel sequence number to the   *)
(* bunch that arrived under it before its turn.                            *)

\* AddUnreadInCopyBunch: the first bunch to arrive under a number stays.
AddUnread(unread, seq, b) ==
    [s \in DOMAIN unread \union {seq} |->
        IF s \in DOMAIN unread THEN unread[s] ELSE b]

\* The loop at the end of DispatchRawBunch looks only at the smallest key: n
\* buffered bunches follow when the channel has reached number last.
IsDrainLength(unread, last, n) ==
    IF last + 1 \in DOMAIN unread /\ \A s \in DOMAIN unread : last < s
    THEN /\ n > 0 /\ last + n + 1 \notin DOMAIN unread
         /\ \A i \in 1 .. n : last + i \in DOMAIN unread
    ELSE n = 0

DrainedBunches(unread, last, n) == [i \in 1 .. n |-> unread[last + i]]

Drained(unread, last, n) ==
    [s \in DOMAIN unread \ (last + 1 .. last + n) |-> unread[s]]
=============================================================================
