-------------------------- MODULE ReliableChannel --------------------------
(***************************************************************************)
(* What a channel promises its two users: what one side sends is received  *)
(* by the other in the same order, without gaps or repetitions.  When, and *)
(* how many at a time, is left open.  NetConnection implements this.       *)
(***************************************************************************)
EXTENDS Integers, Sequences

CONSTANTS Sides, Channels, Other   \* Other[e] is the side e talks to

VARIABLES sent, received    \* per side and channel, a sequence of bunches

IsPrefixOf(s, t) == Len(s) <= Len(t) /\ \A k \in 1 .. Len(s) : s[k] = t[k]

Init ==
    /\ sent = [e \in Sides |-> [c \in Channels |-> << >>]]
    /\ received = [e \in Sides |-> [c \in Channels |-> << >>]]

\* Side e sends on any of its channels.
Send(e) ==
    /\ \A c \in Channels : IsPrefixOf(sent[e][c], sent'[e][c])
    /\ sent' = [sent EXCEPT ![e] = sent'[e]]
    /\ UNCHANGED received

\* Side e receives more of what the other side has sent on channel c.
Receive(e, c) ==
    /\ IsPrefixOf(received[e][c], received'[e][c])
    /\ IsPrefixOf(received'[e][c], sent[Other[e]][c])
    /\ received' = [received EXCEPT ![e][c] = received'[e][c]]
    /\ UNCHANGED sent

Next == \E e \in Sides : Send(e) \/ \E c \in Channels : Receive(e, c)

Spec == Init /\ [][Next]_<< sent, received >>
=============================================================================
