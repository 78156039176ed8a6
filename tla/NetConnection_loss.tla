-------------------------- MODULE NetConnection_loss --------------------------
(***************************************************************************)
(* No bunch is lost between two open sides, proved for all values of the   *)
(* constants.                                                              *)
(*                                                                         *)
(* The argument follows a bunch from its queue to the other side.  What a  *)
(* packet is charged with it carries (PackedOf), also as a datagram        *)
(* (ChargedOf); the channel record still names every channel that has an   *)
(* entry in OutUnAckedBunches (CoveredOf), so a notification finds it; a   *)
(* nack puts it back, and an ack means that the other side has worked      *)
(* through a datagram with that number (HeadersOf), all of whose bunches   *)
(* have arrived there (ReadOf).  So each bunch is held or has arrived      *)
(* (AccountedOf).  What the code does not ensure, that numbers are read in *)
(* the window they were sent in, is the hypothesis LossWindows.            *)
(***************************************************************************)
EXTENDS NetConnection_packets

-----------------------------------------------------------------------------
(* What a packet is charged with it carries.                               *)

\* The packets made and not yet sent, those under assembly included, and the id of
\* the first of them.
Unsent(e) == OutPacketQueue[e] \o asm[e]
Sent(e)   == OutPacketId[e] - Ready(e)

\* The packets of u are numbered on from first, and each carries what the maps
\* m[c] charge it with.
Packed(u, first, m) ==
    \A i \in DOMAIN u :
        /\ u[i].id = first + (i - 1)
        /\ \A c \in Channels : u[i].id \in DOMAIN m[c] =>
             Elements(m[c][u[i].id]) \subseteq Elements(u[i].bunches)

\* While side e is open: that holds of its packets, and nothing is charged to a
\* packet that was not made.
PackedOf(e) ==
    ~ closed[e] =>
        /\ Packed(Unsent(e), Sent(e), OutUnAcked[e])
        /\ \A c \in Channels : \A x \in DOMAIN OutUnAcked[e][c] : x <= LastId(e)

PackedInv == AlignInv /\ \A e \in Ep : PackedOf(e)

\* Close is never undone.
LEMMA ClosedStays ==
  ASSUME TypeInv, [Next]_vars, NEW e \in Ep, closed[e] PROVE closed'[e]
  <1>1. CASE \E p \in net[e] : ReceiveNew(e, p)
    BY <1>1 DEF ReceiveNew
  <1>2. CASE \E c \in Channels : PackBunch(e, c)
    BY <1>2 DEF PackBunch, ctlVars
  <1>3. CASE HandlePacketNotification(e)
    BY <1>3 DEF HandlePacketNotification, Close, TypeInv, Typed, CtlTyped
  <1>4. CASE FinishAssembly(e) \/ SendKeepAlive(e) \/ SendPacket(e)
    BY <1>4 DEF FinishAssembly, SendKeepAlive, SendPacket
  <1>5. CASE AlignQuiet(e) \/ closed'[e]
    BY <1>5 DEF AlignQuiet
  <1> QED BY <1>1, <1>2, <1>3, <1>4, <1>5, OthersAlignQuiet

\* OutUnAckedBunches with some of the packets erased.
Shrinks(new, old) ==
    /\ DOMAIN new \subseteq DOMAIN old
    /\ \A x \in DOMAIN new : new[x] = old[x]

\* An erased entry.
LEMMA EraseShrinks ==
  ASSUME NEW m, NEW id
  PROVE  Shrinks(Erase(m, id), m)
  BY DEF Shrinks, Erase

\* PackBunch apart, no action charges a packet with anything.
LEMMA UnAckedShrinks ==
  ASSUME TypeInv, [Next]_vars, NEW e \in Ep, \A c \in Channels : ~ PackBunch(e, c)
  PROVE  \A c \in Channels : Shrinks(OutUnAcked'[e][c], OutUnAcked[e][c])
  <1>1. CASE OutUnAcked'[e] = OutUnAcked[e]
    BY <1>1 DEF Shrinks
  <1>2. CASE HandlePacketNotification(e)
    <2>1. CASE UNCHANGED OutUnAcked
      BY <2>1 DEF Shrinks
    <2>2. ASSUME NEW id, NEW cs, NEW d, NotifyChannels(e, id, cs, d)
          PROVE  \A c \in Channels : Shrinks(OutUnAcked'[e][c], OutUnAcked[e][c])
      <3>1. \A c \in Channels :
              OutUnAcked'[e][c] \in {OutUnAcked[e][c], Erase(OutUnAcked[e][c], id)}
        BY <2>2 DEF NotifyChannels, TypeInv, Typed, QueueTyped, PerChannel
      <3> QED BY <3>1, EraseShrinks DEF Shrinks
    <2> QED BY <1>2, <2>1, <2>2 DEF HandlePacketNotification
  <1>3. ASSUME NEW k \in Channels, NEW id \in DOMAIN OutUnAcked[e][k],
               ForceRetransmit(e, k, id)
        PROVE  \A c \in Channels : Shrinks(OutUnAcked'[e][c], OutUnAcked[e][c])
    <2>1. \A c \in Channels :
            OutUnAcked'[e][c] \in {OutUnAcked[e][c], Erase(OutUnAcked[e][c], id)}
      BY <1>3 DEF ForceRetransmit, TypeInv, Typed, QueueTyped, PerChannel
    <2> QED BY <2>1, EraseShrinks DEF Shrinks
  <1>4. ASSUME NEW d \in Ep, HandlePacketNotification(d), d # e
        PROVE  OutUnAcked'[e] = OutUnAcked[e]
    <2>1. CASE UNCHANGED OutUnAcked
      BY <2>1
    <2>2. ASSUME NEW id, NEW cs, NEW k, NotifyChannels(d, id, cs, k)
          PROVE  OutUnAcked'[e] = OutUnAcked[e]
      BY <1>4, <2>2 DEF NotifyChannels
    <2> QED BY <1>4, <2>1, <2>2 DEF HandlePacketNotification
  <1>5. ASSUME NEW d \in Ep, TickChannels(d) PROVE OutUnAcked'[e] = OutUnAcked[e]
    BY <1>5 DEF TickChannels
  <1>6. ASSUME NEW d \in Ep, NEW k \in Channels, d # e,
               \/ PackBunch(d, k)
               \/ \E id \in DOMAIN OutUnAcked[d][k] : ForceRetransmit(d, k, id)
        PROVE  OutUnAcked'[e] = OutUnAcked[e]
    <2>1. CASE PackBunch(d, k)
      <3>1. PICK m : OutUnAcked' = [OutUnAcked EXCEPT ![d][k] = m]
        BY <2>1 DEF PackBunch
      <3> QED BY <1>6, <3>1
    <2>2. ASSUME NEW id, ForceRetransmit(d, k, id) PROVE OutUnAcked'[e] = OutUnAcked[e]
      <3>1. PICK m : OutUnAcked' = [OutUnAcked EXCEPT ![d][k] = m]
        BY <2>2 DEF ForceRetransmit
      <3> QED BY <1>6, <3>1
    <2> QED BY <1>6, <2>1, <2>2
  <1>7. ASSUME NEW d \in Ep, NEW k \in Channels,
               DiscardBunch(d, k) \/ OverflowReliableBuffer(d, k)
        PROVE  OutUnAcked'[e] = OutUnAcked[e]
    BY <1>7 DEF DiscardBunch, OverflowReliableBuffer
  <1> QED BY <1>1, <1>2, <1>3, <1>4, <1>5, <1>6, <1>7, QueuesQuiet

\* Fewer charges leave the packets packed.
LEMMA PackedShrinks ==
  ASSUME NEW u, NEW first, NEW new, NEW old, Packed(u, first, old),
         \A c \in Channels : Shrinks(new[c], old[c])
  PROVE  Packed(u, first, new)
  BY DEF Packed, Shrinks

\* How many packets are made and not yet sent.
LEMMA UnsentCount ==
  ASSUME TypeInv, NEW e \in Ep
  PROVE  /\ Unsent(e) \in Seq(Packet) /\ Len(Unsent(e)) \in Nat
         /\ DOMAIN Unsent(e) = 1 .. Len(Unsent(e))
         /\ Sent(e) \in Int /\ LastId(e) \in Int
         /\ Sent(e) + Len(Unsent(e)) = LastId(e) + 1
         /\ \A p \in Elements(OutPacketQueue[e]) \union Elements(asm[e]) :
              p \in Elements(Unsent(e))
  <1> DEFINE q == OutPacketQueue[e]
             a == asm[e]
             u == q \o a
             k == Len(q)
             l == Len(a)
             x == OutPacketId[e]
  <1>1. q \in Seq(Packet) /\ a \in Seq(Packet) /\ x \in Int
    BY ReadyType
  <1>2. /\ u \in Seq(Packet) /\ k \in Nat /\ l \in Nat /\ Len(u) = k + l
        /\ \A i \in 1 .. k : u[i] = q[i]
        /\ \A i \in 1 .. l : u[k + i] = a[i]
    <2> HIDE DEF q, a
    <2> QED BY <1>1, ConcatElements
  <1>3. DOMAIN u = 1 .. Len(u) /\ DOMAIN q = 1 .. k /\ DOMAIN a = 1 .. l
    BY <1>1, <1>2
  <1>4. /\ a = << >> => l = 0 /\ Ready(e) = k + 0 /\ LastId(e) = x - 1
        /\ a # << >> => Ready(e) = k + (l - 1) /\ LastId(e) = x
    BY <1>1 DEF Ready, LastId
  <1> HIDE DEF u, k, l, a, q
  <1>5. /\ Sent(e) \in Int /\ LastId(e) \in Int
        /\ Sent(e) + Len(u) = LastId(e) + 1
    <2>1. CASE a = << >>
      BY <1>1, <1>2, <1>4, <2>1 DEF Sent
    <2>2. CASE a # << >>
      BY <1>1, <1>2, <1>4, <2>2 DEF Sent
    <2> QED BY <2>1, <2>2
  <1>6. \A p \in Elements(q) \union Elements(a) : p \in Elements(u)
    <2>1. \A i \in 1 .. k : i \in 1 .. k + l
      BY <1>2
    <2>2. \A i \in 1 .. l : k + i \in 1 .. k + l
      BY <1>2
    <2> QED BY <1>2, <1>3, <2>1, <2>2 DEF Elements
  <1> QED BY <1>1, <1>2, <1>3, <1>5, <1>6 DEF Unsent, u, q, a

\* The same after a step.
UnsentCounted ==
    \A e \in Ep : TypeInv =>
        /\ Len(Unsent(e)) \in Nat /\ Sent(e) \in Int /\ LastId(e) \in Int
        /\ Sent(e) + Len(Unsent(e)) = LastId(e) + 1

\* The lemma of the count, of the primed state.
LEMMA UnsentCountNext == UnsentCounted'
  <1>1. UnsentCounted
    BY UnsentCount DEF UnsentCounted
  <1> QED BY <1>1, PTL

\* An element more at the end.
LEMMA AppendElements ==
  ASSUME NEW S, NEW q \in Seq(S), NEW x \in S
  PROVE  Elements(Append(q, x)) = Elements(q) \union {x}
  <1>1. /\ Len(Append(q, x)) = Len(q) + 1 /\ Len(q) \in Nat
        /\ \A i \in 1 .. Len(q) : Append(q, x)[i] = q[i]
        /\ Append(q, x)[Len(q) + 1] = x
        /\ DOMAIN Append(q, x) = 1 .. Len(q) + 1 /\ DOMAIN q = 1 .. Len(q)
    OBVIOUS
  <1>2. 1 .. Len(q) + 1 = (1 .. Len(q)) \union {Len(q) + 1}
    BY <1>1
  <1> QED BY <1>1, <1>2 DEF Elements

\* AddUnAckedOutBunch changes what one packet is charged with
LEMMA AddUnAckedEntries ==
  ASSUME NEW m, NEW id, NEW b
  PROVE  /\ DOMAIN AddUnAcked(m, id, b) = DOMAIN m \union {id}
         /\ \A x \in DOMAIN m \ {id} : AddUnAcked(m, id, b)[x] = m[x]
  BY DEF AddUnAcked

\* by one bunch.
LEMMA AddUnAckedBunch ==
  ASSUME NEW m \in MapTo(Seq(Bunch)), NEW id, NEW b \in Bunch
  PROVE  Elements(AddUnAcked(m, id, b)[id])
           = {b} \union (IF id \in DOMAIN m THEN Elements(m[id]) ELSE {})
  <1>1. CASE id \in DOMAIN m
    <2> DEFINE q == m[id]
    <2>1. q \in Seq(Bunch)
      BY <1>1, MapValue
    <2> HIDE DEF q
    <2>2. Elements(Append(q, b)) = Elements(q) \union {b}
      BY <2>1, AppendElements
    <2>3. AddUnAcked(m, id, b)[id] = Append(q, b)
      BY <1>1 DEF AddUnAcked, q
    <2> QED BY <1>1, <2>2, <2>3 DEF q
  <1>2. CASE id \notin DOMAIN m
    <2>1. Elements(<< b >>) = {b}
      BY DEF Elements
    <2> QED BY <1>2, <2>1 DEF AddUnAcked
  <1> QED BY <1>1, <1>2

\* A new packet at the end, charged with the bunch it carries or with nothing.
LEMMA PackedNew ==
  ASSUME NEW u \in Seq(Packet), NEW first \in Int, NEW old, Packed(u, first, old),
         NEW p \in Packet, p.id = first + Len(u), NEW new,
         \A c \in Channels : Shrinks([x \in DOMAIN new[c] \ {p.id} |-> new[c][x]], old[c]),
         \A c \in Channels : p.id \in DOMAIN new[c] =>
            Elements(new[c][p.id]) \subseteq Elements(p.bunches)
  PROVE  Packed(Append(u, p), first, new)
  <1> DEFINE k == Len(u)
             v == Append(u, p)
  <1>1. /\ k \in Nat /\ DOMAIN u = 1 .. k /\ DOMAIN v = 1 .. k + 1
        /\ \A i \in 1 .. k : v[i] = u[i]
        /\ v[k + 1] = p
    OBVIOUS
  <1> HIDE DEF v, k
  <1> SUFFICES ASSUME NEW i \in 1 .. k + 1
               PROVE  /\ v[i].id = first + (i - 1)
                      /\ \A c \in Channels : v[i].id \in DOMAIN new[c] =>
                           Elements(new[c][v[i].id]) \subseteq Elements(v[i].bunches)
    BY <1>1 DEF Packed, v
  <1>2. CASE i = k + 1
    <2>1. first + Len(u) = first + (i - 1)
      BY <1>1, <1>2 DEF k
    <2> QED BY <1>1, <1>2, <2>1
  <1>3. CASE i \in 1 .. k
    <2>1. v[i] = u[i] /\ u[i].id = first + (i - 1)
          /\ \A c \in Channels : u[i].id \in DOMAIN old[c] =>
               Elements(old[c][u[i].id]) \subseteq Elements(u[i].bunches)
      BY <1>1, <1>3 DEF Packed
    <2>2. u[i].id # p.id
      <3>1. first + (i - 1) # first + k
        BY <1>1, <1>3
      <3> QED BY <2>1, <3>1 DEF k
    <2>3. \A c \in Channels : u[i].id \in DOMAIN new[c] =>
             u[i].id \in DOMAIN old[c] /\ new[c][u[i].id] = old[c][u[i].id]
      BY <2>2 DEF Shrinks
    <2> QED BY <2>1, <2>3
  <1> QED BY <1>1, <1>2, <1>3

\* The last packet takes a bunch more and is charged with it.
LEMMA PackedMore ==
  ASSUME NEW u \in Seq(Packet), u # << >>, NEW first \in Int, NEW old, Packed(u, first, old),
         NEW p \in Packet, p.id = LastOf(u).id, NEW new,
         \A c \in Channels : Shrinks([x \in DOMAIN new[c] \ {p.id} |-> new[c][x]], old[c]),
         NEW b, Elements(p.bunches) = Elements(LastOf(u).bunches) \union {b},
         \A c \in Channels : p.id \in DOMAIN new[c] =>
            \/ /\ p.id \in DOMAIN old[c]
               /\ Elements(new[c][p.id]) \subseteq Elements(old[c][p.id]) \union {b}
            \/ Elements(new[c][p.id]) \subseteq {b}
  PROVE  Packed(Append(FrontOf(u), p), first, new)
  <1> DEFINE f == FrontOf(u)
             k == Len(f)
  <1>1. /\ f \in Seq(Packet) /\ k \in Nat /\ DOMAIN u = 1 .. k + 1 /\ DOMAIN f = 1 .. k
        /\ LastOf(u) = u[k + 1] /\ \A i \in 1 .. k : f[i] = u[i]
    <2>1. /\ Len(u) \in Nat \ {0} /\ DOMAIN u = 1 .. Len(u) /\ f \in Seq(Packet)
          /\ Len(f) = Len(u) - 1 /\ LastOf(u) = u[Len(u)]
          /\ \A i \in 1 .. Len(u) - 1 : f[i] = u[i]
      BY Parts
    <2> HIDE DEF f
    <2>2. Len(u) = k + 1 /\ k \in Nat /\ DOMAIN f = 1 .. k
      BY <2>1
    <2> QED BY <2>1, <2>2
  <1> HIDE DEF k, f
  <1>2. /\ k + 1 \in DOMAIN u /\ u[k + 1].id = first + ((k + 1) - 1)
        /\ \A c \in Channels : u[k + 1].id \in DOMAIN old[c] =>
             Elements(old[c][u[k + 1].id]) \subseteq Elements(u[k + 1].bunches)
    <2>1. k + 1 \in 1 .. k + 1
      BY <1>1
    <2> QED BY <1>1, <2>1 DEF Packed
  <1>3. p.id = first + Len(f)
    <2>1. first + ((k + 1) - 1) = first + k
      BY <1>1
    <2> QED BY <1>1, <1>2, <2>1 DEF k
  <1>4. Packed(f, first, old)
    <2>1. \A i \in 1 .. k : i \in 1 .. k + 1
      BY <1>1
    <2> QED BY <1>1, <2>1 DEF Packed
  <1>5. \A c \in Channels : p.id \in DOMAIN new[c] =>
            Elements(new[c][p.id]) \subseteq Elements(p.bunches)
    BY <1>1, <1>2
  <1> QED BY <1>1, <1>3, <1>4, <1>5, PackedNew DEF f

\* An element more behind two queues, and the last element of two queues replaced.
LEMMA ConcatAppend ==
  ASSUME NEW S, NEW q \in Seq(S), NEW a \in Seq(S), NEW x \in S
  PROVE  /\ q \o Append(a, x) = Append(q \o a, x)
         /\ a # << >> => /\ q \o a # << >> /\ LastOf(q \o a) = LastOf(a)
                         /\ FrontOf(q \o a) = q \o FrontOf(a)
  <1> DEFINE k == Len(q)
             l == Len(a)
  <1>1. /\ q \o a \in Seq(S) /\ k \in Nat /\ l \in Nat /\ Len(q \o a) = k + l
        /\ \A i \in 1 .. k : (q \o a)[i] = q[i]
        /\ \A i \in 1 .. l : (q \o a)[k + i] = a[i]
    BY ConcatElements, ConcatType
  <1>2. q \o Append(a, x) = Append(q \o a, x)
    OBVIOUS
  <1>3. ASSUME a # << >>
        PROVE  /\ q \o a # << >> /\ LastOf(q \o a) = LastOf(a)
               /\ FrontOf(q \o a) = q \o FrontOf(a)
    <2>1. /\ l \in Nat \ {0} /\ LastOf(a) = a[l] /\ FrontOf(a) \in Seq(S)
          /\ Len(FrontOf(a)) = l - 1 /\ \A i \in 1 .. l - 1 : FrontOf(a)[i] = a[i]
      BY <1>3, Parts
    <2>2. q \o a # << >>
      BY <1>1, <2>1
    <2>3. /\ LastOf(q \o a) = (q \o a)[k + l] /\ FrontOf(q \o a) \in Seq(S)
          /\ Len(FrontOf(q \o a)) = k + l - 1
          /\ \A i \in 1 .. k + l - 1 : FrontOf(q \o a)[i] = (q \o a)[i]
      <3> DEFINE u == q \o a
      <3>1. u \in Seq(S) /\ u # << >> /\ Len(u) = k + l
        BY <1>1, <2>2
      <3> HIDE DEF u
      <3>2. /\ LastOf(u) = u[Len(u)] /\ FrontOf(u) \in Seq(S) /\ Len(FrontOf(u)) = Len(u) - 1
            /\ \A i \in 1 .. Len(u) - 1 : FrontOf(u)[i] = u[i]
        BY <3>1, Parts
      <3> QED BY <3>1, <3>2 DEF u
    <2>4. LastOf(q \o a) = LastOf(a)
      BY <1>1, <2>1, <2>3
    <2>5. FrontOf(q \o a) = q \o FrontOf(a)
      <3> DEFINE f == FrontOf(a)
                 g == FrontOf(q \o a)
      <3>1. f \in Seq(S) /\ Len(f) = l - 1 /\ \A i \in 1 .. l - 1 : f[i] = a[i]
        BY <2>1
      <3>2. g \in Seq(S) /\ Len(g) = k + l - 1 /\ \A i \in 1 .. k + l - 1 : g[i] = (q \o a)[i]
        BY <2>3
      <3> HIDE DEF f, g
      <3>3. /\ q \o f \in Seq(S) /\ Len(q \o f) = k + (l - 1)
            /\ \A i \in 1 .. k : (q \o f)[i] = q[i]
            /\ \A i \in 1 .. l - 1 : (q \o f)[k + i] = f[i]
        <4>1. /\ q \o f \in Seq(S) /\ Len(q \o f) = k + Len(f)
              /\ \A i \in 1 .. k : (q \o f)[i] = q[i]
              /\ \A i \in 1 .. Len(f) : (q \o f)[k + i] = f[i]
          <5>1. f \in Seq(S)
            BY <3>1
          <5> QED BY <5>1, ConcatElements, ConcatType
        <4> QED BY <3>1, <4>1
      <3>4. k + (l - 1) = k + l - 1
        BY <1>1
      <3>5. ASSUME NEW i \in 1 .. k + l - 1 PROVE g[i] = (q \o f)[i]
        <4>1. CASE i \in 1 .. k
          BY <1>1, <3>2, <3>3, <4>1
        <4>2. CASE i \notin 1 .. k
          <5>1. i - k \in 1 .. l - 1 /\ i - k \in 1 .. l /\ i = k + (i - k)
            BY <1>1, <4>2
          <5>2. (q \o a)[k + (i - k)] = a[i - k] /\ (q \o f)[k + (i - k)] = f[i - k]
            BY <1>1, <3>3, <5>1
          <5>3. (q \o a)[i] = a[i - k] /\ (q \o f)[i] = f[i - k] /\ f[i - k] = a[i - k]
            BY <3>1, <5>1, <5>2
          <5> QED BY <3>2, <5>3
        <4> QED BY <4>1, <4>2
      <3>6. g = q \o f
        <4> DEFINE h == q \o f
        <4>1. h \in Seq(S) /\ Len(h) = Len(g) /\ Len(g) = k + l - 1 /\ g \in Seq(S)
              /\ \A i \in 1 .. k + l - 1 : g[i] = h[i]
          BY <3>2, <3>3, <3>4, <3>5
        <4> HIDE DEF h
        <4>2. g = h
          BY <4>1, SMTT(30)
        <4> QED BY <4>2 DEF h
      <3> QED BY <3>6 DEF f, g
    <2> QED BY <2>2, <2>4, <2>5
  <1> QED BY <1>2, <1>3

\* A step that keeps the packets of a side, and charges them with no more.
LEMMA PackedQuiet ==
  ASSUME NEW e \in Ep, PackedOf(e), closed'[e] \in {closed[e], TRUE},
         Unsent(e)' = Unsent(e), Sent(e)' = Sent(e), LastId(e)' = LastId(e),
         \A c \in Channels : Shrinks(OutUnAcked'[e][c], OutUnAcked[e][c])
  PROVE  PackedOf(e)'
  <1> SUFFICES ASSUME ~ closed'[e] PROVE PackedOf(e)'
    BY DEF PackedOf
  <1>1. /\ Packed(Unsent(e), Sent(e), OutUnAcked[e])
        /\ \A c \in Channels : \A x \in DOMAIN OutUnAcked[e][c] : x <= LastId(e)
    BY DEF PackedOf
  <1>2. Packed(Unsent(e), Sent(e), OutUnAcked'[e])
    BY <1>1, PackedShrinks
  <1>3. \A c \in Channels : \A x \in DOMAIN OutUnAcked'[e][c] : x <= LastId(e)
    BY <1>1 DEF Shrinks
  <1>4. Packed(Unsent(e)', Sent(e)', OutUnAcked'[e])
    BY <1>2
  <1> QED BY <1>3, <1>4 DEF PackedOf, Packed

\* Only PackBunch, SendKeepAlive and SendPacket change the packets of a side that
\* stays open: FinishAssembly moves them to OutPacketQueue.
LEMMA PacketsQuiet ==
  ASSUME TypeInv, NEW e \in Ep, [Next]_vars, AlignedOf(e), ~ closed[e],
         ~ SendKeepAlive(e), ~ SendPacket(e), \A c \in Channels : ~ PackBunch(e, c)
  PROVE  \/ closed'[e]
         \/ Unsent(e)' = Unsent(e) /\ Sent(e)' = Sent(e) /\ LastId(e)' = LastId(e)
  <1>1. ASSUME UNCHANGED << OutPacketId, OutPacketQueue, asm >>
        PROVE  Unsent(e)' = Unsent(e) /\ Sent(e)' = Sent(e) /\ LastId(e)' = LastId(e)
    BY <1>1 DEF Unsent, Sent, Ready, LastId
  <1>2. CASE \E p \in net[e] : ReceiveNew(e, p)
    BY <1>1, <1>2 DEF ReceiveNew, sendVars
  <1>3. CASE HandlePacketNotification(e)
    BY <1>1, <1>3 DEF HandlePacketNotification, sendVars
  <1>4. CASE FinishAssembly(e)
    <2> DEFINE a == asm[e]
               q == OutPacketQueue[e]
    <2>1. a \in Seq(Packet) /\ q \in Seq(Packet) /\ q \o a \in Seq(Packet)
          /\ OutPacketId[e] \in Int
      BY ReadyType, ConcatType
    <2>2. asm'[e] = << >> /\ pc[e] = "assemble"
      BY <1>4 DEF FinishAssembly, TypeInv, Typed, PacketTyped
    <2>3. OutPacketQueue'[e] = q \o a /\ LastId(e)' = LastId(e)
      <3>1. CASE a = << >>
        BY <1>4, <2>2, <3>1 DEF FinishAssembly, TypeInv, Typed, PacketTyped, RecordTyped, LastId
      <3>2. CASE a # << >>
        <4>1. LastOf(a).bunches # << >>
          BY <3>2 DEF AlignedOf
        <4>2. OutPacketQueue'[e] = q \o a /\ OutPacketId'[e] = OutPacketId[e] + 1
          BY <1>4, <3>2, <4>1 DEF FinishAssembly, TypeInv, Typed, PacketTyped, RecordTyped
        <4>3. (OutPacketId[e] + 1) - 1 = OutPacketId[e]
          BY <2>1
        <4> QED BY <2>2, <3>2, <4>2, <4>3 DEF LastId
      <3> QED BY <3>1, <3>2
    <2>4. Unsent(e)' = Unsent(e)
      <3>1. (q \o a) \o << >> = q \o a
        BY <2>1
      <3> QED BY <2>2, <2>3, <3>1 DEF Unsent
    <2>5. TypeInv'
      BY TypeInvStep
    <2>6. /\ Sent(e) \in Int /\ Len(Unsent(e)) \in Nat /\ LastId(e) \in Int
          /\ Sent(e) + Len(Unsent(e)) = LastId(e) + 1
      BY UnsentCount
    <2>7. Sent(e)' \in Int /\ Sent(e)' + Len(Unsent(e)') = LastId(e)' + 1
      BY <2>5, UnsentCountNext DEF UnsentCounted
    <2> QED BY <2>3, <2>4, <2>5, <2>6, <2>7
  <1>5. CASE AlignQuiet(e)
    BY <1>5 DEF AlignQuiet, Unsent, Sent, Ready, LastId
  <1> QED BY <1>2, <1>3, <1>4, <1>5, OthersAlignQuiet

\* SendKeepAlive: a packet without bunches that nothing is charged to.
LEMMA KeepAlivePacked ==
  ASSUME TypeInv, NEW e \in Ep, [Next]_vars, SendKeepAlive(e), AlignedOf(e), PackedOf(e),
         ~ closed[e]
  PROVE  PackedOf(e)' /\ Sent(e)' = Sent(e)
  <1> DEFINE q == OutPacketQueue[e]
             u == Unsent(e)
             x == OutPacketId[e]
             p == [id |-> x, size |-> PacketHeaderSize, bunches |-> << >>]
  <1>1. /\ pc[e] = "keepalive" /\ OutPacketQueue'[e] = Append(q, p)
        /\ OutPacketId'[e] = x + 1 /\ UNCHANGED << asm, OutUnAcked >>
    BY DEF SendKeepAlive, TypeInv, Typed, CtlTyped, PacketTyped, RecordTyped, outVars
  <1>2. asm[e] = << >> /\ q \in Seq(Packet) /\ x \in Int /\ p \in Packet
    <2>1. q \in Seq(Packet) /\ x \in Int
      BY ReadyType
    <2>2. p \in Packet
      BY <2>1, ConnectionAssumption DEF Packet
    <2>3. asm[e] = << >>
      BY <1>1 DEF AlignedOf
    <2> QED BY <2>1, <2>2, <2>3
  <1>3. u = q /\ Unsent(e)' = Append(q, p)
    <2>1. q \o << >> = q /\ Append(q, p) \o << >> = Append(q, p)
      BY <1>2
    <2> QED BY <1>1, <1>2, <2>1 DEF Unsent
  <1>4. LastId(e) = x - 1 /\ LastId(e)' = x
    BY <1>1, <1>2 DEF LastId
  <1>5. /\ Sent(e) \in Int /\ Len(u) \in Nat /\ Sent(e) + Len(u) = x /\ u \in Seq(Packet)
    BY <1>2, <1>4, UnsentCount
  <1>6. /\ Sent(e)' \in Int /\ Sent(e)' + Len(Unsent(e)') = x + 1
    BY <1>4, TypeInvStep, UnsentCountNext DEF UnsentCounted
  <1> HIDE DEF u, p, q
  <1>7. Sent(e)' = Sent(e)
    <2>1. Len(Append(q, p)) = Len(q) + 1 /\ Len(q) = Len(u)
      BY <1>2, <1>3
    <2> QED BY <1>2, <1>3, <1>5, <1>6, <2>1
  <1>8. \A c \in Channels : \A y \in DOMAIN OutUnAcked[e][c] : y <= x - 1 /\ y \in Int
    <2>1. \A c \in Channels : DOMAIN OutUnAcked[e][c] \subseteq Int
      BY MapValue, ChannelValue DEF TypeInv, Typed, QueueTyped
    <2> QED BY <1>4, <2>1 DEF PackedOf
  <1>9. \A c \in Channels : x \notin DOMAIN OutUnAcked[e][c]
    BY <1>2, <1>8
  <1>10. p.id = x
    BY DEF p
  <1>11. Packed(Append(u, p), Sent(e), OutUnAcked[e])
    <2>1. Packed(u, Sent(e), OutUnAcked[e])
      BY DEF PackedOf, u
    <2>2. \A c \in Channels :
            Shrinks([y \in DOMAIN OutUnAcked[e][c] \ {p.id} |-> OutUnAcked[e][c][y]],
                    OutUnAcked[e][c])
      BY DEF Shrinks
    <2> QED BY <1>2, <1>5, <1>9, <1>10, <2>1, <2>2, PackedNew
  <1>12. Packed(Unsent(e)', Sent(e)', OutUnAcked'[e])
    BY <1>1, <1>3, <1>7, <1>11
  <1>13. \A c \in Channels : \A y \in DOMAIN OutUnAcked'[e][c] : y <= LastId(e)'
    BY <1>1, <1>2, <1>4, <1>8
  <1> QED BY <1>7, <1>12, <1>13 DEF PackedOf, Packed

\* SendPacket: the first packet goes.
LEMMA SendPacketPacked ==
  ASSUME TypeInv, NEW e \in Ep, [Next]_vars, SendPacket(e), AlignedOf(e), PackedOf(e),
         ~ closed[e]
  PROVE  /\ PackedOf(e)' /\ Sent(e)' = Sent(e) + 1
         /\ Head(OutPacketQueue[e]).id = Sent(e)
         /\ \A c \in Channels : Sent(e) \in DOMAIN OutUnAcked[e][c] =>
              Elements(OutUnAcked[e][c][Sent(e)])
                 \subseteq Elements(Head(OutPacketQueue[e]).bunches)
  <1> DEFINE q == OutPacketQueue[e]
             u == Unsent(e)
             first == Sent(e)
             k == Len(q)
  <1>1. /\ pc[e] = "flush" /\ q # << >> /\ OutPacketQueue'[e] = Tail(q)
        /\ UNCHANGED << closed, asm, OutUnAcked, OutPacketId >>
    BY DEF SendPacket, TypeInv, Typed, PacketTyped, LoopsGuarded, outVars
  <1>2. asm[e] = << >> /\ q \in Seq(Packet)
    BY <1>1, ReadyType DEF AlignedOf
  <1>3. /\ k \in Nat \ {0} /\ DOMAIN q = 1 .. k /\ Tail(q) \in Seq(Packet)
        /\ Len(Tail(q)) = k - 1 /\ \A i \in 1 .. k - 1 : Tail(q)[i] = q[i + 1]
        /\ Head(q) = q[1]
    BY <1>1, <1>2, Parts
  <1>4. u = q /\ Unsent(e)' = Tail(q)
    <2>1. q \o << >> = q /\ Tail(q) \o << >> = Tail(q)
      BY <1>2, <1>3
    <2> QED BY <1>1, <1>2, <2>1 DEF Unsent
  <1>5. LastId(e)' = LastId(e)
    BY <1>1, <1>2 DEF LastId
  <1>6. /\ first \in Int /\ first + k = LastId(e) + 1 /\ LastId(e) \in Int
    BY <1>4, UnsentCount
  <1>7. /\ Sent(e)' \in Int /\ Sent(e)' + Len(Tail(q)) = LastId(e) + 1
    BY <1>4, <1>5, TypeInvStep, UnsentCountNext DEF UnsentCounted
  <1>8. /\ Packed(q, first, OutUnAcked[e])
        /\ \A c \in Channels : \A x \in DOMAIN OutUnAcked[e][c] : x <= LastId(e)
    BY <1>4 DEF PackedOf
  <1>9. DOMAIN Tail(q) = 1 .. k - 1
    BY <1>3
  <1> DEFINE t == Tail(q)
  <1> HIDE DEF u, q, first, k, t
  <1>10. Sent(e)' = first + 1
    BY <1>3, <1>6, <1>7
  <1>11. /\ q[1].id = first
         /\ \A c \in Channels : q[1].id \in DOMAIN OutUnAcked[e][c] =>
              Elements(OutUnAcked[e][c][q[1].id]) \subseteq Elements(q[1].bunches)
    <2>1. 1 \in 1 .. k /\ first + (1 - 1) = first
      BY <1>3, <1>6
    <2> QED BY <1>3, <1>8, <2>1 DEF Packed
  <1>12. Packed(t, first + 1, OutUnAcked[e])
    <2>1. ASSUME NEW i \in 1 .. k - 1
          PROVE  /\ t[i].id = (first + 1) + (i - 1)
                 /\ \A c \in Channels : t[i].id \in DOMAIN OutUnAcked[e][c] =>
                      Elements(OutUnAcked[e][c][t[i].id]) \subseteq Elements(t[i].bunches)
      <3>1. i + 1 \in 1 .. k /\ first + ((i + 1) - 1) = (first + 1) + (i - 1)
        BY <1>3, <1>6
      <3>2. t[i] = q[i + 1]
        BY <1>3 DEF t
      <3> QED BY <1>3, <1>8, <3>1, <3>2 DEF Packed
    <2> QED BY <1>9, <2>1 DEF Packed, t
  <1>13. Packed(Unsent(e)', Sent(e)', OutUnAcked'[e])
    BY <1>1, <1>4, <1>10, <1>12 DEF t
  <1>14. \A c \in Channels : \A x \in DOMAIN OutUnAcked'[e][c] : x <= LastId(e)'
    BY <1>1, <1>5, <1>8
  <1>15. PackedOf(e)'
    BY <1>13, <1>14 DEF PackedOf, Packed
  <1> QED BY <1>3, <1>10, <1>11, <1>15 DEF q, first

\* PackBunch: the packet the bunch goes to is the last one, before or after the step,
\* and it is charged with that bunch.
LEMMA PackBunchPacks ==
  ASSUME UnitsFit, TypeInv, SizesKept, NEW e \in Ep, NEW c \in Channels, PackBunch(e, c),
         AlignedOf(e), ~ closed[e]
  PROVE  LET b == Head(OutBunchQueue[e][c])
             u == Unsent(e)
         IN  \E p \in Packet :
               /\ UNCHANGED closed /\ b \in Bunch /\ LastId(e)' = PacketId(e, b)
               /\ \A k \in Channels : OutUnAcked'[e][k] =
                    IF k = c THEN AddUnAcked(OutUnAcked[e][c], LastOf(Packets(e, b)).id, b)
                             ELSE OutUnAcked[e][k]
               /\ \/ /\ u # << >> /\ Unsent(e)' = Append(FrontOf(u), p)
                     /\ LastId(e)' = LastId(e) /\ LastOf(Packets(e, b)) = LastOf(u)
                     /\ p.id = LastOf(u).id /\ p.bunches = Append(LastOf(u).bunches, b)
                  \/ /\ Unsent(e)' = Append(u, p)
                     /\ LastId(e)' = LastId(e) + 1
                     /\ LastOf(Packets(e, b)) = NewPacket(LastId(e) + 1)
                     /\ p.id = LastId(e) + 1 /\ p.bunches = << b >>
  <1> DEFINE b  == Head(OutBunchQueue[e][c])
             q  == OutPacketQueue[e]
             a  == asm[e]
             u  == Unsent(e)
             ps == Packets(e, b)
             l  == LastOf(ps)
             p  == [l EXCEPT !.size = @ + TotalSize(b), !.bunches = Append(@, b)]
             last == LastId(e)
  <1>1. /\ OutPacketId'[e] = PacketId(e, b) /\ UNCHANGED << closed, OutPacketQueue >>
        /\ asm'[e] = IF Fits(l, b) THEN Append(FrontOf(ps), p) ELSE ps
        /\ OutUnAcked' = [OutUnAcked EXCEPT ![e][c] = AddUnAcked(@, l.id, b)]
    BY DEF PackBunch, TypeInv, Typed, RecordTyped, PacketTyped, ctlVars
  <1>2. \A k \in Channels : OutUnAcked'[e][k] =
          IF k = c THEN AddUnAcked(OutUnAcked[e][c], l.id, b) ELSE OutUnAcked[e][k]
    <2> HIDE DEF b, l
    <2> QED BY <1>1 DEF TypeInv, Typed, QueueTyped, PerChannel
  <1>3. /\ Fits(l, b) /\ ps \in Seq(Packet) /\ ps # << >> /\ b \in Bunch
        /\ \/ a # << >> /\ ps = a /\ PacketId(e, b) = last
           \/ ps = Append(a, NewPacket(last + 1)) /\ PacketId(e, b) = last + 1
    BY PackBunchOpens
  <1> HIDE DEF b
  <1>4. l \in Packet /\ FrontOf(ps) \in Seq(Packet)
    <2> HIDE DEF ps
    <2> QED BY <1>3, Parts
  <1>5. asm'[e] = Append(FrontOf(ps), p)
    BY <1>1, <1>3
  <1>6. /\ p \in Packet /\ p.id = l.id /\ p.bunches = Append(l.bunches, b)
        /\ l.bunches \in Seq(Bunch)
    <2> HIDE DEF l
    <2>1. TotalSize(b) \in Nat /\ l.size \in Nat /\ l.bunches \in Seq(Bunch)
      <3>1. b.size \in Nat
        BY <1>3 DEF Bunch
      <3>2. TotalSize(b) \in Nat
        BY <3>1, ConnectionAssumption DEF TotalSize
      <3>3. l.size \in Nat /\ l.bunches \in Seq(Bunch)
        BY <1>4 DEF Packet
      <3> QED BY <3>2, <3>3
    <2>2. Append(l.bunches, b) \in Seq(Bunch) /\ l.size + TotalSize(b) \in Nat
      BY <1>3, <2>1
    <2>3. DOMAIN l = {"id", "size", "bunches"}
      BY <1>4 DEF Packet
    <2> QED BY <1>4, <2>1, <2>2, <2>3 DEF Packet
  <1>7. /\ q \in Seq(Packet) /\ a \in Seq(Packet) /\ last \in Int /\ OutPacketId[e] \in Int
    BY ReadyType
  <1>8. LastId(e)' = PacketId(e, b)
    <2>1. asm'[e] # << >>
      <3> HIDE DEF p, ps
      <3> QED BY <1>4, <1>5, <1>6, AppendType
    <2> QED BY <1>1, <2>1 DEF LastId
  <1>9. Unsent(e)' = q \o Append(FrontOf(ps), p)
    BY <1>1, <1>5 DEF Unsent
  <1>10. Unsent(e)' = Append(q \o FrontOf(ps), p)
    <2> HIDE DEF p, ps, q
    <2> QED BY <1>4, <1>6, <1>7, <1>9, ConcatAppend
  <1>11. CASE a # << >> /\ ps = a /\ PacketId(e, b) = last
    <2>1. u # << >> /\ LastOf(u) = l /\ FrontOf(u) = q \o FrontOf(ps)
      <3> HIDE DEF q, a, ps, p
      <3>1. q \o a # << >> /\ LastOf(q \o a) = LastOf(a) /\ FrontOf(q \o a) = q \o FrontOf(a)
        BY <1>6, <1>7, <1>11, ConcatAppend
      <3> QED BY <1>11, <3>1 DEF Unsent, q, a
    <2> HIDE DEF p, u, last
    <2> QED BY <1>1, <1>2, <1>3, <1>6, <1>8, <1>10, <1>11, <2>1 DEF b, u, last
  <1>12. CASE ps = Append(a, NewPacket(last + 1)) /\ PacketId(e, b) = last + 1
    <2> DEFINE n == NewPacket(last + 1)
    <2>1. n \in Packet /\ n.id = last + 1 /\ n.bunches = << >>
      BY <1>7, NewPacketType DEF NewPacket
    <2> HIDE DEF n
    <2>2. ps # << >> /\ LastOf(ps) = n /\ FrontOf(ps) = a
      <3>1. /\ Len(ps) = Len(a) + 1 /\ Len(a) \in Nat /\ ps[Len(a) + 1] = n
            /\ \A i \in 1 .. Len(a) : ps[i] = a[i]
        BY <1>7, <1>12, <2>1 DEF n
      <3>2. LastOf(ps) = n
        BY <3>1 DEF LastOf
      <3>3. FrontOf(ps) = a
        <4> DEFINE f == FrontOf(ps)
        <4>1. f \in Seq(Packet) /\ Len(f) = Len(ps) - 1 /\ \A i \in 1 .. Len(ps) - 1 : f[i] = ps[i]
          <5> HIDE DEF ps
          <5> QED BY <1>3, Parts
        <4> HIDE DEF f, ps
        <4>2. Len(f) = Len(a) /\ \A i \in 1 .. Len(a) : f[i] = a[i]
          BY <3>1, <4>1
        <4> HIDE DEF a
        <4>3. f = a
          BY <1>7, <4>1, <4>2
        <4> QED BY <4>3 DEF f
      <3> QED BY <1>3, <3>2, <3>3
    <2>3. Append(<< >>, b) = << b >>
      OBVIOUS
    <2>4. Unsent(e)' = Append(u, p)
      BY <1>10, <2>2 DEF Unsent
    <2>5. p.id = last + 1 /\ p.bunches = << b >>
      BY <1>6, <2>1, <2>2, <2>3
    <2> HIDE DEF p, u, last
    <2> QED BY <1>1, <1>2, <1>3, <1>6, <1>8, <1>12, <2>2, <2>4, <2>5 DEF b, u, last, n
  <1> QED BY <1>3, <1>11, <1>12

\* AddUnAckedOutBunch and Append enter the bunch in the same packet.
LEMMA PackBunchPacked ==
  ASSUME UnitsFit, TypeInv, SizesKept, NEW e \in Ep, NEW c \in Channels, [Next]_vars,
         PackBunch(e, c), AlignedOf(e), PackedOf(e), ~ closed[e]
  PROVE  LET b == Head(OutBunchQueue[e][c])
         IN  /\ PackedOf(e)' /\ Sent(e)' = Sent(e)
             /\ LastOf(Packets(e, b)).id = PacketId(e, b)
             /\ \A k \in Channels : OutUnAcked'[e][k] =
                  IF k = c THEN AddUnAcked(OutUnAcked[e][c], PacketId(e, b), b)
                           ELSE OutUnAcked[e][k]
  <1> DEFINE b  == Head(OutBunchQueue[e][c])
             u  == Unsent(e)
             l  == LastOf(Packets(e, b))
             x  == l.id
             first == Sent(e)
             last  == LastId(e)
             old == OutUnAcked[e]
             new == OutUnAcked'[e]
  <1>1. PICK p \in Packet :
          /\ UNCHANGED closed /\ b \in Bunch /\ LastId(e)' = PacketId(e, b)
          /\ \A k \in Channels : new[k] = IF k = c THEN AddUnAcked(old[c], x, b) ELSE old[k]
          /\ \/ /\ u # << >> /\ Unsent(e)' = Append(FrontOf(u), p)
                /\ LastId(e)' = last /\ l = LastOf(u)
                /\ p.id = LastOf(u).id /\ p.bunches = Append(LastOf(u).bunches, b)
             \/ /\ Unsent(e)' = Append(u, p)
                /\ LastId(e)' = last + 1
                /\ l = NewPacket(last + 1)
                /\ p.id = last + 1 /\ p.bunches = << b >>
    BY PackBunchPacks
  <1>2. /\ u \in Seq(Packet) /\ Len(u) \in Nat /\ first \in Int /\ last \in Int
        /\ first + Len(u) = last + 1
    BY UnsentCount
  <1>3. /\ Sent(e)' \in Int /\ Sent(e)' + Len(Unsent(e)') = LastId(e)' + 1
    BY TypeInvStep, UnsentCountNext DEF UnsentCounted
  <1>4. /\ Packed(u, first, old)
        /\ \A k \in Channels : \A y \in DOMAIN old[k] : y <= last /\ y \in Int
        /\ old[c] \in MapTo(Seq(Bunch))
    <2>1. \A k \in Channels : old[k] \in MapTo(Seq(Bunch))
      BY ChannelValue DEF TypeInv, Typed, QueueTyped
    <2>2. \A k \in Channels : DOMAIN old[k] \subseteq Int
      BY <2>1, MapValue
    <2> QED BY <2>1, <2>2 DEF PackedOf
  <1> HIDE DEF b, l, u, first, last, old, new
  <1>5. ASSUME x \in Int
        PROVE  /\ \A k \in Channels : DOMAIN new[k] = DOMAIN old[k] \union (IF k = c THEN {x} ELSE {})
               /\ \A k \in Channels : \A y \in DOMAIN old[k] \ {x} : new[k][y] = old[k][y]
               /\ \A k \in Channels \ {c} : new[k] = old[k]
               /\ Elements(new[c][x]) = {b} \union (IF x \in DOMAIN old[c] THEN Elements(old[c][x])
                                                                          ELSE {})
    <2> DEFINE m == AddUnAcked(old[c], x, b)
    <2>1. /\ DOMAIN m = DOMAIN old[c] \union {x}
          /\ \A y \in DOMAIN old[c] \ {x} : m[y] = old[c][y]
          /\ Elements(m[x]) = {b} \union (IF x \in DOMAIN old[c] THEN Elements(old[c][x]) ELSE {})
      <3>1. old[c] \in MapTo(Seq(Bunch)) /\ b \in Bunch
        BY <1>1, <1>4
      <3> HIDE DEF x
      <3>2. DOMAIN m = DOMAIN old[c] \union {x}
        BY AddUnAckedEntries
      <3>3. \A y \in DOMAIN old[c] \ {x} : m[y] = old[c][y]
        <4>1. ASSUME NEW a, NEW id, NEW bunch
              PROVE  \A y \in DOMAIN a \ {id} : AddUnAcked(a, id, bunch)[y] = a[y]
          BY DEF AddUnAcked
        <4> QED
          BY <4>1
      <3>4. Elements(m[x]) = {b} \union (IF x \in DOMAIN old[c] THEN Elements(old[c][x]) ELSE {})
        BY <3>1, AddUnAckedBunch
      <3> QED BY <3>2, <3>3, <3>4
    <2>2. new[c] = m /\ \A k \in Channels \ {c} : new[k] = old[k]
      BY <1>1
    <2> HIDE DEF m, x
    <2> QED BY <2>1, <2>2
  <1>6. ASSUME x \in Int, p.id = x
        PROVE  \A k \in Channels : Shrinks([y \in DOMAIN new[k] \ {p.id} |-> new[k][y]], old[k])
    BY <1>5, <1>6 DEF Shrinks
  <1>7. ASSUME /\ u # << >> /\ Unsent(e)' = Append(FrontOf(u), p)
               /\ LastId(e)' = last /\ l = LastOf(u)
               /\ p.id = LastOf(u).id /\ p.bunches = Append(LastOf(u).bunches, b)
        PROVE  PackedOf(e)' /\ Sent(e)' = first /\ x = LastId(e)'
    <2>1. /\ LastOf(u) = u[Len(u)] /\ Len(u) \in 1 .. Len(u) /\ DOMAIN u = 1 .. Len(u)
          /\ LastOf(u) \in Packet /\ FrontOf(u) \in Seq(Packet)
          /\ Len(FrontOf(u)) = Len(u) - 1
      BY <1>2, <1>7, Parts
    <2>2. x = last /\ x \in Int /\ p.id = x
      <3>1. u[Len(u)].id = first + (Len(u) - 1)
        BY <1>4, <2>1 DEF Packed
      <3>2. first + (Len(u) - 1) = last
        BY <1>2
      <3> QED BY <1>2, <1>7, <2>1, <3>1, <3>2
    <2>3. Sent(e)' = first
      <3>1. Len(Append(FrontOf(u), p)) = Len(FrontOf(u)) + 1
        <4> DEFINE f == FrontOf(u)
        <4>1. f \in Seq(Packet)
          BY <2>1
        <4> HIDE DEF f
        <4>2. Len(Append(f, p)) = Len(f) + 1
          BY <4>1
        <4> QED BY <4>2 DEF f
      <3> QED BY <1>2, <1>3, <1>7, <2>1, <3>1
    <2>4. Elements(p.bunches) = Elements(LastOf(u).bunches) \union {b}
      <3> DEFINE q == LastOf(u).bunches
      <3>1. q \in Seq(Bunch)
        BY <2>1 DEF Packet
      <3> HIDE DEF q
      <3>2. Elements(Append(q, b)) = Elements(q) \union {b}
        BY <1>1, <3>1, AppendElements
      <3> QED BY <1>7, <3>2 DEF q
    <2>5. \A k \in Channels : p.id \in DOMAIN new[k] =>
            \/ /\ p.id \in DOMAIN old[k]
               /\ Elements(new[k][p.id]) \subseteq Elements(old[k][p.id]) \union {b}
            \/ Elements(new[k][p.id]) \subseteq {b}
      BY <1>5, <2>2
    <2>6. \A k \in Channels : Shrinks([y \in DOMAIN new[k] \ {p.id} |-> new[k][y]], old[k])
      BY <1>6, <2>2
    <2>7. Packed(Append(FrontOf(u), p), first, new)
      BY <1>1, <1>2, <1>4, <1>7, <2>4, <2>5, <2>6, PackedMore
    <2>8. Packed(Unsent(e)', Sent(e)', OutUnAcked'[e])
      BY <1>7, <2>3, <2>7 DEF new
    <2>9. \A k \in Channels : \A y \in DOMAIN OutUnAcked'[e][k] : y <= LastId(e)'
      <3>1. \A k \in Channels : \A y \in DOMAIN new[k] : y <= last
        BY <1>2, <1>4, <1>5, <2>2
      <3> QED BY <1>7, <3>1 DEF new
    <2> QED BY <1>7, <2>2, <2>3, <2>8, <2>9 DEF PackedOf, Packed, first
  <1>8. ASSUME /\ Unsent(e)' = Append(u, p) /\ LastId(e)' = last + 1
               /\ l = NewPacket(last + 1) /\ p.id = last + 1 /\ p.bunches = << b >>
        PROVE  PackedOf(e)' /\ Sent(e)' = first /\ x = LastId(e)'
    <2>1. x = last + 1 /\ x \in Int /\ p.id = x
      BY <1>2, <1>8 DEF NewPacket
    <2>2. Sent(e)' = first
      <3>1. Len(Append(u, p)) = Len(u) + 1
        BY <1>2
      <3> QED BY <1>2, <1>3, <1>8, <3>1
    <2>3. \A k \in Channels : x \notin DOMAIN old[k]
      BY <1>2, <1>4, <2>1
    <2>4. \A k \in Channels : p.id \in DOMAIN new[k] =>
            Elements(new[k][p.id]) \subseteq Elements(p.bunches)
      <3>1. Elements(p.bunches) = {b}
        BY <1>8 DEF Elements
      <3> QED BY <1>5, <2>1, <2>3, <3>1
    <2>5. \A k \in Channels : Shrinks([y \in DOMAIN new[k] \ {p.id} |-> new[k][y]], old[k])
      BY <1>6, <2>1
    <2>6. Packed(Append(u, p), first, new)
      <3>1. p.id = first + Len(u)
        BY <1>2, <1>8
      <3> QED BY <1>1, <1>2, <1>4, <2>4, <2>5, <3>1, PackedNew
    <2>7. Packed(Unsent(e)', Sent(e)', OutUnAcked'[e])
      BY <1>8, <2>2, <2>6 DEF new
    <2>8. \A k \in Channels : \A y \in DOMAIN OutUnAcked'[e][k] : y <= LastId(e)'
      <3>1. \A k \in Channels : \A y \in DOMAIN new[k] : y <= last + 1
        <4>1. \A y \in Int : y <= last => y <= last + 1
          BY <1>2
        <4> QED BY <1>2, <1>4, <1>5, <2>1, <4>1
      <3> QED BY <1>8, <3>1 DEF new
    <2> QED BY <1>8, <2>1, <2>2, <2>7, <2>8 DEF PackedOf, Packed, first
  <1>9. PackedOf(e)' /\ Sent(e)' = first /\ x = LastId(e)'
    BY <1>1, <1>7, <1>8
  <1> QED BY <1>1, <1>9 DEF b, l, first, old, new

\* Every step leaves packed what a side has made.
LEMMA PackedStep ==
  ASSUME UnitsFit, PackedInv, InFlightWindow, [Next]_vars PROVE PackedInv'
  <1> USE DEF PackedInv
  <1>1. AlignInv' /\ TypeInv /\ SizesKept
    BY AlignStep DEF AlignInv
  <1>2. ASSUME NEW e \in Ep, ~ closed[e], ~ closed'[e] PROVE PackedOf(e)'
    <2>1. AlignedOf(e)
      BY DEF AlignInv
    <2>2. CASE \E c \in Channels : PackBunch(e, c)
      BY <1>1, <1>2, <2>1, <2>2, PackBunchPacked
    <2>3. CASE SendKeepAlive(e)
      BY <1>1, <1>2, <2>1, <2>3, KeepAlivePacked
    <2>4. CASE SendPacket(e)
      BY <1>1, <1>2, <2>1, <2>4, SendPacketPacked
    <2>5. CASE ~ SendKeepAlive(e) /\ ~ SendPacket(e) /\ \A c \in Channels : ~ PackBunch(e, c)
      <3>1. Unsent(e)' = Unsent(e) /\ Sent(e)' = Sent(e) /\ LastId(e)' = LastId(e)
        BY <1>1, <1>2, <2>1, <2>5, PacketsQuiet
      <3>2. \A c \in Channels : Shrinks(OutUnAcked'[e][c], OutUnAcked[e][c])
        BY <1>1, <2>5, UnAckedShrinks
      <3>3. closed'[e] = closed[e]
        BY <1>1, <1>2 DEF AlignInv, TypeInv, Typed, CtlTyped
      <3> QED BY <3>1, <3>2, <3>3, PackedQuiet
    <2> QED BY <2>2, <2>3, <2>4, <2>5
  <1>3. ASSUME NEW e \in Ep, closed[e] PROVE closed'[e]
    BY <1>1, <1>3, ClosedStays
  <1>4. ASSUME NEW e \in Ep PROVE PackedOf(e)'
    BY <1>2, <1>3 DEF PackedOf
  <1> QED BY <1>1, <1>4

\* At the start no packet was made.
LEMMA InitPacked == Init => PackedInv
  <1> SUFFICES ASSUME Init PROVE PackedInv
    OBVIOUS
  <1>1. AlignInv
    BY InitAligned
  <1>2. ASSUME NEW e \in Ep PROVE PackedOf(e)
    <2>1. OutPacketQueue[e] = << >> /\ asm[e] = << >>
          /\ \A c \in Channels : DOMAIN OutUnAcked[e][c] = {}
      BY DEF Init, EmptyMap
    <2>2. << >> \o << >> = << >> /\ DOMAIN << >> = {}
      OBVIOUS
    <2> QED BY <2>1, <2>2 DEF PackedOf, Packed, Unsent
  <1> QED BY <1>1, <1>2 DEF PackedInv

\* For all sizes, buffers and traffic that satisfy UnitsFit, as long as fewer packets are
\* in flight than half the sequence space: AssembleOutgoingPackets never charges a packet
\* with a bunch it does not carry, whichever packets it closes and opens on the way, so
\* an ack for the packet never erases a bunch that was not in it.
THEOREM ChargedIsCarried ==
  ASSUME UnitsFit
  PROVE  Spec /\ []InFlightWindow => []AccountedIsPacked
  <1>1. Init => PackedInv
    BY InitPacked
  <1>2. PackedInv /\ InFlightWindow /\ [Next]_vars => PackedInv'
    BY PackedStep
  <1>3. PackedInv => AccountedIsPacked
    <2> SUFFICES ASSUME PackedInv, NEW e \in Ep, ~ closed[e],
                        NEW p \in Elements(OutPacketQueue[e]) \union Elements(asm[e]),
                        NEW c \in Channels, p.id \in DOMAIN OutUnAcked[e][c]
                 PROVE  Elements(OutUnAcked[e][c][p.id]) \subseteq Elements(p.bunches)
      BY DEF AccountedIsPacked
    <2>1. p \in Elements(Unsent(e))
      BY UnsentCount DEF PackedInv, AlignInv
    <2>2. Packed(Unsent(e), Sent(e), OutUnAcked[e])
      BY DEF PackedInv, PackedOf
    <2>3. PICK i \in DOMAIN Unsent(e) : p = Unsent(e)[i]
      BY <2>1 DEF Elements
    <2> QED BY <2>2, <2>3 DEF Packed
  <1> QED BY <1>1, <1>2, <1>3, PTL DEF Spec

-----------------------------------------------------------------------------
(* The channel record names every channel a packet is charged on.          *)

\* In record r, channel c is among those behind the marker of packet x.
Covers(r, x, c) ==
    \E i, j \in DOMAIN r :
        /\ i < j /\ r[i] = Marker(x) /\ r[j] = ChannelOf(c)
        /\ \A k \in i + 1 .. j : ~ r[k].isSequence

\* While side e is open, a packet with an entry was not notified, and the record has
\* the channel of that entry.
CoveredOf(e) ==
    ~ closed[e] =>
        \A c \in Channels : \A x \in DOMAIN OutUnAcked[e][c] :
            LastNotified[e] < x /\ Covers(Record[e], x, c)

\* More entries at the end of the record.
LEMMA CoversAppend ==
  ASSUME NEW r \in Seq(RecordEntry), NEW y \in RecordEntry, NEW x, NEW c, Covers(r, x, c)
  PROVE  Covers(Append(r, y), x, c)
  <1>1. PICK i \in DOMAIN r, j \in DOMAIN r :
          /\ i < j /\ r[i] = Marker(x) /\ r[j] = ChannelOf(c)
          /\ \A k \in i + 1 .. j : ~ r[k].isSequence
    BY DEF Covers
  <1> DEFINE s == Append(r, y)
             m == Len(r)
  <1>2. /\ m \in Nat /\ DOMAIN r = 1 .. m /\ DOMAIN s = 1 .. m + 1
        /\ \A k \in 1 .. m : s[k] = r[k]
    OBVIOUS
  <1> HIDE DEF s, m
  <1>3. i \in 1 .. m /\ j \in 1 .. m /\ i \in 1 .. m + 1 /\ j \in 1 .. m + 1
    BY <1>2
  <1>4. \A k \in i + 1 .. j : k \in 1 .. m
    BY <1>2, <1>3
  <1>5. s[i] = r[i] /\ s[j] = r[j] /\ \A k \in i + 1 .. j : s[k] = r[k]
    BY <1>2, <1>3, <1>4
  <1>6. Covers(s, x, c)
    BY <1>1, <1>2, <1>3, <1>5 DEF Covers
  <1> QED BY <1>6 DEF s

\* PushChannelRecord behind the marker of the newest packet.
LEMMA CoversNew ==
  ASSUME NEW r \in Seq(RecordEntry), NEW lo \in Int, NEW hi \in Int, RecordSpan(r, lo, hi),
         lo < hi, NEW c \in Channels
  PROVE  Covers(Append(r, ChannelOf(c)), hi, c)
  <1> DEFINE s == Append(r, ChannelOf(c))
             m == Len(r)
  <1>1. /\ m \in Nat /\ DOMAIN r = 1 .. m /\ DOMAIN s = 1 .. m + 1
        /\ \A k \in 1 .. m : s[k] = r[k] /\ r[k] \in RecordEntry
        /\ s[m + 1] = ChannelOf(c)
    BY DEF ChannelOf
  <1>2. PICK i \in Marks(r) : r[i].value = hi
    <2>1. hi \in lo + 1 .. hi
      OBVIOUS
    <2> QED BY <2>1, SpanMarks
  <1>3. i \in 1 .. m /\ r[i].isSequence /\ r[i] \in RecordEntry
    BY <1>1, <1>2 DEF Marks
  <1>4. r[i] = Marker(hi)
    BY <1>2, <1>3 DEF Marker, RecordEntry
  <1>5. ASSUME NEW k \in i + 1 .. m PROVE ~ r[k].isSequence
    <2> SUFFICES ASSUME r[k].isSequence PROVE FALSE
      OBVIOUS
    <2>1. k \in 1 .. m /\ i < k
      BY <1>1, <1>3
    <2>2. k \in Marks(r)
      BY <1>1, <2>1 DEF Marks
    <2>3. r[i].value < r[k].value
      BY <1>2, <2>1, <2>2 DEF RecordSpan
    <2>4. r[k].value \in lo + 1 .. hi
      BY <2>2, SpanMarks
    <2> QED BY <1>2, <2>3, <2>4
  <1> HIDE DEF s, m
  <1>6. \A k \in i + 1 .. m + 1 : ~ s[k].isSequence
    <2>1. ~ s[m + 1].isSequence
      BY <1>1 DEF ChannelOf
    <2>2. \A k \in i + 1 .. m + 1 : k # m + 1 => k \in i + 1 .. m /\ k \in 1 .. m
      BY <1>1, <1>3
    <2> QED BY <1>1, <1>5, <2>1, <2>2
  <1>7. i \in 1 .. m + 1 /\ m + 1 \in 1 .. m + 1 /\ i < m + 1 /\ s[i] = Marker(hi)
    BY <1>1, <1>3, <1>4
  <1>8. Covers(s, hi, c)
    BY <1>1, <1>6, <1>7 DEF Covers
  <1> QED BY <1>8 DEF s

\* ConsumeChannelRecordsForPacket for the oldest packet: it is told all channels that
\* have an entry for it, and the other packets keep theirs.
LEMMA CoversDrop ==
  ASSUME NEW r \in Seq(RecordEntry), NEW lo \in Int, NEW hi \in Int, RecordSpan(r, lo, hi),
         lo < hi, NEW n \in 0 .. Len(r) - 1, IsChannelRun(r, n), NEW x, NEW c,
         Covers(r, x, c)
  PROVE  /\ x = lo + 1 => c \in ChannelRun(r, n)
         /\ x # lo + 1 => Covers(DropPacket(r, n), x, c)
  <1> DEFINE m == Len(r)
             d == DropPacket(r, n)
  <1>1. PICK i \in DOMAIN r, j \in DOMAIN r :
          /\ i < j /\ r[i] = Marker(x) /\ r[j] = ChannelOf(c)
          /\ \A k \in i + 1 .. j : ~ r[k].isSequence
    BY DEF Covers
  <1>2. /\ m \in Nat /\ DOMAIN r = 1 .. m /\ n \in Nat /\ n <= m - 1
        /\ DOMAIN d = 1 .. m - (n + 1) /\ \A k \in 1 .. m - (n + 1) : d[k] = r[k + (n + 1)]
    <2>1. m \in Nat /\ n \in Nat /\ n <= m - 1
      OBVIOUS
    <2>2. /\ d \in Seq(RecordEntry) /\ Len(d) = m - (n + 1)
          /\ \A k \in 1 .. m - (n + 1) : d[k] = r[k + (n + 1)]
      BY <2>1 DEF DropPacket
    <2> QED BY <2>1, <2>2
  <1>3. r[1] = Marker(lo + 1)
    <2>1. r # << >> /\ FrontIsPacket(r, lo + 1)
      BY DropSpan
    <2> QED BY <2>1, Parts DEF FrontIsPacket
  <1> HIDE DEF m, d
  <1>4. i \in 1 .. m /\ j \in 1 .. m /\ 1 \in 1 .. m
    BY <1>1, <1>2
  <1>5. i \in Marks(r) /\ 1 \in Marks(r)
    BY <1>1, <1>2, <1>3, <1>4 DEF Marks, Marker
  <1>6. CASE x = lo + 1
    <2>1. i = 1
      <3>1. r[i].value = r[1].value
        BY <1>1, <1>3, <1>6
      <3>2. r[1].value = lo + 1
        BY <1>3 DEF Marker
      <3>3. 1 < i => r[1].value < r[i].value
        BY <1>5 DEF RecordSpan
      <3> QED BY <1>4, <3>1, <3>2, <3>3
    <2>2. j \in 2 .. n + 1
      <3> SUFFICES ASSUME j > n + 1 PROVE FALSE
        BY <1>1, <1>2, <1>4, <2>1
      <3>1. n + 1 < m /\ n + 2 \in i + 1 .. j
        BY <1>2, <1>4, <2>1
      <3>2. r[n + 2].isSequence
        BY <3>1 DEF IsChannelRun, m
      <3> QED BY <1>1, <3>1, <3>2
    <2>3. r[j].value = c
      BY <1>1 DEF ChannelOf
    <2> QED BY <1>6, <2>2, <2>3 DEF ChannelRun
  <1>7. CASE x # lo + 1
    <2>1. i # 1
      <3>1. r[i].value = x /\ r[1].value = lo + 1
        BY <1>1, <1>3 DEF Marker
      <3> QED BY <1>7, <3>1
    <2>2. i \notin 2 .. n + 1
      BY <1>1, <1>5 DEF IsChannelRun, Marks
    <2> DEFINE i2 == i - (n + 1)
               j2 == j - (n + 1)
    <2>3. /\ i2 \in 1 .. m - (n + 1) /\ j2 \in 1 .. m - (n + 1) /\ i2 < j2
          /\ i2 + (n + 1) = i /\ j2 + (n + 1) = j
      BY <1>1, <1>2, <1>4, <2>1, <2>2
    <2>4. d[i2] = Marker(x) /\ d[j2] = ChannelOf(c)
      BY <1>1, <1>2, <2>3
    <2>5. \A k \in i2 + 1 .. j2 : ~ d[k].isSequence
      <3> TAKE k \in i2 + 1 .. j2
      <3>1. k \in 1 .. m - (n + 1) /\ k + (n + 1) \in i + 1 .. j
        BY <1>2, <1>4, <2>3
      <3> QED BY <1>1, <1>2, <3>1
    <2> HIDE DEF i2, j2
    <2>6. Covers(d, x, c)
      BY <1>2, <2>3, <2>4, <2>5 DEF Covers
    <2> QED BY <1>7, <2>6 DEF d
  <1> QED BY <1>6, <1>7

\* A step that keeps the record of a side, and charges packets with no more.
LEMMA CoveredQuiet ==
  ASSUME NEW e \in Ep, CoveredOf(e), closed'[e] = closed[e],
         Record'[e] = Record[e], LastNotified'[e] = LastNotified[e],
         \A c \in Channels : Shrinks(OutUnAcked'[e][c], OutUnAcked[e][c])
  PROVE  CoveredOf(e)'
  BY DEF CoveredOf, Shrinks

\* HandlePacketNotification erases the entries of the packet on every channel that has one.
LEMMA NotificationCovered ==
  ASSUME TypeInv, NEW e \in Ep, HandlePacketNotification(e), AlignedOf(e), CoveredOf(e),
         ~ closed[e]
  PROVE  CoveredOf(e)'
  <1> DEFINE lo  == LastNotified[e]
             rec == Record[e]
             hi  == LastId(e)
             old == OutUnAcked[e]
             new == OutUnAcked'[e]
  <1>1. /\ UNCHANGED closed /\ LastNotified'[e] = lo + 1 /\ lo < hi
        /\ \E n \in 0 .. Len(rec) - 1 :
             /\ IsChannelRun(rec, n) /\ Record'[e] = DropPacket(rec, n)
             /\ NotifyChannels(e, lo + 1, ChannelRun(rec, n), Head(notes[e]))
    BY NotificationFinds
  <1>2. PICK n \in 0 .. Len(rec) - 1 :
          /\ IsChannelRun(rec, n) /\ Record'[e] = DropPacket(rec, n)
          /\ NotifyChannels(e, lo + 1, ChannelRun(rec, n), Head(notes[e]))
    BY <1>1
  <1>3. \A c \in Channels :
          new[c] = IF c \in ChannelRun(rec, n) THEN Erase(old[c], lo + 1) ELSE old[c]
    BY <1>2 DEF NotifyChannels, TypeInv, Typed, QueueTyped, PerChannel
  <1>4. /\ rec \in Seq(RecordEntry) /\ lo \in Int /\ hi \in Int
        /\ RecordSpan(rec, lo, hi)
    BY ReadyType DEF AlignedOf
  <1>5. \A c \in Channels : \A x \in DOMAIN old[c] : lo < x /\ x \in Int /\ Covers(rec, x, c)
    <2>1. \A c \in Channels : DOMAIN old[c] \subseteq Int
      BY MapValue, ChannelValue DEF TypeInv, Typed, QueueTyped
    <2> QED BY <2>1 DEF CoveredOf
  <1> HIDE DEF lo, rec, hi, old, new
  <1>6. ASSUME NEW c \in Channels, NEW x \in DOMAIN new[c]
        PROVE  lo + 1 < x /\ Covers(DropPacket(rec, n), x, c)
    <2>1. x \in DOMAIN old[c]
      BY <1>3 DEF Erase
    <2>2. x # lo + 1
      <3> SUFFICES ASSUME x = lo + 1 PROVE FALSE
        OBVIOUS
      <3>1. c \in ChannelRun(rec, n)
        BY <1>1, <1>2, <1>4, <1>5, <2>1, CoversDrop
      <3> QED BY <1>3, <3>1 DEF Erase
    <2>3. Covers(DropPacket(rec, n), x, c)
      BY <1>1, <1>2, <1>4, <1>5, <2>1, <2>2, CoversDrop
    <2>4. lo < x /\ x \in Int
      BY <1>5, <2>1
    <2> QED BY <1>4, <2>2, <2>3, <2>4
  <1> QED BY <1>1, <1>2, <1>6 DEF CoveredOf, new, lo, rec

\* PackBunch: the channel is pushed behind the marker of the packet it is charged to.
LEMMA PackBunchCovered ==
  ASSUME UnitsFit, TypeInv, SizesKept, NEW e \in Ep, NEW c \in Channels, [Next]_vars,
         PackBunch(e, c), AlignedOf(e), PackedOf(e), CoveredOf(e), ~ closed[e]
  PROVE  CoveredOf(e)'
  <1> DEFINE b   == Head(OutBunchQueue[e][c])
             x   == PacketId(e, b)
             rec == Record[e]
             lo  == LastNotified[e]
             last == LastId(e)
             old == OutUnAcked[e]
             new == OutUnAcked'[e]
  <1>1. /\ lo < x
        /\ \/ x = last /\ Record'[e] = Append(rec, ChannelOf(c))
           \/ x = last + 1 /\ Record'[e] = Append(Append(rec, Marker(last + 1)), ChannelOf(c))
    BY PackBunchOpens
  <1>2. /\ rec \in Seq(RecordEntry) /\ lo \in Int /\ last \in Int /\ RecordSpan(rec, lo, last)
    BY ReadyType DEF AlignedOf
  <1>3. \A k \in Channels : new[k] = IF k = c THEN AddUnAcked(old[c], x, b) ELSE old[k]
    BY PackBunchPacked
  <1>4. \A k \in Channels : \A y \in DOMAIN old[k] : lo < y /\ Covers(rec, y, k)
    BY DEF CoveredOf
  <1>5. UNCHANGED closed /\ LastNotified'[e] = lo
    BY DEF PackBunch, ctlVars, recvVars
  <1>6. x \in Int
    BY PacketIdType DEF TypeInv
  <1>7. Marker(last + 1) \in RecordEntry /\ \A k \in Channels : ChannelOf(k) \in RecordEntry
    BY <1>2, ConnectionAssumption DEF Marker, ChannelOf, RecordEntry
  <1> HIDE DEF b, x, rec, lo, last, old, new
  <1>8. PICK r \in Seq(RecordEntry) :
          /\ Record'[e] = Append(r, ChannelOf(c)) /\ RecordSpan(r, lo, x)
          /\ \A k \in Channels : \A y : Covers(rec, y, k) => Covers(r, y, k)
    <2>1. CASE x = last /\ Record'[e] = Append(rec, ChannelOf(c))
      BY <1>2, <2>1
    <2>2. CASE x = last + 1 /\ Record'[e] = Append(Append(rec, Marker(last + 1)), ChannelOf(c))
      <3> DEFINE r == Append(rec, Marker(last + 1))
      <3>1. r \in Seq(RecordEntry)
        BY <1>2, <1>7
      <3>2. RecordSpan(r, lo, x)
        BY <1>2, <2>2, MarkerSpan
      <3>3. \A k \in Channels : \A y : Covers(rec, y, k) => Covers(r, y, k)
        BY <1>2, <1>7, CoversAppend
      <3> HIDE DEF r
      <3> QED BY <2>2, <3>1, <3>2, <3>3 DEF r
    <2> QED BY <1>1, <2>1, <2>2
  <1>9. Covers(Append(r, ChannelOf(c)), x, c)
    BY <1>1, <1>2, <1>6, <1>8, CoversNew
  <1>10. \A k \in Channels : \A y : Covers(rec, y, k) => Covers(Append(r, ChannelOf(c)), y, k)
    BY <1>7, <1>8, CoversAppend
  <1>11. ASSUME NEW k \in Channels, NEW y \in DOMAIN new[k]
         PROVE  lo < y /\ Covers(Record'[e], y, k)
    <2>1. DOMAIN AddUnAcked(old[c], x, b) = DOMAIN old[c] \union {x}
      BY AddUnAckedEntries
    <2>2. CASE y \in DOMAIN old[k]
      BY <1>4, <1>8, <1>10, <2>2
    <2>3. CASE k = c /\ y = x
      BY <1>1, <1>8, <1>9, <2>3
    <2> QED BY <1>3, <2>1, <2>2, <2>3
  <1> QED BY <1>5, <1>11 DEF CoveredOf, new, lo

\* SendKeepAlive pushes a marker.
LEMMA KeepAliveCovered ==
  ASSUME TypeInv, NEW e \in Ep, SendKeepAlive(e), CoveredOf(e)
  PROVE  CoveredOf(e)'
  <1>1. /\ UNCHANGED << closed, LastNotified, OutUnAcked >>
        /\ Record'[e] = PushPacketId(Record[e], LastRecordId[e], OutPacketId[e])
    BY DEF SendKeepAlive, recvVars, outVars, TypeInv, Typed, RecordTyped
  <1>2. Record[e] \in Seq(RecordEntry) /\ Marker(OutPacketId[e]) \in RecordEntry
    BY ReadyType DEF Marker, RecordEntry
  <1>3. \A c \in Channels : \A x : Covers(Record[e], x, c) => Covers(Record'[e], x, c)
    BY <1>1, <1>2, CoversAppend DEF PushPacketId
  <1> QED BY <1>1, <1>3 DEF CoveredOf

\* The record keeps naming the channels of the packets that are not notified.
LEMMA CoveredStep ==
  ASSUME UnitsFit, PackedInv, NEW e \in Ep, CoveredOf(e), [Next]_vars PROVE CoveredOf(e)'
  <1> SUFFICES ASSUME ~ closed'[e] PROVE CoveredOf(e)'
    BY DEF CoveredOf
  <1>1. TypeInv /\ SizesKept /\ AlignedOf(e) /\ PackedOf(e)
    BY DEF PackedInv, AlignInv
  <1>2. ~ closed[e] /\ closed'[e] = closed[e]
    <2>1. ~ closed[e]
      BY <1>1, ClosedStays
    <2>2. TypeInv'
      BY <1>1, TypeInvStep
    <2>3. closed[e] \in BOOLEAN
      BY <1>1 DEF TypeInv, Typed, CtlTyped
    <2>4. closed'[e] \in BOOLEAN
      BY <2>2 DEF TypeInv, Typed, CtlTyped
    <2> QED BY <2>1, <2>3, <2>4
  <1>3. CASE \E c \in Channels : PackBunch(e, c)
    BY <1>1, <1>2, <1>3, PackBunchCovered
  <1>4. CASE HandlePacketNotification(e)
    BY <1>1, <1>2, <1>4, NotificationCovered
  <1>5. CASE SendKeepAlive(e)
    BY <1>1, <1>5, KeepAliveCovered
  <1>6. ASSUME \A c \in Channels : ~ PackBunch(e, c),
               Record'[e] = Record[e], LastNotified'[e] = LastNotified[e]
        PROVE  CoveredOf(e)'
    BY <1>1, <1>2, <1>6, UnAckedShrinks, CoveredQuiet
  <1>7. CASE \E p \in net[e] : ReceiveNew(e, p)
    <2>1. Record'[e] = Record[e] /\ LastNotified'[e] = LastNotified[e]
      BY <1>7 DEF ReceiveNew, recVars
    <2> QED BY <1>3, <1>6, <2>1
  <1>8. CASE FinishAssembly(e) \/ SendPacket(e)
    <2>1. Record'[e] = Record[e] /\ LastNotified'[e] = LastNotified[e]
      BY <1>8 DEF FinishAssembly, SendPacket, recvVars, recVars
    <2> QED BY <1>3, <1>6, <2>1
  <1>9. CASE AlignQuiet(e)
    <2>1. Record'[e] = Record[e] /\ LastNotified'[e] = LastNotified[e]
      BY <1>9 DEF AlignQuiet
    <2> QED BY <1>3, <1>6, <2>1
  <1> QED BY <1>1, <1>3, <1>4, <1>5, <1>7, <1>8, <1>9, OthersAlignQuiet

-----------------------------------------------------------------------------
(* What a side has read has arrived.                                       *)

\* The elements of two sequences put together.
LEMMA ConcatUnion ==
  ASSUME NEW S, NEW p \in Seq(S), NEW q \in Seq(S)
  PROVE  Elements(p \o q) = Elements(p) \union Elements(q)
  <1> DEFINE r == p \o q
             m == Len(p)
             n == Len(q)
  <1>1. /\ m \in Nat /\ n \in Nat /\ Len(r) = m + n /\ r \in Seq(S)
        /\ \A k \in 1 .. m : r[k] = p[k]
        /\ \A k \in 1 .. n : r[m + k] = q[k]
    BY ConcatElements, ConcatType
  <1>2. DOMAIN p = 1 .. m /\ DOMAIN q = 1 .. n /\ DOMAIN r = 1 .. m + n
    BY <1>1
  <1> HIDE DEF r, m, n
  <1>3. ASSUME NEW k \in 1 .. m + n
        PROVE  r[k] \in Elements(p) \union Elements(q)
    <2>1. CASE k \in 1 .. m
      BY <1>1, <1>2, <2>1 DEF Elements
    <2>2. CASE k \notin 1 .. m
      <3>1. k - m \in 1 .. n /\ m + (k - m) = k
        BY <1>1, <2>2
      <3> QED BY <1>1, <1>2, <3>1 DEF Elements
    <2> QED BY <2>1, <2>2
  <1>4. \A k \in 1 .. m : k \in 1 .. m + n
    BY <1>1
  <1>5. \A k \in 1 .. n : m + k \in 1 .. m + n
    BY <1>1
  <1>6. Elements(p) \subseteq Elements(r)
    BY <1>1, <1>2, <1>4 DEF Elements
  <1>7. Elements(q) \subseteq Elements(r)
    BY <1>1, <1>2, <1>5 DEF Elements
  <1>8. Elements(r) \subseteq Elements(p) \union Elements(q)
    BY <1>2, <1>3 DEF Elements
  <1> QED BY <1>6, <1>7, <1>8 DEF r

\* SendPacket alone adds a datagram, and no step takes one away.
LEMMA NetGrows ==
  ASSUME TypeInv, [Next]_vars, NEW e \in Ep
  PROVE  /\ net'[Peer(e)] = IF SendPacket(e)
              THEN net[Peer(e)] \union {[header  |-> WriteHeader(notify[e]),
                                         bunches |-> Head(OutPacketQueue[e]).bunches]}
              ELSE net[Peer(e)]
         /\ net[Peer(e)] \subseteq net'[Peer(e)] /\ net[e] \subseteq Datagram
  <1>1. \/ UNCHANGED net
        \/ \E s \in Ep : SendPacket(s)
    <2>1. CASE UNCHANGED vars
      BY <2>1 DEF vars
    <2>2. ASSUME NEW s \in Ep, \/ Submit(s) \/ ReceivedPacket(s)
                              \/ HandlePacketNotification(s) \/ ForceRetransmitAllUnAcked(s)
                              \/ TickDispatch(s) \/ DispatchPendingPacket(s)
          PROVE  UNCHANGED net
      BY <2>2 DEF Submit, SendNetMessage, ReceivedPacket, ReceiveOld, ReceiveNew,
         HandlePacketNotification, ForceRetransmitAllUnAcked, ForceRetransmit,
         RetransmitDone, TickDispatch, DispatchPendingPacket, BufferBunch, DispatchBunch,
         AckPacket
    <2>3. ASSUME NEW s \in Ep, TickChannels(s) \/ AssembleOutgoingPackets(s) \/ TickFlush(s)
          PROVE  UNCHANGED net
      BY <2>3 DEF TickChannels, AssembleOutgoingPackets, DiscardBunch, PackBunch,
         OverflowReliableBuffer, FinishAssembly, SendKeepAlive, NothingToSend, TickFlush
    <2> QED BY <2>1, <2>2, <2>3 DEF Next
  <1>2. net \in [Ep -> SUBSET Datagram]
    BY DEF TypeInv, Typed, DatagramTyped
  <1>3. CASE SendPacket(e)
    BY <1>2, <1>3, PeerType DEF SendPacket
  <1>4. CASE ~ SendPacket(e) /\ \E s \in Ep : SendPacket(s)
    <2>1. PICK s \in Ep : SendPacket(s)
      BY <1>4
    <2>2. s # e /\ Peer(s) # Peer(e)
      BY <1>4, <2>1 DEF Ep, Peer
    <2> QED BY <1>2, <1>4, <2>1, <2>2, PeerType DEF SendPacket
  <1>5. CASE ~ SendPacket(e) /\ UNCHANGED net
    BY <1>2, <1>5
  <1>6. net[e] \subseteq Datagram
    BY <1>2
  <1> QED BY <1>1, <1>3, <1>4, <1>5, <1>6

\* Where the bunches DispatchBunch takes out of InUnreadBunchMap go.
LEMMA DispatchMoves ==
  ASSUME TypeInv, NEW r \in Ep, DispatchBunch(r), NextBunch(r) \in Bunch
  PROVE  LET b == NextBunch(r)
             c == b.ch
             u == InUnread[r][c]
         IN  /\ Elements(delivered[r][c]) \union {b} \subseteq Elements(delivered'[r][c])
             /\ \A x \in DOMAIN u :
                  \/ x \in DOMAIN InUnread'[r][c] /\ InUnread'[r][c][x] = u[x]
                  \/ u[x] \in Elements(delivered'[r][c])
             /\ \A e \in Ep, k \in Channels : ~ (e = r /\ k = c) =>
                  /\ delivered'[e][k] = delivered[e][k] /\ InUnread'[e][k] = InUnread[e][k]
  <1> DEFINE b    == NextBunch(r)
             c    == b.ch
             d    == delivered[r][c]
             u    == InUnread[r][c]
             last == InReliable[r][c] + 1
  <1>1. PICK n \in Nat :
          /\ IsDrainLength(u, last, n)
          /\ delivered' = [delivered EXCEPT ![r][c] = Append(d, b) \o DrainedBunches(u, last, n)]
          /\ InUnread' = [InUnread EXCEPT ![r][c] = Drained(u, last, n)]
    <2>1. PICK n \in 0 .. Cardinality(DOMAIN u) :
            /\ IsDrainLength(u, last, n)
            /\ delivered' = [delivered EXCEPT ![r][c] =
                               Append(@, b) \o DrainedBunches(u, last, n)]
            /\ InUnread' = [InUnread EXCEPT ![r][c] = Drained(@, last, n)]
      BY DEF DispatchBunch
    <2>2. n \in Nat /\ r \in DOMAIN delivered /\ r \in DOMAIN InUnread
      BY <2>1 DEF TypeInv, Typed, InTyped, PerChannel
    <2> QED BY <2>1, <2>2
  <1>2. /\ d \in Seq(Bunch) /\ u \in MapTo(Bunch) /\ last \in Int /\ c \in Channels
        /\ b \in Bunch
    BY SealedTypes, BunchFields
  <1>3. DrainedBunches(u, last, n) \in Seq(Bunch)
    BY <1>1, <1>2, DrainedType
  <1> DEFINE drained == DrainedBunches(u, last, n)
             d2      == Append(d, b) \o drained
  <1>4. delivered'[r][c] = d2 /\ InUnread'[r][c] = Drained(u, last, n)
    BY <1>1, <1>2 DEF TypeInv, Typed, InTyped, PerChannel
  <1>5. \A e \in Ep, k \in Channels : ~ (e = r /\ k = c) =>
           delivered'[e][k] = delivered[e][k] /\ InUnread'[e][k] = InUnread[e][k]
    BY <1>1, <1>2 DEF TypeInv, Typed, InTyped, PerChannel
  <1>6. DOMAIN u \subseteq Int
    BY <1>2, MapValue
  <1> HIDE DEF b, c, d, u, last
  <1>7. Elements(d2) = (Elements(d) \union {b}) \union Elements(drained)
    <2>1. Append(d, b) \in Seq(Bunch)
      BY <1>2
    <2>2. Elements(Append(d, b)) = Elements(d) \union {b}
      BY <1>2, AppendElements
    <2> HIDE DEF drained
    <2>3. Elements(d2) = Elements(Append(d, b)) \union Elements(drained)
      BY <1>3, <2>1, ConcatUnion DEF drained
    <2> QED BY <2>2, <2>3
  <1>8. ASSUME NEW x \in DOMAIN u
        PROVE  \/ x \in DOMAIN Drained(u, last, n) /\ Drained(u, last, n)[x] = u[x]
               \/ u[x] \in Elements(drained)
    <2>1. CASE x \notin last + 1 .. last + n
      BY <2>1 DEF Drained
    <2>2. CASE x \in last + 1 .. last + n
      <3>1. x - last \in 1 .. n /\ last + (x - last) = x
        BY <1>2, <1>6, <2>2
      <3>2. DOMAIN drained = 1 .. n /\ drained[x - last] = u[last + (x - last)]
        BY <3>1 DEF DrainedBunches
      <3> QED BY <3>1, <3>2 DEF Elements
    <2> QED BY <2>1, <2>2
  <1> HIDE DEF d2, drained
  <1> QED BY <1>4, <1>5, <1>7, <1>8 DEF b, c, d, u

\* What has arrived stays: it waits among the unread bunches until it is delivered.
LEMMA ArrivedStays ==
  ASSUME TypeInv, [Next]_vars, NEW e \in Ep, NEW b, b.ch \in Channels, HasArrived(e, b)
  PROVE  HasArrived(e, b)'
  <1>1. CASE UNCHANGED << InReliable, InUnread, delivered >>
    BY <1>1 DEF HasArrived
  <1>2. ASSUME NEW r \in Ep, BufferBunch(r) PROVE HasArrived(e, b)'
    <2> DEFINE n == NextBunch(r)
               u == InUnread[e][b.ch]
    <2>1. n \in Bunch
      BY <1>2, DropBunchType DEF BufferBunch, HasBunch, NextBunch, TypeInv, Typed, DatagramTyped
    <2>2. n.ch \in Channels
      BY <2>1, BunchFields
    <2>3. /\ delivered'[e][b.ch] = delivered[e][b.ch]
          /\ InUnread'[e][b.ch] = IF e = r /\ b.ch = n.ch
                                  THEN AddUnread(u, Relative(r, n), n) ELSE u
      BY <1>2, <2>2 DEF BufferBunch, TypeInv, Typed, InTyped, PerChannel
    <2> HIDE DEF n, u
    <2>4. \A x \in DOMAIN u : /\ x \in DOMAIN AddUnread(u, Relative(r, n), n)
                              /\ AddUnread(u, Relative(r, n), n)[x] = u[x]
      BY DEF AddUnread
    <2>5. Elements(u) \subseteq Elements(InUnread'[e][b.ch])
      BY <2>3, <2>4 DEF Elements
    <2> QED BY <2>3, <2>5 DEF HasArrived, u
  <1>3. ASSUME NEW r \in Ep, DispatchBunch(r) PROVE HasArrived(e, b)'
    <2> DEFINE n == NextBunch(r)
               u == InUnread[r][n.ch]
    <2>1. n \in Bunch
      BY <1>3, DropBunchType DEF DispatchBunch, HasBunch, NextBunch, TypeInv, Typed,
         DatagramTyped
    <2>2. /\ Elements(delivered[r][n.ch]) \subseteq Elements(delivered'[r][n.ch])
          /\ \A x \in DOMAIN u :
               \/ x \in DOMAIN InUnread'[r][n.ch] /\ InUnread'[r][n.ch][x] = u[x]
               \/ u[x] \in Elements(delivered'[r][n.ch])
          /\ ~ (e = r /\ b.ch = n.ch) =>
               /\ delivered'[e][b.ch] = delivered[e][b.ch]
               /\ InUnread'[e][b.ch] = InUnread[e][b.ch]
      BY <1>3, <2>1, DispatchMoves
    <2> HIDE DEF n
    <2>3. CASE e = r /\ b.ch = n.ch
      BY <2>2, <2>3 DEF HasArrived, Elements
    <2>4. CASE ~ (e = r /\ b.ch = n.ch)
      BY <2>2, <2>4 DEF HasArrived
    <2> QED BY <2>3, <2>4
  <1> QED BY <1>1, <1>2, <1>3, ReceivedGrows

\* One iteration of the loop of DispatchPacket: the bunch it reads arrives, as new data
\* or as what arrived under that number before.
LEMMA NextBunchArrives ==
  ASSUME OrderInv, InWindow, NEW r \in Ep, BufferBunch(r) \/ DispatchBunch(r)
  PROVE  NextBunch(r) \in Bunch /\ \A b : b = NextBunch(r) => HasArrived(r, b)'
  <1> SUFFICES ASSUME NEW b, b = NextBunch(r) PROVE b \in Bunch /\ HasArrived(r, b)'
    OBVIOUS
  <1> DEFINE e == Peer(r)
             u == InUnread[r][b.ch]
  <1>1. TypeInv /\ HasBunch(r) /\ pc[r] = "dispatch" /\ e \in Ep /\ Peer(e) = r
    BY PeerType DEF OrderInv, BufferBunch, DispatchBunch
  <1>2. /\ b \in Bunch /\ b.ch \in Channels /\ b.seq \in Int
        /\ sealed[e][b.ch][b.seq - InitReliable(e)] = b /\ Relative(r, b) = b.seq
    BY <1>1, NextBunchIsSealed
  <1>3. CASE BufferBunch(r)
    <2>1. InUnread'[r][b.ch] = AddUnread(u, b.seq, b)
      BY <1>1, <1>2, <1>3 DEF BufferBunch, TypeInv, Typed, InTyped, PerChannel
    <2>2. b.seq \in DOMAIN u => u[b.seq] = b
      BY <1>1, <1>2 DEF OrderInv, Received, ReceivedOf
    <2> HIDE DEF u
    <2>3. /\ b.seq \in DOMAIN AddUnread(u, b.seq, b)
          /\ AddUnread(u, b.seq, b)[b.seq] = b
      BY <2>2 DEF AddUnread
    <2> QED BY <1>2, <2>1, <2>3 DEF HasArrived, Elements
  <1>4. CASE DispatchBunch(r)
    <2>1. b \in Elements(delivered'[r][b.ch])
      BY <1>1, <1>2, <1>4, DispatchMoves
    <2> QED BY <1>2, <2>1 DEF HasArrived
  <1> QED BY <1>2, <1>3, <1>4

\* Every bunch of datagram d that is not in rest has arrived at side e.
Read(e, d, rest) == \A b \in Elements(d.bunches) \ Elements(rest) : HasArrived(e, b)

\* At an open side, a packet that waits is what is left of a datagram, the rest of which
\* has arrived; of a dispatched packet everything has.
ReadOf(e) ==
    ~ closed[e] =>
        /\ \A i \in DOMAIN Pending[e] : \E d \in net[e] :
             /\ d.header = Pending[e][i].header
             /\ Read(e, d, Pending[e][i].bunches)
        /\ \A s \in dispatched[e] : \E d \in net[e] :
             d.header.seq = s /\ Read(e, d, << >>)

\* The datagrams stay, and so does what has arrived.
LEMMA ReadStays ==
  ASSUME TypeInv, [Next]_vars, NEW e \in Ep, NEW d \in net[e], NEW rest, Read(e, d, rest)
  PROVE  d \in net'[e] /\ Read(e, d, rest)'
  <1>1. d \in Datagram /\ d \in net'[e]
    BY NetGrows, PeerType
  <1>2. ASSUME NEW b \in Elements(d.bunches) PROVE b.ch \in Channels
    BY <1>1, DatagramFields, BunchFields DEF Elements
  <1>3. ASSUME NEW b \in Elements(d.bunches) \ Elements(rest) PROVE HasArrived(e, b)'
    BY <1>2, ArrivedStays DEF Read
  <1> QED BY <1>1, <1>3 DEF Read

\* A packet that waits as it came.
LEMMA ReadFresh ==
  ASSUME NEW e, NEW d PROVE Read(e, d, d.bunches) /\ Read(e, d, d.bunches)'
  BY DEF Read

\* Who changes the packets that wait at a side, or those it has dispatched.
LEMMA PendingQuiet ==
  ASSUME TypeInv, [Next]_vars, NEW e \in Ep,
         \A p \in net[e] : ~ ReceiveOld(e, p) /\ ~ ReceiveNew(e, p),
         ~ BufferBunch(e), ~ DispatchBunch(e), ~ AckPacket(e)
  PROVE  Pending'[e] = Pending[e] /\ dispatched'[e] = dispatched[e]
  BY OthersAckQuiet DEF AckQuiet

\* ReceivedPacket queues the datagram, or drops it during a flush.
LEMMA ReceiveRead ==
  ASSUME TypeInv, [Next]_vars, NEW e \in Ep, ReadOf(e), ~ closed[e],
         NEW p \in net[e], ReceiveOld(e, p) \/ ReceiveNew(e, p)
  PROVE  ReadOf(e)'
  <1>1. /\ dispatched'[e] = dispatched[e]
        /\ Pending'[e] \in {Pending[e], Append(Pending[e], p)}
    BY DEF ReceiveOld, ReceiveNew, inVars, TypeInv, Typed, DatagramTyped
  <1>2. ASSUME NEW s \in dispatched'[e]
        PROVE  \E d \in net'[e] : d.header.seq = s /\ Read(e, d, << >>)'
    <2>1. PICK d \in net[e] : d.header.seq = s /\ Read(e, d, << >>)
      BY <1>1 DEF ReadOf
    <2> QED BY <2>1, ReadStays
  <1>3. ASSUME NEW i \in DOMAIN Pending[e], NEW q, q = Pending[e][i]
        PROVE  \E d \in net'[e] : d.header = q.header /\ Read(e, d, q.bunches)'
    <2>1. PICK d \in net[e] : d.header = q.header /\ Read(e, d, q.bunches)
      BY <1>3 DEF ReadOf
    <2> QED BY <2>1, ReadStays
  <1>4. p \in net'[e] /\ Read(e, p, p.bunches)'
    BY ReadFresh, ReadStays
  <1>5. ASSUME NEW i \in DOMAIN Pending'[e], NEW q, q = Pending'[e][i]
        PROVE  \E d \in net'[e] : d.header = q.header /\ Read(e, d, q.bunches)'
    <2> DEFINE w == Pending[e]
    <2>1. w \in Seq(Datagram)
      BY DEF TypeInv, Typed, DatagramTyped
    <2> HIDE DEF w
    <2>2. /\ DOMAIN Append(w, p) = DOMAIN w \union {Len(w) + 1}
          /\ Append(w, p)[Len(w) + 1] = p /\ \A k \in DOMAIN w : Append(w, p)[k] = w[k]
      BY <2>1
    <2>3. \/ i \in DOMAIN w /\ q = w[i]
          \/ q = p
      BY <1>1, <1>5, <2>2 DEF w
    <2> QED BY <1>3, <1>4, <2>3 DEF w
  <1>6. \A s \in dispatched'[e] : \E d \in net'[e] :
           d.header.seq = s /\ Read(e, d, << >>)'
    BY <1>2
  <1>7. \A i \in DOMAIN Pending'[e] : \A q : q = Pending'[e][i] =>
           \E d \in net'[e] : d.header = q.header /\ Read(e, d, q.bunches)'
    BY <1>5
  <1> QED BY <1>6, <1>7 DEF ReadOf, Read

\* DispatchPacket goes on to the next bunch: the one it has read has arrived.
LEMMA ReadBunchRead ==
  ASSUME OrderInv, InWindow, [Next]_vars, NEW e \in Ep, ReadOf(e), ~ closed[e],
         BufferBunch(e) \/ DispatchBunch(e)
  PROVE  ReadOf(e)'
  <1> DEFINE w == Pending[e]
             h == Head(w)
             b == NextBunch(e)
             g == [h EXCEPT !.bunches = Tail(h.bunches)]
  <1>1. TypeInv /\ HasBunch(e)
    BY DEF OrderInv, BufferBunch, DispatchBunch
  <1>2. w \in Seq(Datagram) /\ w # << >> /\ h.bunches # << >> /\ b = Head(h.bunches)
    BY <1>1 DEF TypeInv, Typed, DatagramTyped, HasBunch, NextBunch
  <1>3. dispatched'[e] = dispatched[e] /\ Pending'[e] = << g >> \o Tail(w)
    BY <1>1 DEF BufferBunch, DispatchBunch, DropBunch, TypeInv, Typed, DatagramTyped
  <1>4. /\ h \in Datagram /\ h = w[1] /\ 1 \in DOMAIN w /\ h.bunches \in Seq(Bunch)
        /\ g \in Datagram /\ g.header = h.header /\ g.bunches = Tail(h.bunches)
    <2>1. h \in Datagram /\ h = w[1] /\ 1 \in DOMAIN w
      BY <1>2, Parts
    <2>2. h.bunches \in Seq(Bunch)
      BY <2>1, DatagramFields
    <2>3. Tail(h.bunches) \in Seq(Bunch)
      BY <1>2, <2>2, HeadTail
    <2> QED BY <2>1, <2>2, <2>3 DEF Datagram
  <1>5. \A x : x = b => HasArrived(e, x)'
    BY NextBunchArrives
  <1>6. Elements(h.bunches) = {b} \union Elements(g.bunches)
    <2> DEFINE t == h.bunches
    <2>1. t \in Seq(Bunch) /\ t # << >> /\ b = Head(t) /\ g.bunches = Tail(t)
      BY <1>2, <1>4
    <2> HIDE DEF t, b, g
    <2>2. << Head(t) >> \in Seq(Bunch) /\ Tail(t) \in Seq(Bunch) /\ t = << Head(t) >> \o Tail(t)
      BY <2>1
    <2>3. Elements(t) = Elements(<< Head(t) >>) \union Elements(Tail(t))
      BY <2>2, ConcatUnion
    <2>4. Elements(<< b >>) = {b}
      BY DEF Elements
    <2> QED BY <2>1, <2>3, <2>4 DEF t
  <1>7. ASSUME NEW s \in dispatched'[e]
        PROVE  \E d \in net'[e] : d.header.seq = s /\ Read(e, d, << >>)'
    <2>1. PICK d \in net[e] : d.header.seq = s /\ Read(e, d, << >>)
      BY <1>3 DEF ReadOf
    <2> QED BY <1>1, <2>1, ReadStays
  <1>8. ASSUME NEW i \in DOMAIN w, NEW q, q = w[i]
        PROVE  \E d \in net'[e] : d.header = q.header /\ Read(e, d, q.bunches)'
    <2>1. PICK d \in net[e] : d.header = q.header /\ Read(e, d, q.bunches)
      BY <1>8 DEF ReadOf
    <2> QED BY <1>1, <2>1, ReadStays
  <1>9. ASSUME NEW q, q = g
        PROVE  \E d \in net'[e] : d.header = q.header /\ Read(e, d, q.bunches)'
    <2>1. PICK d \in net'[e] : d.header = h.header /\ \A r : r = h => Read(e, d, r.bunches)'
      <3>1. ASSUME NEW r, r = h
            PROVE  \E d \in net'[e] : d.header = r.header /\ Read(e, d, r.bunches)'
        BY <1>4, <1>8, <3>1
      <3> QED BY <3>1 DEF Read
    <2>2. Read(e, d, q.bunches)'
      <3>1. \A r : r = h => Read(e, d, r.bunches)'
        BY <2>1
      <3> HIDE DEF h, b, g
      <3> QED BY <1>5, <1>6, <1>9, <3>1 DEF Read
    <2> QED BY <1>4, <1>9, <2>1, <2>2
  <1> HIDE DEF g, h, b
  <1>10. ASSUME NEW i \in DOMAIN Pending'[e], NEW q, q = Pending'[e][i]
         PROVE  q = g \/ \E j \in DOMAIN w : q = w[j]
    <2>1. /\ Tail(w) \in Seq(Datagram) /\ DOMAIN w = 1 .. Len(w) /\ Len(w) \in Nat
          /\ Len(Tail(w)) = Len(w) - 1 /\ \A k \in 1 .. Len(w) - 1 : Tail(w)[k] = w[k + 1]
      BY <1>2, Parts
    <2> DEFINE t == Tail(w)
               m == << g >> \o t
    <2>2. << g >> \in Seq(Datagram) /\ t \in Seq(Datagram)
      BY <1>4, <2>1
    <2> HIDE DEF t, w
    <2>3. /\ DOMAIN m = 1 .. 1 + Len(t) /\ m[1] = g
          /\ \A k \in 1 .. Len(t) : m[1 + k] = t[k]
      BY <2>2
    <2> HIDE DEF m
    <2>4. i \in DOMAIN m /\ q = m[i]
      BY <1>3, <1>10 DEF m, t
    <2>5. CASE i = 1
      BY <2>3, <2>4, <2>5
    <2>6. CASE i # 1
      <3>1. i - 1 \in 1 .. Len(t) /\ 1 + (i - 1) = i /\ i \in 1 .. Len(w)
        BY <2>1, <2>3, <2>4, <2>6 DEF t
      <3>2. m[i] = t[i - 1] /\ t[i - 1] = w[(i - 1) + 1] /\ (i - 1) + 1 = i
        <4>1. i - 1 \in 1 .. Len(w) - 1
          BY <2>1, <3>1 DEF t
        <4>2. t[i - 1] = w[(i - 1) + 1]
          BY <2>1, <4>1 DEF t
        <4> QED BY <2>3, <3>1, <4>2
      <3> QED BY <2>1, <2>4, <3>1, <3>2
    <2> QED BY <2>5, <2>6
  <1>11. ASSUME NEW i \in DOMAIN Pending'[e], NEW q, q = Pending'[e][i]
         PROVE  \E d \in net'[e] : d.header = q.header /\ Read(e, d, q.bunches)'
    BY <1>8, <1>9, <1>10, <1>11
  <1>12. \A i \in DOMAIN Pending'[e] : \A q : q = Pending'[e][i] =>
           \E d \in net'[e] : d.header = q.header /\ Read(e, d, q.bunches)'
    BY <1>11
  <1>13. \A s \in dispatched'[e] : \E d \in net'[e] :
           d.header.seq = s /\ Read(e, d, << >>)'
    BY <1>7
  <1> QED BY <1>12, <1>13 DEF ReadOf, Read

\* AckPacket: the packet is dispatched when none of its bunches is left.
LEMMA AckPacketRead ==
  ASSUME TypeInv, [Next]_vars, NEW e \in Ep, ReadOf(e), ~ closed[e], AckPacket(e)
  PROVE  ReadOf(e)'
  <1> DEFINE w == Pending[e]
             h == Head(w)
  <1>1. /\ w \in Seq(Datagram) /\ w # << >> /\ h.bunches = << >>
        /\ Pending'[e] = Tail(w) /\ dispatched'[e] = dispatched[e] \union {h.header.seq}
    BY DEF AckPacket, TypeInv, Typed, DatagramTyped, InTyped
  <1>2. /\ h = w[1] /\ DOMAIN w = 1 .. Len(w) /\ Len(w) \in Nat \ {0}
        /\ DOMAIN Tail(w) = 1 .. Len(w) - 1
        /\ \A k \in 1 .. Len(w) - 1 : Tail(w)[k] = w[k + 1]
    BY <1>1, Parts
  <1>3. ASSUME NEW i \in DOMAIN w, NEW q, q = w[i]
        PROVE  \E d \in net'[e] : d.header = q.header /\ Read(e, d, q.bunches)'
    <2>1. PICK d \in net[e] : d.header = q.header /\ Read(e, d, q.bunches)
      BY <1>3 DEF ReadOf
    <2> QED BY <2>1, ReadStays
  <1>4. ASSUME NEW s \in dispatched[e]
        PROVE  \E d \in net'[e] : d.header.seq = s /\ Read(e, d, << >>)'
    <2>1. PICK d \in net[e] : d.header.seq = s /\ Read(e, d, << >>)
      BY DEF ReadOf
    <2> QED BY <2>1, ReadStays
  <1>5. ASSUME NEW s, s = h.header.seq
        PROVE  \E d \in net'[e] : d.header.seq = s /\ Read(e, d, << >>)'
    <2>1. 1 \in DOMAIN w
      BY <1>2
    <2>2. ASSUME NEW q, q = h
          PROVE  \E d \in net'[e] : d.header = q.header /\ Read(e, d, << >>)'
      BY <1>1, <1>2, <1>3, <2>1, <2>2
    <2> QED BY <1>5, <2>2
  <1>6. \A s \in dispatched'[e] : \E d \in net'[e] :
          d.header.seq = s /\ Read(e, d, << >>)'
    BY <1>1, <1>4, <1>5
  <1> HIDE DEF w
  <1>7. ASSUME NEW i \in DOMAIN Pending'[e], NEW q, q = Pending'[e][i]
        PROVE  \E d \in net'[e] : d.header = q.header /\ Read(e, d, q.bunches)'
    <2>1. i + 1 \in DOMAIN w /\ q = w[i + 1]
      BY <1>1, <1>2, <1>7
    <2> QED BY <1>3, <2>1
  <1>8. \A i \in DOMAIN Pending'[e] : \A q : q = Pending'[e][i] =>
           \E d \in net'[e] : d.header = q.header /\ Read(e, d, q.bunches)'
    BY <1>7
  <1> QED BY <1>6, <1>8 DEF ReadOf, Read

\* What was read stays read.
LEMMA ReadStep ==
  ASSUME OrderInv, InWindow, [Next]_vars, NEW e \in Ep, ReadOf(e)
  PROVE  ReadOf(e)'
  <1> SUFFICES ASSUME ~ closed'[e] PROVE ReadOf(e)'
    BY DEF ReadOf
  <1>1. TypeInv
    BY DEF OrderInv
  <1>2. ~ closed[e]
    BY <1>1, ClosedStays
  <1>3. CASE \E p \in net[e] : ReceiveOld(e, p) \/ ReceiveNew(e, p)
    BY <1>1, <1>2, <1>3, ReceiveRead
  <1>4. CASE BufferBunch(e) \/ DispatchBunch(e)
    BY <1>2, <1>4, ReadBunchRead
  <1>5. CASE AckPacket(e)
    BY <1>1, <1>2, <1>5, AckPacketRead
  <1>6. ASSUME Pending'[e] = Pending[e], dispatched'[e] = dispatched[e] PROVE ReadOf(e)'
    <2>1. ASSUME NEW i \in DOMAIN Pending'[e], NEW q, q = Pending'[e][i]
          PROVE  \E d \in net'[e] : d.header = q.header /\ Read(e, d, q.bunches)'
      <3>1. PICK d \in net[e] : d.header = q.header /\ Read(e, d, q.bunches)
        BY <1>2, <1>6, <2>1 DEF ReadOf
      <3> QED BY <1>1, <3>1, ReadStays
    <2>2. ASSUME NEW s \in dispatched'[e]
          PROVE  \E d \in net'[e] : d.header.seq = s /\ Read(e, d, << >>)'
      <3>1. PICK d \in net[e] : d.header.seq = s /\ Read(e, d, << >>)
        BY <1>2, <1>6 DEF ReadOf
      <3> QED BY <1>1, <3>1, ReadStays
    <2>3. \A i \in DOMAIN Pending'[e] : \A q : q = Pending'[e][i] =>
             \E d \in net'[e] : d.header = q.header /\ Read(e, d, q.bunches)'
      BY <2>1
    <2>4. \A s \in dispatched'[e] : \E d \in net'[e] :
             d.header.seq = s /\ Read(e, d, << >>)'
      BY <2>2
    <2> QED BY <2>3, <2>4 DEF ReadOf, Read
  <1> QED BY <1>1, <1>3, <1>4, <1>5, <1>6, PendingQuiet

-----------------------------------------------------------------------------
(* What a header reports was dispatched by its sender.                     *)

\* The packets a header reports as delivered.
Claimed(h) ==
    {ToSeq(h.acked - i) :
        i \in {j \in HistoryIndex : j < h.words * BitsPerWord /\ h.history[j]}}

\* The headers under way to side e, and the notifications it still owes its channels,
\* report as delivered what the other side, while it is open, has dispatched.
HeadersOf(e) ==
    ~ closed[Peer(e)] =>
        /\ \A d \in net[e] : Claimed(d.header) \subseteq dispatched[Peer(e)]
        /\ ~ closed[e] => \A k \in DOMAIN notes[e] :
             notes[e][k] => ToSeq(LastNotified[e] + k) \in dispatched[Peer(e)]

\* WriteHeader reports nothing the history does not hold.
LEMMA HeaderClaims ==
  ASSUME NEW n PROVE Claimed(WriteHeader(n)) \subseteq Reported(n)
  BY DEF Claimed, WriteHeader, Reported

\* The k-th notification of ProcessReceivedAcks that says delivered is about a packet
\* the header reports.
LEMMA NotificationsClaimed ==
  ASSUME NEW n \in Notify, NEW h \in Header, NEW acked \in Int,
         ToSeq(acked + AckCount(n, h)) = h.acked,
         NEW k \in DOMAIN Notifications(n, h), Notifications(n, h)[k]
  PROVE  ToSeq(acked + k) \in Claimed(h)
  <1> DEFINE m == AckCount(n, h)
             i == m - k
  <1>1. m \in Nat /\ k \in 1 .. m /\ i \in Nat /\ i < h.words * BitsPerWord /\ h.history[i]
    <2>1. m \in Nat
      BY AckCountType
    <2>2. /\ DOMAIN Notifications(n, h) = 1 .. m
          /\ \A j \in 1 .. m : Notifications(n, h)[j]
                = (m - j < h.words * BitsPerWord /\ h.history[m - j])
      BY DEF Notifications
    <2> HIDE DEF m
    <2>3. k \in 1 .. m /\ m - k \in Nat
      BY <2>1, <2>2
    <2> QED BY <2>1, <2>2, <2>3
  <1>2. i \in HistoryIndex
    <2>1. h.words \in 1 .. WordCount /\ BitsPerWord \in Nat \ {0} /\ WordCount \in Nat \ {0}
      BY WordCountType, HistoryAssumption DEF Header
    <2>2. HistorySize \in Nat /\ WordCount * BitsPerWord = HistorySize
      <3>1. HistorySize = BitsPerWord * (HistorySize \div BitsPerWord)
                            + (HistorySize % BitsPerWord)
        BY HistoryAssumption
      <3> QED BY <3>1, HistoryAssumption DEF WordCount
    <2>3. h.words * BitsPerWord <= WordCount * BitsPerWord
      <3>1. \A a, b, c \in Nat : a <= b => a * c <= b * c
        OBVIOUS
      <3> QED BY <2>1, <3>1
    <2> HIDE DEF i, m
    <2>4. \A a, b, c \in Int : a < b /\ b <= c => a < c
      OBVIOUS
    <2>5. h.words * BitsPerWord \in Int
      BY <2>1
    <2> QED BY <1>1, <2>2, <2>3, <2>4, <2>5 DEF HistoryIndex
  <1>3. ToSeq(h.acked - i) = ToSeq(acked + k)
    <2>1. PICK q \in Int : acked + m = SeqCount * q + h.acked
      <3>1. acked + m \in Int
        BY <1>1
      <3> QED BY <3>1, Turns
    <2>2. h.acked \in Int /\ SeqCount \in Int
      BY SeqNumsAreInt, HalfIsHalf DEF Header
    <2>3. acked + k = (h.acked - i) + SeqCount * q
      <3>1. SeqCount * q \in Int
        BY <2>2
      <3> QED BY <1>1, <2>1, <2>2, <3>1
    <2>4. acked + k \in Int /\ h.acked - i \in Int
      BY <1>1, <2>2
    <2> QED BY <2>3, <2>4, SameNumber
  <1> QED BY <1>1, <1>2, <1>3 DEF Claimed

\* ReceivedPacket: the notifications of the new header start where the last one ended.
LEMMA ReceiveNewHeaders ==
  ASSUME TypeInv, InFlightWindow, [Next]_vars, NEW e \in Ep, NEW p \in net[e],
         ReceiveNew(e, p), AlignedOf(e), HeadersOf(e), ~ closed[e], ~ closed[Peer(e)]
  PROVE  \A k \in DOMAIN notes'[e] :
            notes'[e][k] => ToSeq(LastNotified'[e] + k) \in dispatched[Peer(e)]
  <1> DEFINE n == notify[e]
             h == p.header
             m == AckCount(n, h)
             sent == OutPacketId[e] - Ready(e)
             acked == LastNotified[e]
  <1>1. /\ n \in Notify /\ h \in Header /\ sent \in Int /\ acked \in Int
    <2>1. p \in Datagram
      BY DEF TypeInv, Typed, DatagramTyped
    <2> QED BY <2>1, DatagramFields, ReadyType
  <1>2. /\ notes'[e] = Notifications(n, h) /\ LastNotified' = LastNotified
        /\ pc[e] = "idle" /\ SequenceDelta(n, h) > 0
    <2>1. pc[e] = "idle"
      BY DEF ReceiveNew, Idle
    <2> QED BY <2>1 DEF ReceiveNew, TypeInv, Typed, NotifyTyped
  <1>3. /\ ToSeq(sent) = n.OutSeq /\ ToSeq(acked) = n.OutAckSeq
        /\ Len(n.AckRecord) = sent - acked - 1
    <2>1. notes[e] = << >> /\ acked + 0 = acked
      BY <1>1, <1>2 DEF AlignedOf
    <2> QED BY <1>1, <2>1 DEF AlignedOf
  <1>4. sent - acked < SeqHalf
    BY <1>1, <1>3, HalfIsHalf DEF InFlightWindow
  <1>5. Claimed(h) \subseteq dispatched[Peer(e)]
    BY DEF HeadersOf
  <1> HIDE DEF n, h, m, sent, acked
  <1>6. ToSeq(acked + m) = h.acked
    BY <1>1, <1>2, <1>3, <1>4, AcksAreCounted DEF m
  <1> QED BY <1>1, <1>2, <1>5, <1>6, NotificationsClaimed DEF acked, m

\* Only AckPacket adds to the packets a side has dispatched.
LEMMA DispatchedGrows ==
  ASSUME TypeInv, [Next]_vars, NEW e \in Ep
  PROVE  dispatched[e] \subseteq dispatched'[e]
  <1>1. CASE \E p \in net[e] : ReceiveOld(e, p) \/ ReceiveNew(e, p)
    BY <1>1 DEF ReceiveOld, ReceiveNew, inVars
  <1>2. CASE BufferBunch(e) \/ DispatchBunch(e)
    BY <1>2 DEF BufferBunch, DispatchBunch
  <1>3. CASE AckPacket(e)
    BY <1>3 DEF AckPacket, TypeInv, Typed, InTyped
  <1> QED BY <1>1, <1>2, <1>3, PendingQuiet

\* What headers report stays dispatched.
LEMMA HeadersStep ==
  ASSUME AckInv, InFlightWindow, [Next]_vars, NEW e \in Ep, AlignedOf(e), HeadersOf(e)
  PROVE  HeadersOf(e)'
  <1> DEFINE s == Peer(e)
  <1> SUFFICES ASSUME ~ closed'[s] PROVE HeadersOf(e)'
    BY DEF HeadersOf, Peer
  <1>1. TypeInv /\ s \in Ep /\ Peer(s) = e
    BY PeerType DEF AckInv
  <1>2. ~ closed[s] /\ dispatched[s] \subseteq dispatched'[s]
    BY <1>1, ClosedStays, DispatchedGrows
  <1>3. \A d \in net[e] : Claimed(d.header) \subseteq dispatched[s]
    BY <1>2 DEF HeadersOf
  <1>4. \A d \in net'[e] : Claimed(d.header) \subseteq dispatched'[s]
    <2>1. CASE SendPacket(s)
      <3> DEFINE new == [header  |-> WriteHeader(notify[s]),
                         bunches |-> Head(OutPacketQueue[s]).bunches]
      <3>1. net'[e] = net[e] \union {new}
        BY <1>1, <2>1, NetGrows
      <3>2. Reported(notify[s]) \subseteq dispatched[s]
        <4>1. pc[s] = "flush"
          BY <2>1 DEF SendPacket
        <4> QED BY <1>1, <1>2, <4>1 DEF AckInv, AckedOf
      <3>3. Claimed(new.header) \subseteq dispatched[s]
        BY <3>2, HeaderClaims
      <3> HIDE DEF new
      <3> QED BY <1>2, <1>3, <3>1, <3>3
    <2>2. CASE ~ SendPacket(s)
      BY <1>1, <1>2, <1>3, <2>2, NetGrows
    <2> QED BY <2>1, <2>2
  <1>5. ASSUME ~ closed'[e]
        PROVE  \A k \in DOMAIN notes'[e] :
                 notes'[e][k] => ToSeq(LastNotified'[e] + k) \in dispatched'[s]
    <2>1. ~ closed[e]
      BY <1>1, <1>5, ClosedStays
    <2>2. \A k \in DOMAIN notes[e] :
             notes[e][k] => ToSeq(LastNotified[e] + k) \in dispatched[s]
      BY <1>2, <2>1 DEF HeadersOf
    <2>3. CASE \E p \in net[e] : ReceiveNew(e, p)
      BY <1>1, <1>2, <2>1, <2>3, ReceiveNewHeaders
    <2>4. CASE HandlePacketNotification(e)
      <3> DEFINE q == notes[e]
      <3>1. /\ q \in Seq(BOOLEAN) /\ q # << >> /\ LastNotified[e] \in Int
            /\ notes'[e] = Tail(q) /\ LastNotified'[e] = LastNotified[e] + 1
        BY <1>1, <2>1, <2>4, NotificationFinds, ReadyType
      <3>2. /\ DOMAIN q = 1 .. Len(q) /\ Len(q) \in Nat \ {0}
            /\ DOMAIN Tail(q) = 1 .. Len(q) - 1
            /\ \A k \in 1 .. Len(q) - 1 : Tail(q)[k] = q[k + 1]
        BY <3>1, Parts
      <3> HIDE DEF q, s
      <3>3. ASSUME NEW k \in DOMAIN Tail(q), Tail(q)[k]
            PROVE  ToSeq((LastNotified[e] + 1) + k) \in dispatched[s]
        <4>1. k + 1 \in DOMAIN q /\ q[k + 1]
          BY <3>2, <3>3
        <4>2. LastNotified[e] + (k + 1) = (LastNotified[e] + 1) + k
          BY <3>1, <3>2
        <4> QED BY <2>2, <4>1, <4>2 DEF q
      <3> QED BY <1>2, <3>1, <3>3
    <2>5. ASSUME notes'[e] = notes[e], LastNotified'[e] = LastNotified[e]
          PROVE  \A k \in DOMAIN notes'[e] :
                   notes'[e][k] => ToSeq(LastNotified'[e] + k) \in dispatched'[s]
      BY <1>2, <2>2, <2>5
    <2>6. CASE FinishAssembly(e) \/ SendKeepAlive(e) \/ SendPacket(e)
      BY <2>5, <2>6 DEF FinishAssembly, SendKeepAlive, SendPacket, recvVars
    <2>7. CASE \E c \in Channels : PackBunch(e, c)
      BY <2>5, <2>7 DEF PackBunch, recvVars
    <2>8. CASE AlignQuiet(e)
      BY <2>5, <2>8 DEF AlignQuiet
    <2> QED BY <1>1, <1>5, <2>3, <2>4, <2>6, <2>7, <2>8, OthersAlignQuiet
  <1> QED BY <1>4, <1>5 DEF HeadersOf, Peer

-----------------------------------------------------------------------------
(* What a packet that was sent is charged with, its datagram carries.      *)

\* While side e is open: the datagram of a sent packet that is not notified yet has
\* every bunch the packet is charged with.
ChargedOf(e) ==
    ~ closed[e] =>
        \A c \in Channels : \A x \in DOMAIN OutUnAcked[e][c] : x < Sent(e) =>
            \A d \in net[Peer(e)] : d.header.seq = ToSeq(x) =>
                Elements(OutUnAcked[e][c][x]) \subseteq Elements(d.bunches)

\* The sequence number of the next packet is on no datagram that may still arrive.
FreshNumbers == \A e \in Ep : \A d \in net[Peer(e)] : d.header.seq # notify[e].OutSeq

\* A step that sends nothing and charges packets with no more.
LEMMA ChargedQuiet ==
  ASSUME NEW e \in Ep, ChargedOf(e), ~ closed[e], net'[Peer(e)] = net[Peer(e)],
         Sent(e)' = Sent(e),
         \A c \in Channels : Shrinks(OutUnAcked'[e][c], OutUnAcked[e][c])
  PROVE  ChargedOf(e)'
  BY DEF ChargedOf, Shrinks, Peer

\* PackBunch charges a packet that was not sent.
LEMMA PackBunchCharged ==
  ASSUME UnitsFit, TypeInv, SizesKept, NEW e \in Ep, NEW c \in Channels, [Next]_vars,
         PackBunch(e, c), AlignedOf(e), PackedOf(e), ChargedOf(e), ~ closed[e]
  PROVE  ChargedOf(e)'
  <1> DEFINE b == Head(OutBunchQueue[e][c])
             x == PacketId(e, b)
             n == Len(OutPacketQueue[e])
             m == Len(Packets(e, b))
  <1>1. /\ Sent(e)' = Sent(e)
        /\ \A k \in Channels : OutUnAcked'[e][k] =
             IF k = c THEN AddUnAcked(OutUnAcked[e][c], x, b) ELSE OutUnAcked[e][k]
    BY PackBunchPacked
  <1>2. net'[Peer(e)] = net[Peer(e)]
    BY PeerType DEF PackBunch
  <1>3. x >= Sent(e)
    <2>1. x - (n + (m - 1)) = Sent(e)
      BY PackBunchOpens DEF Sent
    <2>2. n \in Nat /\ m \in Nat \ {0} /\ x \in Int
      <3>1. Packets(e, b) \in Seq(Packet) /\ Packets(e, b) # << >>
        BY PackBunchOpens
      <3>2. OutPacketQueue[e] \in Seq(Packet)
        BY ReadyType
      <3>3. m \in Nat \ {0}
        BY <3>1
      <3>4. x \in Int
        BY PacketIdType DEF TypeInv
      <3> QED BY <3>2, <3>3, <3>4
    <2> HIDE DEF x, n, m
    <2>3. \A i \in Int, j \in Nat, k \in Nat \ {0} : i >= i - (j + (k - 1))
      OBVIOUS
    <2> QED BY <2>1, <2>2, <2>3
  <1>4. Sent(e) \in Int /\ x \in Int
    BY UnsentCount, PacketIdType DEF TypeInv
  <1> HIDE DEF b, x
  <1>5. ASSUME NEW k \in Channels, NEW y \in DOMAIN OutUnAcked'[e][k], y < Sent(e)
        PROVE  y \in DOMAIN OutUnAcked[e][k] /\ OutUnAcked'[e][k][y] = OutUnAcked[e][k][y]
    <2>1. y # x
      BY <1>3, <1>4, <1>5
    <2>2. CASE k = c
      <3> DEFINE charge == OutUnAcked[e][c]
      <3>1. OutUnAcked'[e][k] = AddUnAcked(charge, x, b) /\ y \in DOMAIN AddUnAcked(charge, x, b)
        BY <1>1, <1>5, <2>2
      <3> HIDE DEF charge
      <3>2. DOMAIN AddUnAcked(charge, x, b) = DOMAIN charge \union {x}
        BY AddUnAckedEntries
      <3>3. \A z \in DOMAIN charge \ {x} : AddUnAcked(charge, x, b)[z] = charge[z]
        BY AddUnAckedEntries
      <3>4. y \in DOMAIN charge /\ AddUnAcked(charge, x, b)[y] = charge[y]
        BY <2>1, <3>1, <3>2, <3>3
      <3> QED BY <2>2, <3>1, <3>4 DEF charge
    <2>3. CASE k # c
      BY <1>1, <1>5, <2>3
    <2> QED BY <2>2, <2>3
  <1>6. ASSUME NEW k \in Channels, NEW y \in DOMAIN OutUnAcked'[e][k], y < Sent(e),
               NEW d \in net[Peer(e)], d.header.seq = ToSeq(y)
        PROVE  Elements(OutUnAcked'[e][k][y]) \subseteq Elements(d.bunches)
    BY <1>5, <1>6 DEF ChargedOf
  <1> QED BY <1>1, <1>2, <1>6 DEF ChargedOf, Peer

\* SendPacket: the new datagram carries what the packet is charged with, and its
\* number is on no other datagram of a packet in flight.
LEMMA SendPacketCharged ==
  ASSUME TypeInv, NEW e \in Ep, [Next]_vars, SendPacket(e), AlignedOf(e), PackedOf(e),
         CoveredOf(e), ChargedOf(e), ~ closed[e], InFlightWindow, FreshNumbers
  PROVE  ChargedOf(e)'
  <1> DEFINE s == Sent(e)
             n == notify[e]
             p == Head(OutPacketQueue[e])
             lo == LastNotified[e]
  <1>1. /\ Sent(e)' = s + 1
        /\ \A c \in Channels : s \in DOMAIN OutUnAcked[e][c] =>
              Elements(OutUnAcked[e][c][s]) \subseteq Elements(p.bunches)
    BY SendPacketPacked
  <1>2. /\ pc[e] = "flush" /\ UNCHANGED OutUnAcked
        /\ net'[Peer(e)] = net[Peer(e)] \union {[header |-> WriteHeader(n), bunches |-> p.bunches]}
    BY NetGrows DEF SendPacket, outVars
  <1>3. /\ s \in Int /\ lo \in Int /\ Len(n.AckRecord) \in Nat
        /\ \A c \in Channels : \A x \in DOMAIN OutUnAcked[e][c] : x \in Int /\ lo < x
    <2>1. \A c \in Channels : DOMAIN OutUnAcked[e][c] \subseteq Int
      BY MapValue, ChannelValue DEF TypeInv, Typed, QueueTyped
    <2> QED BY <2>1, UnsentCount, ReadyType DEF CoveredOf
  <1>4. ToSeq(s) = n.OutSeq /\ Len(n.AckRecord) = s - lo - 1
    <2>1. notes[e] = << >> /\ lo + 0 = lo
      BY <1>2, <1>3 DEF AlignedOf
    <2> QED BY <1>3, <2>1 DEF AlignedOf, Sent
  <1>5. s - lo < SeqHalf /\ SeqHalf \in Nat
    BY <1>3, <1>4, HalfIsHalf DEF InFlightWindow
  <1>6. (WriteHeader(n)).seq = ToSeq(s)
    BY <1>4 DEF WriteHeader
  <1> DEFINE new == [header |-> WriteHeader(n), bunches |-> p.bunches]
  <1>7. new.header.seq = ToSeq(s) /\ new.bunches = p.bunches
    BY <1>6
  <1>8. \A d \in net[Peer(e)] : d.header.seq # ToSeq(s)
    BY <1>4 DEF FreshNumbers
  <1>9. \A c \in Channels : \A x \in DOMAIN OutUnAcked[e][c] : x < s =>
          \A d \in net[Peer(e)] : d.header.seq = ToSeq(x) =>
              Elements(OutUnAcked[e][c][x]) \subseteq Elements(d.bunches)
    BY DEF ChargedOf
  <1> HIDE DEF s, n, p, lo, new
  <1>10. ASSUME NEW c \in Channels, NEW x \in DOMAIN OutUnAcked[e][c], x < s
         PROVE  ToSeq(x) # ToSeq(s)
    <2>1. -SeqHalf < s - x /\ s - x < SeqHalf /\ -SeqHalf < x - s /\ x - s < SeqHalf
      BY <1>3, <1>5, <1>10
    <2>2. -SeqHalf < x - x /\ x - x < SeqHalf /\ x \in Int
      BY <1>3, HalfIsHalf
    <2>3. ~ GreaterEq(ToSeq(x), ToSeq(s))
      BY <1>3, <1>10, <2>1, <2>2, OrderIsCounting
    <2>4. GreaterEq(ToSeq(x), ToSeq(x))
      BY <2>2, OrderIsCounting
    <2> QED BY <2>3, <2>4
  <1>11. ASSUME NEW c \in Channels, NEW x \in DOMAIN OutUnAcked[e][c], x < s + 1,
                NEW d \in net[Peer(e)] \union {new}, d.header.seq = ToSeq(x)
         PROVE  Elements(OutUnAcked[e][c][x]) \subseteq Elements(d.bunches)
    <2>1. x < s \/ x = s
      BY <1>3, <1>11
    <2>2. CASE x = s
      BY <1>1, <1>7, <1>8, <1>11, <2>2
    <2>3. CASE x < s
      BY <1>7, <1>9, <1>10, <1>11, <2>3
    <2> QED BY <2>1, <2>2, <2>3
  <1> QED BY <1>1, <1>2, <1>11 DEF ChargedOf, Peer, new

\* The datagrams keep up with what packets are charged with.
LEMMA ChargedStep ==
  ASSUME UnitsFit, PackedInv, InFlightWindow, FreshNumbers, NEW e \in Ep, CoveredOf(e),
         ChargedOf(e), [Next]_vars
  PROVE  ChargedOf(e)'
  <1> SUFFICES ASSUME ~ closed'[e] PROVE ChargedOf(e)'
    BY DEF ChargedOf
  <1>1. TypeInv /\ SizesKept /\ AlignedOf(e) /\ PackedOf(e)
    BY DEF PackedInv, AlignInv
  <1>2. ~ closed[e]
    BY <1>1, ClosedStays
  <1>3. CASE \E c \in Channels : PackBunch(e, c)
    BY <1>1, <1>2, <1>3, PackBunchCharged
  <1>4. CASE SendPacket(e)
    BY <1>1, <1>2, <1>4, SendPacketCharged
  <1>5. ASSUME ~ SendPacket(e), \A c \in Channels : ~ PackBunch(e, c) PROVE ChargedOf(e)'
    <2>1. net'[Peer(e)] = net[Peer(e)]
      BY <1>1, <1>5, NetGrows
    <2>2. \A c \in Channels : Shrinks(OutUnAcked'[e][c], OutUnAcked[e][c])
      BY <1>1, <1>5, UnAckedShrinks
    <2>3. Sent(e)' = Sent(e)
      <3>1. CASE SendKeepAlive(e)
        BY <1>1, <1>2, <3>1, KeepAlivePacked
      <3>2. CASE ~ SendKeepAlive(e)
        BY <1>1, <1>2, <1>5, <3>2, PacketsQuiet
      <3> QED BY <3>1, <3>2
    <2> QED BY <1>2, <2>1, <2>2, <2>3, ChargedQuiet
  <1> QED BY <1>3, <1>4, <1>5

-----------------------------------------------------------------------------
(* Every sealed bunch is accounted for.                                    *)

\* The bunches a channel still has to send or is charged with.
HeldIn(q, u) == Elements(q) \union UNION {Elements(u[x]) : x \in DOMAIN u}

\* While both sides are open, every bunch side e has sealed is too large to send, is held
\* by its channel or has arrived.
AccountedOf(e) ==
    ~ closed[e] /\ ~ closed[Peer(e)] =>
        \A c \in Channels : \A b \in Elements(sealed[e][c]) :
            \/ IsDiscarded(b)
            \/ b \in HeldIn(OutBunchQueue[e][c], OutUnAcked[e][c])
            \/ HasArrived(Peer(e), b)

\* Nacked and ForceRetransmit: the bunches of the packet go back to the queue.
LEMMA HeldReturn ==
  ASSUME NEW S, NEW q \in Seq(S), NEW u \in MapTo(Seq(S)), NEW id
  PROVE  HeldIn(q, u) \subseteq HeldIn(BunchesOf(u, id) \o q, Erase(u, id))
  <1> DEFINE r == BunchesOf(u, id)
             m == Erase(u, id)
  <1>1. Elements(r \o q) = Elements(r) \union Elements(q)
    BY BunchesOfType, ConcatUnion
  <1>2. DOMAIN m = DOMAIN u \ {id} /\ \A x \in DOMAIN m : m[x] = u[x]
    BY DEF Erase
  <1>3. id \in DOMAIN u => r = u[id]
    BY DEF BunchesOf
  <1> HIDE DEF r, m
  <1>4. HeldIn(q, u) \subseteq HeldIn(r \o q, m)
    BY <1>1, <1>2, <1>3 DEF HeldIn
  <1> QED BY <1>4 DEF r, m

\* Acked: the bunches of the packet are let go.
LEMMA HeldAcked ==
  ASSUME NEW q, NEW u, NEW id, NEW b \in HeldIn(q, u)
  PROVE  b \in HeldIn(q, Erase(u, id)) \/ (id \in DOMAIN u /\ b \in Elements(u[id]))
  <1> DEFINE m == Erase(u, id)
  <1>1. DOMAIN m = DOMAIN u \ {id} /\ \A x \in DOMAIN m : m[x] = u[x]
    BY DEF Erase
  <1> HIDE DEF m
  <1>2. b \in HeldIn(q, m) \/ (id \in DOMAIN u /\ b \in Elements(u[id]))
    BY <1>1 DEF HeldIn
  <1> QED BY <1>2 DEF m

\* The head of a queue and the rest.
LEMMA HeadElements ==
  ASSUME NEW S, NEW q \in Seq(S), q # << >>
  PROVE  Elements(q) = {Head(q)} \union Elements(Tail(q))
  <1>1. << Head(q) >> \in Seq(S) /\ Tail(q) \in Seq(S) /\ q = << Head(q) >> \o Tail(q)
    OBVIOUS
  <1>2. Elements(q) = Elements(<< Head(q) >>) \union Elements(Tail(q))
    BY <1>1, ConcatUnion
  <1>3. Elements(<< Head(q) >>) = {Head(q)}
    BY DEF Elements
  <1> QED BY <1>2, <1>3

\* AddUnAckedOutBunch: the head of the queue is charged to a packet.
LEMMA HeldPacked ==
  ASSUME NEW q \in Seq(Bunch), q # << >>, NEW u \in MapTo(Seq(Bunch)), NEW id
  PROVE  HeldIn(q, u) \subseteq HeldIn(Tail(q), AddUnAcked(u, id, Head(q)))
  <1> DEFINE b == Head(q)
             m == AddUnAcked(u, id, b)
  <1>1. Elements(q) = {b} \union Elements(Tail(q)) /\ b \in Bunch
    BY HeadElements, HeadTail
  <1> HIDE DEF b
  <1>2. DOMAIN m = DOMAIN u \union {id}
    BY AddUnAckedEntries
  <1>3. \A x \in DOMAIN u \ {id} : m[x] = u[x]
    BY AddUnAckedEntries
  <1>4. Elements(m[id]) = {b} \union (IF id \in DOMAIN u THEN Elements(u[id]) ELSE {})
    BY <1>1, AddUnAckedBunch
  <1> HIDE DEF m
  <1>5. \A x \in DOMAIN u : Elements(u[x]) \subseteq Elements(m[x])
    BY <1>3, <1>4
  <1>6. HeldIn(q, u) \subseteq HeldIn(Tail(q), m)
    BY <1>1, <1>2, <1>4, <1>5 DEF HeldIn
  <1> QED BY <1>6 DEF m, b

\* What channel c of side e holds.
Held(e, c) == HeldIn(OutBunchQueue[e][c], OutUnAcked[e][c])

\* The types these steps need.
LEMMA HeldTypes ==
  ASSUME TypeInv, NEW e \in Ep, NEW c \in Channels
  PROVE  OutBunchQueue[e][c] \in Seq(Bunch) /\ OutUnAcked[e][c] \in MapTo(Seq(Bunch))
  BY ChannelValue DEF TypeInv, Typed, QueueTyped

\* RecivedAck and RecivedNack: the channels of the packet let its bunches go only when
\* they have arrived at the other side.
LEMMA NotificationHeld ==
  ASSUME TypeInv, NEW e \in Ep, HandlePacketNotification(e), ~ closed[e], ~ closed[Peer(e)],
         AlignedOf(e), HeadersOf(e), ReadOf(Peer(e)), ChargedOf(e),
         NEW c \in Channels, NEW b \in Held(e, c)
  PROVE  b \in Held(e, c)' \/ HasArrived(Peer(e), b)
  <1> DEFINE id == LastNotified[e] + 1
             s  == Peer(e)
             q  == OutBunchQueue[e][c]
             u  == OutUnAcked[e][c]
  <1>1. PICK n \in Int :
          NotifyChannels(e, id, ChannelRun(Record[e], n), Head(notes[e]))
    BY NotificationFinds
  <1>2. /\ notes[e] # << >> /\ notes[e] \in Seq(BOOLEAN) /\ id \in Int /\ id < Sent(e)
    BY NotificationFinds, ReadyType DEF Sent
  <1> DEFINE in == c \in ChannelRun(Record[e], n)
  <1>3. /\ OutUnAcked'[e][c] = IF in THEN Erase(u, id) ELSE u
        /\ OutBunchQueue'[e][c] = IF in /\ ~ Head(notes[e]) THEN BunchesOf(u, id) \o q ELSE q
    BY <1>1 DEF NotifyChannels, TypeInv, Typed, QueueTyped, PerChannel
  <1>4. q \in Seq(Bunch) /\ u \in MapTo(Seq(Bunch)) /\ b \in HeldIn(q, u)
    BY HeldTypes DEF Held
  <1>5. CASE ~ in
    BY <1>3, <1>4, <1>5 DEF Held
  <1>6. CASE in /\ ~ Head(notes[e])
    <2>1. OutUnAcked'[e][c] = Erase(u, id) /\ OutBunchQueue'[e][c] = BunchesOf(u, id) \o q
      BY <1>3, <1>6
    <2> HIDE DEF in, id, q, u
    <2>2. b \in HeldIn(BunchesOf(u, id) \o q, Erase(u, id))
      BY <1>4, HeldReturn
    <2> QED BY <2>1, <2>2 DEF Held
  <1>7. CASE in /\ Head(notes[e])
    <2>1. OutUnAcked'[e][c] = Erase(u, id) /\ OutBunchQueue'[e][c] = q
      BY <1>3, <1>7
    <2>2. ASSUME id \in DOMAIN u, b \in Elements(u[id]) PROVE HasArrived(s, b)
      <3>1. ToSeq(id) \in dispatched[s]
        <4>1. 1 \in DOMAIN notes[e] /\ notes[e][1] = Head(notes[e])
          BY <1>2, Parts
        <4>2. notes[e][1]
          BY <1>7, <4>1, Zenon
        <4> QED BY <4>1, <4>2 DEF HeadersOf
      <3>2. PICK d \in net[s] : d.header.seq = ToSeq(id) /\ Read(s, d, << >>)
        BY <3>1 DEF ReadOf
      <3>3. Elements(u[id]) \subseteq Elements(d.bunches)
        BY <1>2, <2>2, <3>2 DEF ChargedOf
      <3>4. Elements(<< >>) = {}
        BY DEF Elements
      <3> QED BY <2>2, <3>2, <3>3, <3>4 DEF Read
    <2> HIDE DEF in, id, q, u
    <2>3. b \in HeldIn(q, Erase(u, id)) \/ (id \in DOMAIN u /\ b \in Elements(u[id]))
      BY <1>4, HeldAcked
    <2> QED BY <2>1, <2>2, <2>3 DEF Held
  <1> QED BY <1>5, <1>6, <1>7

\* Every other step of the side: only a bunch no packet takes is let go.
LEMMA QueueHeld ==
  ASSUME TypeInv, NEW e \in Ep, NEW a \in Channels,
         \/ DiscardBunch(e, a) \/ PackBunch(e, a)
         \/ \E id \in DOMAIN OutUnAcked[e][a] : ForceRetransmit(e, a, id),
         NEW c \in Channels, NEW b \in Held(e, c)
  PROVE  b \in Held(e, c)' \/ IsDiscarded(b)
  <1> DEFINE q  == OutBunchQueue[e][c]
             u  == OutUnAcked[e][c]
  <1>1. q \in Seq(Bunch) /\ u \in MapTo(Seq(Bunch)) /\ b \in HeldIn(q, u)
    BY HeldTypes DEF Held
  <1>2. CASE a # c
    <2>1. OutBunchQueue'[e][c] = q /\ OutUnAcked'[e][c] = u
      <3>1. CASE DiscardBunch(e, a)
        BY <1>2, <3>1 DEF DiscardBunch, TypeInv, Typed, QueueTyped, PerChannel
      <3>2. CASE PackBunch(e, a)
        BY <1>2, <3>2 DEF PackBunch, TypeInv, Typed, QueueTyped, PerChannel
      <3>3. ASSUME NEW id \in DOMAIN OutUnAcked[e][a], ForceRetransmit(e, a, id)
            PROVE  OutBunchQueue'[e][c] = q /\ OutUnAcked'[e][c] = u
        BY <1>2, <3>3 DEF ForceRetransmit, TypeInv, Typed, QueueTyped, PerChannel
      <3> QED BY <3>1, <3>2, <3>3
    <2> QED BY <1>1, <2>1 DEF Held
  <1>3. CASE a = c /\ DiscardBunch(e, a)
    <2>1. /\ q # << >> /\ IsDiscarded(Head(q))
          /\ OutBunchQueue'[e][c] = Tail(q) /\ OutUnAcked'[e][c] = u
      BY <1>3 DEF DiscardBunch, IsNextChannel, TypeInv, Typed, QueueTyped, PerChannel
    <2> HIDE DEF q, u
    <2>2. Elements(q) = {Head(q)} \union Elements(Tail(q))
      BY <1>1, <2>1, HeadElements
    <2>3. b = Head(q) \/ b \in HeldIn(Tail(q), u)
      BY <1>1, <2>2 DEF HeldIn
    <2> QED BY <2>1, <2>3 DEF Held
  <1>4. CASE a = c /\ PackBunch(e, a)
    <2>1. PICK id : /\ q # << >> /\ OutBunchQueue'[e][c] = Tail(q)
                    /\ OutUnAcked'[e][c] = AddUnAcked(u, id, Head(q))
      BY <1>4 DEF PackBunch, IsNextChannel, TypeInv, Typed, QueueTyped, PerChannel
    <2> HIDE DEF q, u
    <2>2. b \in HeldIn(Tail(q), AddUnAcked(u, id, Head(q)))
      BY <1>1, <2>1, HeldPacked
    <2> QED BY <2>1, <2>2 DEF Held
  <1>5. CASE a = c /\ \E id \in DOMAIN OutUnAcked[e][a] : ForceRetransmit(e, a, id)
    <2>1. PICK id \in DOMAIN u : ForceRetransmit(e, c, id)
      BY <1>5
    <2>2. /\ OutBunchQueue'[e][c] = BunchesOf(u, id) \o q
          /\ OutUnAcked'[e][c] = Erase(u, id)
      BY ZenonT(30), <2>1 DEF ForceRetransmit, BunchesOf, TypeInv, Typed, QueueTyped, PerChannel
    <2> HIDE DEF q, u
    <2>3. b \in HeldIn(BunchesOf(u, id) \o q, Erase(u, id))
      BY <1>1, HeldReturn
    <2> QED BY <2>2, <2>3 DEF Held
  <1> QED BY <1>2, <1>3, <1>4, <1>5

\* TickFlush of a channel: what is sealed is queued, behind what is held.
LEMMA TickHeld ==
  ASSUME TypeInv, NEW e \in Ep, TickChannels(e), NEW c \in Channels
  PROVE  /\ Held(e, c) \subseteq Held(e, c)'
         /\ Elements(sealed'[e][c]) \subseteq Elements(sealed[e][c]) \union Held(e, c)'
  <1> DEFINE q   == OutBunchQueue[e][c]
             u   == OutUnAcked[e][c]
             z   == sealed[e][c]
             new == SealedBunches(c, OutReliable[e][c], Submitted[e][c])
  <1>1. q \in Seq(Bunch) /\ u \in MapTo(Seq(Bunch)) /\ z \in Seq(Bunch) /\ new \in Seq(Bunch)
    BY HeldTypes, SealedTypes, SealedBunchesType
  <1>2. OutBunchQueue'[e][c] = q \o new /\ sealed'[e][c] = z \o new /\ OutUnAcked'[e][c] = u
    BY DEF TickChannels, TypeInv, Typed, QueueTyped, SealedTyped, PerChannel
  <1> HIDE DEF q, u, z, new
  <1>3. Elements(q \o new) = Elements(q) \union Elements(new)
    BY <1>1, ConcatUnion
  <1>4. Elements(z \o new) = Elements(z) \union Elements(new)
    BY <1>1, ConcatUnion
  <1> QED BY <1>2, <1>3, <1>4 DEF Held, HeldIn, q, u, z

\* Who changes what the channels of a side hold.
LEMMA HeldQuiet ==
  ASSUME TypeInv, [Next]_vars, NEW e \in Ep, ~ closed'[e]
  PROVE  \/ HandlePacketNotification(e) \/ TickChannels(e)
         \/ \E a \in Channels : \/ DiscardBunch(e, a) \/ PackBunch(e, a)
                               \/ \E id \in DOMAIN OutUnAcked[e][a] : ForceRetransmit(e, a, id)
         \/ /\ OutBunchQueue'[e] = OutBunchQueue[e] /\ OutUnAcked'[e] = OutUnAcked[e]
            /\ sealed'[e] = sealed[e]
  <1>1. CASE UNCHANGED << OutBunchQueue, OutUnAcked >> /\ ~ TickChannels(e)
    <2>1. sealed'[e] = sealed[e]
      <3>1. CASE UNCHANGED sealed
        BY <3>1
      <3>2. CASE \E s \in Ep : TickChannels(s)
        BY <1>1, <3>2 DEF TickChannels, TypeInv, Typed, SealedTyped, PerChannel
      <3> QED BY <3>1, <3>2, SealedGrows
    <2> QED BY <1>1, <2>1
  <1>2. ASSUME NEW s \in Ep, HandlePacketNotification(s), s # e
        PROVE  /\ OutBunchQueue'[e] = OutBunchQueue[e] /\ OutUnAcked'[e] = OutUnAcked[e]
               /\ sealed'[e] = sealed[e]
    BY <1>2 DEF HandlePacketNotification, NotifyChannels, TypeInv, Typed, QueueTyped, PerChannel
  <1>3. ASSUME NEW s \in Ep, TickChannels(s), s # e
        PROVE  /\ OutBunchQueue'[e] = OutBunchQueue[e] /\ OutUnAcked'[e] = OutUnAcked[e]
               /\ sealed'[e] = sealed[e]
    BY <1>3 DEF TickChannels, TypeInv, Typed, QueueTyped, SealedTyped, PerChannel
  <1>4. ASSUME NEW s \in Ep, NEW a \in Channels, s # e, DiscardBunch(s, a)
        PROVE  /\ OutBunchQueue'[e] = OutBunchQueue[e] /\ OutUnAcked'[e] = OutUnAcked[e]
               /\ sealed'[e] = sealed[e]
    BY <1>4 DEF DiscardBunch, TypeInv, Typed, QueueTyped, PerChannel
  <1>5. ASSUME NEW s \in Ep, NEW a \in Channels, s # e, PackBunch(s, a)
        PROVE  /\ OutBunchQueue'[e] = OutBunchQueue[e] /\ OutUnAcked'[e] = OutUnAcked[e]
               /\ sealed'[e] = sealed[e]
    BY <1>5 DEF PackBunch, TypeInv, Typed, QueueTyped, PerChannel
  <1>6. ASSUME NEW s \in Ep, NEW a \in Channels, OverflowReliableBuffer(s, a)
        PROVE  /\ OutBunchQueue'[e] = OutBunchQueue[e] /\ OutUnAcked'[e] = OutUnAcked[e]
               /\ sealed'[e] = sealed[e]
    <2>1. s # e
      BY <1>6 DEF OverflowReliableBuffer, Close, TypeInv, Typed, CtlTyped
    <2> QED BY <1>6, <2>1 DEF OverflowReliableBuffer, TypeInv, Typed, QueueTyped, PerChannel
  <1>7. ASSUME NEW s \in Ep, NEW a \in Channels, s # e,
               NEW id \in DOMAIN OutUnAcked[s][a], ForceRetransmit(s, a, id)
        PROVE  /\ OutBunchQueue'[e] = OutBunchQueue[e] /\ OutUnAcked'[e] = OutUnAcked[e]
               /\ sealed'[e] = sealed[e]
    BY <1>7 DEF ForceRetransmit, TypeInv, Typed, QueueTyped, PerChannel
  <1> QED BY <1>1, <1>2, <1>3, <1>4, <1>5, <1>6, <1>7, QueuesQuiet

\* No step loses a bunch.
LEMMA AccountedStep ==
  ASSUME TypeInv, Numbered, [Next]_vars, NEW e \in Ep, AlignedOf(e), HeadersOf(e),
         ReadOf(Peer(e)), ChargedOf(e), AccountedOf(e)
  PROVE  AccountedOf(e)'
  <1> SUFFICES ASSUME ~ closed'[e], ~ closed'[Peer(e)] PROVE AccountedOf(e)'
    BY DEF AccountedOf, Peer
  <1>1. Peer(e) \in Ep
    BY PeerType
  <1>2. ~ closed[e] /\ ~ closed[Peer(e)]
    BY <1>1, ClosedStays
  <1>3. ASSUME NEW c \in Channels, NEW b \in Held(e, c)
        PROVE  b \in Held(e, c)' \/ IsDiscarded(b) \/ HasArrived(Peer(e), b)
    <2>1. CASE HandlePacketNotification(e)
      BY <1>2, <2>1, NotificationHeld
    <2>2. CASE TickChannels(e)
      BY <2>2, TickHeld
    <2>3. CASE \E a \in Channels : \/ DiscardBunch(e, a) \/ PackBunch(e, a)
                                  \/ \E id \in DOMAIN OutUnAcked[e][a] : ForceRetransmit(e, a, id)
      BY <2>3, QueueHeld
    <2>4. CASE OutBunchQueue'[e] = OutBunchQueue[e] /\ OutUnAcked'[e] = OutUnAcked[e]
      BY <2>4 DEF Held
    <2> QED BY <2>1, <2>2, <2>3, <2>4, HeldQuiet
  <1>4. ASSUME NEW c \in Channels
        PROVE  Elements(sealed'[e][c]) \subseteq Elements(sealed[e][c]) \union Held(e, c)'
    <2>1. CASE TickChannels(e)
      BY <2>1, TickHeld
    <2>2. CASE ~ TickChannels(e)
      <3>1. CASE UNCHANGED sealed
        BY <3>1
      <3>2. CASE \E s \in Ep : TickChannels(s)
        BY <2>2, <3>2 DEF TickChannels, TypeInv, Typed, SealedTyped, PerChannel
      <3> QED BY <3>1, <3>2, SealedGrows
    <2> QED BY <2>1, <2>2
  <1>5. ASSUME NEW c \in Channels, NEW b \in Elements(sealed[e][c]), HasArrived(Peer(e), b)
        PROVE  HasArrived(Peer(e), b)'
    <2>1. b.ch = c
      BY <1>5, SealedTypes DEF Numbered, Elements
    <2> QED BY <1>1, <1>5, <2>1, ArrivedStays
  <1>6. ASSUME NEW c \in Channels, NEW b \in Elements(sealed'[e][c])
        PROVE  b \in Held(e, c)' \/ IsDiscarded(b) \/ HasArrived(Peer(e), b)'
    <2>1. CASE b \in Held(e, c)'
      BY <2>1
    <2>2. CASE b \in Elements(sealed[e][c])
      <3>1. IsDiscarded(b) \/ b \in Held(e, c) \/ HasArrived(Peer(e), b)
        BY <1>2, <2>2 DEF AccountedOf, Held
      <3>2. CASE HasArrived(Peer(e), b)
        BY <1>5, <2>2, <3>2
      <3>3. CASE b \in Held(e, c)
        BY <1>3, <1>5, <2>2, <3>3
      <3> QED BY <3>1, <3>2, <3>3
    <2> QED BY <1>4, <1>6, <2>1, <2>2
  <1> QED BY <1>6 DEF AccountedOf, Held, Peer

\* The whole invariant behind NoBunchLost.
LossInv ==
    /\ OrderInv /\ AckInv /\ PackedInv
    /\ \A e \in Ep : CoveredOf(e) /\ ReadOf(e) /\ HeadersOf(e) /\ ChargedOf(e) /\ AccountedOf(e)

\* The windows the argument needs: of channel numbers, of sequence numbers received and
\* in flight, and of datagrams that may still arrive.
LossWindows == InWindow /\ AckWindow /\ InFlightWindow /\ FreshNumbers

\* Every step keeps the invariant.
LEMMA LossStep ==
  ASSUME UnitsFit, LossInv, LossWindows, LossWindows', [Next]_vars PROVE LossInv'
  <1>1. /\ OrderInv /\ AckInv /\ PackedInv /\ TypeInv /\ Numbered
        /\ InWindow /\ AckWindow /\ AckWindow' /\ InFlightWindow /\ FreshNumbers
    BY DEF LossInv, LossWindows, OrderInv
  <1>2. OrderInv' /\ AckInv' /\ PackedInv'
    BY <1>1, OrderStep, AckInvStep, PackedStep
  <1>3. ASSUME NEW e \in Ep
        PROVE  /\ CoveredOf(e) /\ ReadOf(e) /\ HeadersOf(e) /\ ChargedOf(e) /\ AccountedOf(e)
               /\ ReadOf(Peer(e)) /\ AlignedOf(e)
    BY <1>1, PeerType DEF LossInv, PackedInv, AlignInv
  <1>4. ASSUME NEW e \in Ep PROVE CoveredOf(e)'
    BY <1>1, <1>3, CoveredStep
  <1>5. ASSUME NEW e \in Ep PROVE ReadOf(e)'
    BY <1>1, <1>3, ReadStep
  <1>6. ASSUME NEW e \in Ep PROVE HeadersOf(e)'
    BY <1>1, <1>3, HeadersStep
  <1>7. ASSUME NEW e \in Ep PROVE ChargedOf(e)'
    BY <1>1, <1>3, ChargedStep
  <1>8. ASSUME NEW e \in Ep PROVE AccountedOf(e)'
    BY <1>1, <1>3, AccountedStep
  <1> QED BY <1>2, <1>4, <1>5, <1>6, <1>7, <1>8 DEF LossInv

\* At the start nothing is sealed, charged, sent or read.
LEMMA InitLoss == Init => LossInv
  <1> SUFFICES ASSUME Init PROVE LossInv
    OBVIOUS
  <1>1. OrderInv /\ AckInv /\ PackedInv
    BY InitOrder, InitAcked, InitPacked
  <1>2. ASSUME NEW e \in Ep
        PROVE  /\ CoveredOf(e) /\ ReadOf(e) /\ HeadersOf(e) /\ ChargedOf(e) /\ AccountedOf(e)
    <2>1. /\ Pending[e] = << >> /\ dispatched[e] = {} /\ net[e] = {} /\ notes[e] = << >>
          /\ \A c \in Channels : DOMAIN OutUnAcked[e][c] = {} /\ sealed[e][c] = << >>
      BY DEF Init, EmptyMap
    <2>2. DOMAIN << >> = {}
      OBVIOUS
    <2> QED BY <2>1, <2>2 DEF CoveredOf, ReadOf, HeadersOf, ChargedOf, AccountedOf, Elements
  <1> QED BY <1>1, <1>2 DEF LossInv

\* What a channel holds is queued or in a packet whose fate is still open.
LEMMA LossImpliesNoBunchLost == LossInv => NoBunchLost
  <1> SUFFICES ASSUME LossInv, NEW e \in Ep, NEW c \in Channels, ~ closed[e],
                      ~ closed[Peer(e)], NEW b \in Elements(sealed[e][c])
               PROVE  \/ IsDiscarded(b) \/ IsQueued(e, b) \/ IsInFlight(e, b)
                      \/ HasArrived(Peer(e), b)
    BY DEF NoBunchLost
  <1>1. \/ IsDiscarded(b) \/ HasArrived(Peer(e), b)
        \/ b \in HeldIn(OutBunchQueue[e][c], OutUnAcked[e][c])
    BY DEF LossInv, AccountedOf
  <1>2. b.ch = c
    BY SealedTypes DEF LossInv, OrderInv, Numbered, Elements
  <1>3. \A x \in DOMAIN OutUnAcked[e][c] : LastNotified[e] < x /\ x > LastNotified[e]
    <2>1. DOMAIN OutUnAcked[e][c] \subseteq Int /\ LastNotified[e] \in Int
      BY HeldTypes, MapValue, ReadyType DEF LossInv, OrderInv
    <2>2. \A x \in DOMAIN OutUnAcked[e][c] : LastNotified[e] < x
      BY DEF LossInv, CoveredOf
    <2> QED BY <2>1, <2>2
  <1> QED BY <1>1, <1>2, <1>3 DEF HeldIn, IsQueued, IsInFlight

\* For all sizes, buffers and amounts of traffic, as long as the windows hold: whatever is
\* lost, duplicated, reordered, reported late or dropped by a flush, a bunch that packets
\* take is waiting to be sent, is in a packet that will still be reported on, or has
\* reached the other side.
THEOREM NoBunchLostInWindows ==
  ASSUME UnitsFit
  PROVE  Spec /\ []LossWindows => []NoBunchLost
  <1>1. Init => LossInv
    BY InitLoss
  <1>2. LossInv /\ LossWindows /\ LossWindows' /\ [Next]_vars => LossInv'
    BY LossStep
  <1>3. LossInv => NoBunchLost
    BY LossImpliesNoBunchLost
  <1> QED BY <1>1, <1>2, <1>3, PTL DEF Spec
=============================================================================
