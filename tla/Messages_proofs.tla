--------------------------- MODULE Messages_proofs ---------------------------
(***************************************************************************)
(* The types of Messages, that every message is in one bunch and reaches   *)
(* the application in order, and that buffers are released after their     *)
(* last use.                                                               *)
(*                                                                         *)
(* The order is a statement about flattened sequences.  FlattenSeq chooses *)
(* a recursive function; that it exists, and what it returns for a longer  *)
(* sequence, follows by induction, which the library offers here only as   *)
(* the existence of a least element (LeastElement).  The rest is algebra:  *)
(* inserting a message, dropping one that fits nowhere and sealing a bunch *)
(* keep the small messages of bunches, bunch under construction and queue, *)
(* in this order (Ordered).  Each step of a channel is a sequence of these *)
(* three (PlaceMessage, TakeOutcome, FlushOutcome) and changes no other    *)
(* channel (Quiet).                                                        *)
(*                                                                         *)
(* For the buffers, no message has two places in a channel (Apart), none   *)
(* has two channels (Alone), and one that was released was in a discarded  *)
(* bunch (Freed), which nothing refers to any more (ReferencedStays).      *)
(***************************************************************************)
EXTENDS Messages, SequenceTheorems, FiniteSetTheorems, WellFoundedInduction, TLAPS

-----------------------------------------------------------------------------
(* Induction over a set, and what FlattenSeq returns.                      *)

\* A set of natural numbers that is not empty has a least element.
LEMMA LeastElement ==
  ASSUME NEW T, T \subseteq Nat, T # {}
  PROVE  \E m \in T : \A n \in T : m <= n
<1> DEFINE R == {e \in Nat \X Nat : e[1] < e[2]}
<1>1. IsWellFoundedOn(R, Nat)
  BY NatLessThanWellFounded DEF OpToRel
<1>2. PICK m \in T : \A n \in T : << n, m >> \notin R
  BY <1>1, WFMin
<1>3. \A a, b \in Nat : a < b => << a, b >> \in R
  OBVIOUS
<1>4. \A n \in T : m \in Nat /\ n \in Nat /\ ~(n < m)
  BY <1>2, <1>3
<1> HIDE DEF R
<1> QED
  BY <1>4

\* A set with zero and the successors of its numbers has all numbers.
LEMMA SetInduction ==
  ASSUME NEW T, 0 \in T, \A n \in Nat : n \in T => n + 1 \in T
  PROVE  \A n \in Nat : n \in T
<1>1. SUFFICES ASSUME NEW k \in Nat, k \notin T PROVE FALSE
  OBVIOUS
<1> DEFINE U == {n \in Nat : n \notin T}
<1>2. PICK m \in U : \A n \in U : m <= n
  BY <1>1, LeastElement
<1>3. m \in Nat \ {0} /\ m \notin T
  OBVIOUS
<1>4. m - 1 \in Nat /\ m - 1 \notin U
  BY <1>2, <1>3
<1> QED
  BY <1>3, <1>4

\* The same for sequences and Append.
LEMMA AppendInduction ==
  ASSUME NEW S, NEW T, << >> \in T, \A s \in Seq(S), x \in S : s \in T => Append(s, x) \in T
  PROVE  \A s \in Seq(S) : s \in T
<1> DEFINE U == {n \in Nat : \A s \in Seq(S) : Len(s) = n => s \in T}
<1>1. 0 \in U
  OBVIOUS
<1>2. ASSUME NEW n \in Nat, n \in U PROVE n + 1 \in U
  <2>1. ASSUME NEW s \in Seq(S), Len(s) = n + 1 PROVE s \in T
    <3>1. PICK t \in Seq(S), x \in S : s = Append(t, x)
      BY <2>1, SequenceEmptyOrAppend
    <3>2. Len(t) = n
      BY <2>1, <3>1
    <3> QED
      BY <1>2, <3>1, <3>2
  <2> QED
    BY <2>1
<1>3. \A n \in Nat : n \in U
  <2> HIDE DEF U
  <2> QED
    BY <1>1, <1>2, SetInduction
<1> QED
  BY <1>3

\* The function that FlattenSeq chooses, and its recursion.
IsFlattening(s, f) == f = [i \in 1 .. Len(s) |-> IF i = 1 THEN s[i] ELSE f[i - 1] \o s[i]]

Flattens(s, f, n) == \A i \in 1 .. n : f[i] = IF i = 1 THEN s[1] ELSE f[i - 1] \o s[i]

LEMMA FlatteningExists ==
  ASSUME NEW S, NEW s \in Seq(Seq(S))
  PROVE  \E f : IsFlattening(s, f)
<1> DEFINE T == {n \in Nat : n <= Len(s) => \E f \in [1 .. n -> Seq(S)] : Flattens(s, f, n)}
<1>1. 0 \in T
  <2>1. [i \in 1 .. 0 |-> << >>] \in [1 .. 0 -> Seq(S)]
    OBVIOUS
  <2>2. Flattens(s, [i \in 1 .. 0 |-> << >>], 0)
    BY DEF Flattens
  <2> QED
    BY <2>1, <2>2
<1>2. ASSUME NEW n \in Nat, n \in T, n + 1 <= Len(s)
      PROVE  \E f \in [1 .. n + 1 -> Seq(S)] : Flattens(s, f, n + 1)
  <2>1. PICK g \in [1 .. n -> Seq(S)] : Flattens(s, g, n)
    BY <1>2
  <2>f. PICK f : f = [i \in 1 .. n + 1 |-> IF i <= n THEN g[i]
                                          ELSE IF n = 0 THEN s[1] ELSE g[n] \o s[n + 1]]
    OBVIOUS
  <2>2. s[n + 1] \in Seq(S)
    BY <1>2
  <2>3. n # 0 => g[n] \in Seq(S) /\ g[n] \o s[n + 1] \in Seq(S)
    BY <2>2
  <2>4. f \in [1 .. n + 1 -> Seq(S)]
    BY <2>f, <2>2, <2>3
  <2>5. ASSUME NEW i \in 1 .. n + 1 PROVE f[i] = IF i = 1 THEN s[1] ELSE f[i - 1] \o s[i]
    <3>1. CASE i <= n
      <4>1. f[i] = g[i]
        BY <2>f, <3>1
      <4>2. i # 1 => i - 1 \in 1 .. n + 1 /\ i - 1 <= n /\ f[i - 1] = g[i - 1]
        BY <2>f, <3>1
      <4>3. i \in 1 .. n
        BY <3>1
      <4>4. g[i] = IF i = 1 THEN s[1] ELSE g[i - 1] \o s[i]
        BY <2>1, <4>3 DEF Flattens
      <4> QED
        BY <4>1, <4>2, <4>4
    <3>2. CASE i = n + 1
      <4>1. f[i] = IF n = 0 THEN s[1] ELSE g[n] \o s[n + 1]
        BY <2>f, <3>2
      <4>2. n # 0 => f[i - 1] = g[n]
        BY <2>f, <3>2
      <4> QED
        BY <3>2, <4>1, <4>2
    <3> QED
      BY <3>1, <3>2
  <2> QED
    BY <2>4, <2>5 DEF Flattens
<1>3. \A n \in Nat : n \in T
  <2>1. \A n \in Nat : n \in T => n + 1 \in T
    BY <1>2
  <2> HIDE DEF T
  <2> QED
    BY <1>1, <2>1, SetInduction
<1>4. PICK f \in [1 .. Len(s) -> Seq(S)] : Flattens(s, f, Len(s))
  BY <1>3
<1>5. f = [i \in 1 .. Len(s) |-> IF i = 1 THEN s[i] ELSE f[i - 1] \o s[i]]
  BY <1>4 DEF Flattens
<1> QED
  BY <1>5 DEF IsFlattening

LEMMA FlattenRecursion ==
  ASSUME NEW S, NEW s \in Seq(Seq(S)), s # << >>
  PROVE  \E f : Flattens(s, f, Len(s)) /\ FlattenSeq(s) = f[Len(s)]
<1>1. \E f : IsFlattening(s, f)
  BY FlatteningExists
<1> DEFINE f == CHOOSE f : IsFlattening(s, f)
<1>2. IsFlattening(s, f)
  BY <1>1
<1>3. FlattenSeq(s) = f[Len(s)]
  BY DEF FlattenSeq, IsFlattening
<1> HIDE DEF f
<1>4. Flattens(s, f, Len(s))
  BY <1>2 DEF IsFlattening, Flattens
<1> QED
  BY <1>3, <1>4

\* Two sequences that agree so far are flattened alike so far.
LEMMA FlattensAgree ==
  ASSUME NEW s, NEW t, NEW f, NEW g, NEW n \in Nat,
         Flattens(s, f, n), Flattens(t, g, n), \A i \in 1 .. n : s[i] = t[i]
  PROVE  n # 0 => f[n] = g[n]
<1> DEFINE T == {k \in Nat : k \in 1 .. n => f[k] = g[k]}
<1>1. 0 \in T
  OBVIOUS
<1>2. ASSUME NEW k \in Nat, k \in T, k + 1 \in 1 .. n PROVE f[k + 1] = g[k + 1]
  <2>1. /\ f[k + 1] = IF k + 1 = 1 THEN s[1] ELSE f[k + 1 - 1] \o s[k + 1]
        /\ g[k + 1] = IF k + 1 = 1 THEN t[1] ELSE g[k + 1 - 1] \o t[k + 1]
    BY <1>2 DEF Flattens
  <2>2. k + 1 - 1 = k /\ s[k + 1] = t[k + 1] /\ 1 \in 1 .. n /\ s[1] = t[1]
    BY <1>2
  <2>3. k + 1 # 1 => f[k] = g[k]
    BY <1>2
  <2> QED
    BY <2>1, <2>2, <2>3
<1>3. \A k \in Nat : k \in T
  <2>1. \A k \in Nat : k \in T => k + 1 \in T
    BY <1>2
  <2> HIDE DEF T
  <2> QED
    BY <1>1, <2>1, SetInduction
<1> QED
  BY <1>3

LEMMA FlattensType ==
  ASSUME NEW S, NEW s \in Seq(Seq(S)), NEW f, NEW n \in Nat, n <= Len(s), Flattens(s, f, n)
  PROVE  \A i \in 1 .. n : f[i] \in Seq(S)
<1> DEFINE T == {k \in Nat : k \in 1 .. n => f[k] \in Seq(S)}
<1>1. 0 \in T
  OBVIOUS
<1>2. ASSUME NEW k \in Nat, k \in T, k + 1 \in 1 .. n PROVE f[k + 1] \in Seq(S)
  <2>1. f[k + 1] = IF k + 1 = 1 THEN s[1] ELSE f[k + 1 - 1] \o s[k + 1]
    BY <1>2 DEF Flattens
  <2>2. k + 1 - 1 = k /\ s[k + 1] \in Seq(S) /\ s[1] \in Seq(S)
    BY <1>2
  <2>3. k + 1 # 1 => f[k] \in Seq(S)
    BY <1>2
  <2> QED
    BY <2>1, <2>2, <2>3
<1>3. \A k \in Nat : k \in T
  <2>1. ASSUME NEW k \in Nat, k \in T PROVE k + 1 \in T
    <3>1. k + 1 \in 1 .. n => f[k + 1] \in Seq(S)
      BY <1>2, <2>1
    <3> QED
      BY <3>1
  <2> HIDE DEF T
  <2> QED
    BY <1>1, <2>1, SetInduction
<1> QED
  BY <1>3

LEMMA FlattenEmpty == FlattenSeq(<< >>) = << >>
BY DEF FlattenSeq

LEMMA FlattenType ==
  ASSUME NEW S, NEW s \in Seq(Seq(S))
  PROVE  FlattenSeq(s) \in Seq(S)
<1>1. CASE s = << >>
  <2>1. << >> \in Seq(S)
    OBVIOUS
  <2> QED
    BY <1>1, <2>1, FlattenEmpty
<1>2. CASE s # << >>
  <2>1. PICK f : Flattens(s, f, Len(s)) /\ FlattenSeq(s) = f[Len(s)]
    BY <1>2, FlattenRecursion
  <2>2. Len(s) \in 1 .. Len(s) /\ Len(s) \in Nat /\ Len(s) <= Len(s)
    BY <1>2
  <2> QED
    BY <2>1, <2>2, FlattensType
<1> QED
  BY <1>1, <1>2

LEMMA FlattenAppend ==
  ASSUME NEW S, NEW s \in Seq(Seq(S)), NEW x \in Seq(S)
  PROVE  FlattenSeq(Append(s, x)) = FlattenSeq(s) \o x
<1>1. PICK t : t = Append(s, x)
  OBVIOUS
<1>2. /\ t \in Seq(Seq(S)) /\ t # << >> /\ Len(t) = Len(s) + 1 /\ Len(s) \in Nat
      /\ t[Len(s) + 1] = x /\ \A i \in 1 .. Len(s) : t[i] = s[i]
  BY <1>1, AppendProperties
<1>3. PICK g : Flattens(t, g, Len(t)) /\ FlattenSeq(t) = g[Len(t)]
  BY <1>2, FlattenRecursion
<1>4. CASE s = << >>
  <2>1. Len(t) = 1 /\ g[1] = t[1] /\ t[1] = x
    BY <1>2, <1>3, <1>4 DEF Flattens
  <2>2. << >> \o x = x
    OBVIOUS
  <2> QED
    BY <1>1, <1>3, <1>4, <2>1, <2>2, FlattenEmpty
<1>5. CASE s # << >>
  <2>1. PICK f : Flattens(s, f, Len(s)) /\ FlattenSeq(s) = f[Len(s)]
    BY <1>5, FlattenRecursion
  <2>2. PICK n \in Nat \ {0} : n = Len(s)
    BY <1>5
  <2>3. /\ Flattens(t, g, n + 1) /\ FlattenSeq(t) = g[n + 1] /\ t[n + 1] = x
        /\ Flattens(s, f, n) /\ FlattenSeq(s) = f[n] /\ \A i \in 1 .. n : t[i] = s[i]
    BY <1>2, <1>3, <2>1, <2>2
  <2>4. Flattens(t, g, n)
    BY <2>3 DEF Flattens
  <2>5. g[n] = f[n]
    <3>1. Flattens(s, f, n) /\ \A i \in 1 .. n : t[i] = s[i]
      BY <2>3
    <3>2. n \in Nat /\ n # 0
      OBVIOUS
    <3> QED
      BY <2>4, <3>1, <3>2, FlattensAgree
  <2>6. g[n + 1] = g[n] \o t[n + 1]
    <3>1. PICK k : k = n + 1
      OBVIOUS
    <3>2. \A i \in 1 .. k : g[i] = IF i = 1 THEN t[1] ELSE g[i - 1] \o t[i]
      BY <2>3, <3>1 DEF Flattens
    <3>3. k \in 1 .. k /\ k # 1
      BY <3>1
    <3>4. g[k] = g[k - 1] \o t[k]
      BY <3>2, <3>3, Zenon
    <3>5. k - 1 = n
      BY <3>1
    <3> QED
      BY <3>1, <3>4, <3>5
  <2> QED
    BY <1>1, <2>3, <2>5, <2>6
<1> QED
  BY <1>4, <1>5

LEMMA FlattenConcat ==
  ASSUME NEW S, NEW s \in Seq(Seq(S)), NEW t \in Seq(Seq(S))
  PROVE  FlattenSeq(s \o t) = FlattenSeq(s) \o FlattenSeq(t)
<1> DEFINE T == {u \in Seq(Seq(S)) : FlattenSeq(s \o u) = FlattenSeq(s) \o FlattenSeq(u)}
<1>1. << >> \in T
  <2>1. << >> \in Seq(Seq(S)) /\ s \o << >> = s
    OBVIOUS
  <2>2. FlattenSeq(s) \in Seq(S)
    BY FlattenType
  <2>3. FlattenSeq(s) \o << >> = FlattenSeq(s)
    BY <2>2
  <2> QED
    BY <2>1, <2>3, FlattenEmpty
<1>2. ASSUME NEW u \in Seq(Seq(S)), NEW x \in Seq(S), u \in T PROVE Append(u, x) \in T
  <2>1. s \o Append(u, x) = Append(s \o u, x) /\ s \o u \in Seq(Seq(S))
    OBVIOUS
  <2>2. /\ FlattenSeq(Append(s \o u, x)) = FlattenSeq(s \o u) \o x
        /\ FlattenSeq(Append(u, x)) = FlattenSeq(u) \o x
    BY <2>1, FlattenAppend
  <2>3. FlattenSeq(s) \in Seq(S) /\ FlattenSeq(u) \in Seq(S)
    BY FlattenType
  <2>4. (FlattenSeq(s) \o FlattenSeq(u)) \o x = FlattenSeq(s) \o (FlattenSeq(u) \o x)
    BY <2>3, ConcatAssociative
  <2>5. Append(u, x) \in Seq(Seq(S))
    OBVIOUS
  <2> QED
    BY <1>2, <2>1, <2>2, <2>4, <2>5
<1>3. \A u \in Seq(Seq(S)) : u \in T
  <2> HIDE DEF T
  <2> QED
    BY <1>1, <1>2, AppendInduction
<1> QED
  BY <1>3

\* The first elements flatten to the first part.
LEMMA FlattenPrefix ==
  ASSUME NEW S, NEW s \in Seq(Seq(S)), NEW r \in 0 .. Len(s)
  PROVE  /\ [i \in 1 .. r |-> s[i]] \in Seq(Seq(S))
         /\ \E u \in Seq(S) : FlattenSeq(s) = FlattenSeq([i \in 1 .. r |-> s[i]]) \o u
<1>1. PICK n \in Nat : n = Len(s)
  OBVIOUS
<1>2. PICK p : p = [i \in 1 .. r |-> s[i]]
  OBVIOUS
<1>3. PICK q : q = [i \in 1 .. n - r |-> s[r + i]]
  OBVIOUS
<1>4. p \in Seq(Seq(S)) /\ Len(p) = r /\ q \in Seq(Seq(S)) /\ Len(q) = n - r
  BY <1>1, <1>2, <1>3
<1>5. s = p \o q
  <2>1. Len(p \o q) = n /\ p \o q \in Seq(Seq(S))
    <3>1. Len(p \o q) = r + (n - r) /\ p \o q \in Seq(Seq(S))
      BY <1>4, ConcatProperties
    <3>2. r + (n - r) = n
      BY <1>1
    <3> QED
      BY <3>1, <3>2
  <2>2. ASSUME NEW i \in 1 .. n PROVE s[i] = (p \o q)[i]
    <3>1. CASE i <= r
      BY <1>1, <1>2, <1>4, <3>1
    <3>2. CASE ~(i <= r)
      <4>1. (p \o q)[i] = q[i - r] /\ i - r \in 1 .. n - r
        BY <1>1, <1>4, <3>2
      <4>2. q[i - r] = s[r + (i - r)] /\ r + (i - r) = i
        BY <1>3, <4>1
      <4> QED
        BY <4>1, <4>2
    <3> QED
      BY <3>1, <3>2
  <2> QED
    BY <1>1, <2>1, <2>2, SeqEqual
<1>6. FlattenSeq(s) = FlattenSeq(p) \o FlattenSeq(q) /\ FlattenSeq(q) \in Seq(S)
  BY <1>4, <1>5, FlattenConcat, FlattenType
<1> QED
  BY <1>2, <1>4, <1>6
-----------------------------------------------------------------------------
(* The small messages of a sequence.                                       *)

Piece(m) == IF Small(m) THEN << m >> ELSE << >>
Pieces(s) == [i \in DOMAIN s |-> Piece(s[i])]

LEMMA PieceType ==
  ASSUME NEW S, NEW m \in S
  PROVE  Piece(m) \in Seq(S)
BY DEF Piece

LEMMA PiecesType ==
  ASSUME NEW S, NEW s \in Seq(S)
  PROVE  Pieces(s) \in Seq(Seq(S)) /\ SmallOf(s) = FlattenSeq(Pieces(s))
<1>1. \A i \in DOMAIN s : Piece(s[i]) \in Seq(S)
  BY PieceType
<1>2. DOMAIN s = 1 .. Len(s) /\ Len(s) \in Nat
  OBVIOUS
<1>3. Pieces(s) \in Seq(Seq(S))
  BY <1>1, <1>2 DEF Pieces
<1>4. SmallOf(s) = FlattenSeq(Pieces(s))
  BY DEF SmallOf, Pieces, Piece
<1> QED
  BY <1>3, <1>4

LEMMA SmallOfType ==
  ASSUME NEW S, NEW s \in Seq(S)
  PROVE  SmallOf(s) \in Seq(S)
BY PiecesType, FlattenType

LEMMA SmallOfAppend ==
  ASSUME NEW S, NEW s \in Seq(S), NEW m \in S
  PROVE  SmallOf(Append(s, m)) = SmallOf(s) \o Piece(m)
<1>1. PICK n \in Nat : n = Len(s)
  OBVIOUS
<1>2. PICK t : t = Append(s, m)
  OBVIOUS
<1>3. /\ t \in Seq(S) /\ Len(t) = n + 1 /\ DOMAIN t = 1 .. n + 1 /\ DOMAIN s = 1 .. n
      /\ t[n + 1] = m /\ \A i \in 1 .. n : t[i] = s[i]
  BY <1>1, <1>2
<1>4. Pieces(s) \in Seq(Seq(S)) /\ Pieces(t) \in Seq(Seq(S)) /\ Piece(m) \in Seq(S)
  BY <1>3, PiecesType, PieceType
<1>5. DOMAIN Pieces(s) = 1 .. n /\ DOMAIN Pieces(t) = 1 .. n + 1
  BY <1>3 DEF Pieces
<1>6. Len(Pieces(s)) = n /\ Len(Pieces(t)) = n + 1
  BY <1>4, <1>5
<1>7. Pieces(t) = Append(Pieces(s), Piece(m))
  <2>1. PICK u : u = Append(Pieces(s), Piece(m))
    OBVIOUS
  <2>2. /\ u \in Seq(Seq(S)) /\ Len(u) = n + 1 /\ u[n + 1] = Piece(m)
        /\ \A i \in 1 .. n : u[i] = Pieces(s)[i]
    BY <1>4, <1>6, <2>1, AppendProperties
  <2>3. ASSUME NEW i \in 1 .. n + 1 PROVE Pieces(t)[i] = u[i]
    <3>1. Pieces(t)[i] = Piece(t[i])
      BY <1>3 DEF Pieces
    <3>2. CASE i = n + 1
      BY <1>3, <2>2, <3>1, <3>2
    <3>3. CASE i # n + 1
      <4>1. i \in 1 .. n
        BY <3>3
      <4>2. Pieces(s)[i] = Piece(s[i])
        BY <1>3, <4>1 DEF Pieces
      <4> QED
        BY <1>3, <2>2, <3>1, <4>1, <4>2
    <3> QED
      BY <3>2, <3>3
  <2> QED
    BY <1>4, <1>6, <2>1, <2>2, <2>3, SeqEqual
<1>8. FlattenSeq(Pieces(t)) = FlattenSeq(Pieces(s)) \o Piece(m)
  BY <1>4, <1>7, FlattenAppend
<1> QED
  BY <1>2, <1>3, <1>8, PiecesType

LEMMA SmallOfEmpty == SmallOf(<< >>) = << >>
<1>1. Pieces(<< >>) = << >>
  BY DEF Pieces
<1> QED
  BY <1>1, FlattenEmpty DEF SmallOf, Pieces, Piece

LEMMA SmallOfConcat ==
  ASSUME NEW S, NEW s \in Seq(S), NEW t \in Seq(S)
  PROVE  SmallOf(s \o t) = SmallOf(s) \o SmallOf(t)
<1> DEFINE T == {u \in Seq(S) : SmallOf(s \o u) = SmallOf(s) \o SmallOf(u)}
<1>1. << >> \in T
  <2>1. << >> \in Seq(S) /\ s \o << >> = s
    OBVIOUS
  <2>2. SmallOf(s) \o << >> = SmallOf(s)
    BY SmallOfType
  <2> QED
    BY <2>1, <2>2, SmallOfEmpty
<1>2. ASSUME NEW u \in Seq(S), NEW m \in S, u \in T PROVE Append(u, m) \in T
  <2>1. s \o Append(u, m) = Append(s \o u, m) /\ s \o u \in Seq(S)
    OBVIOUS
  <2>2. /\ SmallOf(Append(s \o u, m)) = SmallOf(s \o u) \o Piece(m)
        /\ SmallOf(Append(u, m)) = SmallOf(u) \o Piece(m)
    BY <2>1, SmallOfAppend
  <2>3. SmallOf(s) \in Seq(S) /\ SmallOf(u) \in Seq(S) /\ Piece(m) \in Seq(S)
    BY SmallOfType, PieceType
  <2>4. (SmallOf(s) \o SmallOf(u)) \o Piece(m) = SmallOf(s) \o (SmallOf(u) \o Piece(m))
    BY <2>3, ConcatAssociative
  <2>5. Append(u, m) \in Seq(S)
    OBVIOUS
  <2> QED
    BY <1>2, <2>1, <2>2, <2>4, <2>5
<1>3. \A u \in Seq(S) : u \in T
  <2> HIDE DEF T
  <2> QED
    BY <1>1, <1>2, AppendInduction
<1> QED
  BY <1>3

\* If all are small, they are all there.
LEMMA SmallOfSmall ==
  ASSUME NEW S, NEW s \in Seq(S), \A i \in 1 .. Len(s) : Small(s[i])
  PROVE  SmallOf(s) = s
<1> DEFINE T == {u \in Seq(S) : (\A i \in 1 .. Len(u) : Small(u[i])) => SmallOf(u) = u}
<1>1. << >> \in T
  BY SmallOfEmpty
<1>2. ASSUME NEW u \in Seq(S), NEW m \in S, u \in T,
             \A i \in 1 .. Len(Append(u, m)) : Small(Append(u, m)[i])
      PROVE  SmallOf(Append(u, m)) = Append(u, m)
  <2>1. PICK n \in Nat : n = Len(u)
    OBVIOUS
  <2>2. PICK v : v = Append(u, m)
    OBVIOUS
  <2>3. Len(v) = n + 1 /\ v[n + 1] = m /\ \A i \in 1 .. n : v[i] = u[i]
    BY <2>1, <2>2, AppendProperties
  <2>4. \A i \in 1 .. n + 1 : Small(v[i])
    BY <1>2, <2>2, <2>3
  <2>5. n + 1 \in 1 .. n + 1 /\ \A i \in 1 .. n : i \in 1 .. n + 1
    OBVIOUS
  <2>6. Small(m) /\ \A i \in 1 .. n : Small(u[i])
    BY <2>3, <2>4, <2>5
  <2>7. SmallOf(u) = u /\ Piece(m) = << m >>
    BY <1>2, <2>1, <2>6 DEF Piece
  <2>8. SmallOf(Append(u, m)) = u \o << m >>
    BY <2>7, SmallOfAppend
  <2> QED
    BY <2>8, AppendIsConcat
<1>3. \A u \in Seq(S) : u \in T
  <2>1. ASSUME NEW u \in Seq(S), NEW m \in S, u \in T PROVE Append(u, m) \in T
    <3>1. Append(u, m) \in Seq(S)
      OBVIOUS
    <3>2. (\A i \in 1 .. Len(Append(u, m)) : Small(Append(u, m)[i])) => SmallOf(Append(u, m)) = Append(u, m)
      BY <1>2, <2>1
    <3> QED
      BY <3>1, <3>2
  <2> HIDE DEF T
  <2> QED
    BY <1>1, <2>1, AppendInduction
<1> QED
  BY <1>3
-----------------------------------------------------------------------------
(* One channel: its queue q, the bunch a under construction, the bunches   *)
(* ms made, the numbers o ready to be sent, and the messages g it was      *)
(* given.  Three things happen to it: the first message of the queue moves *)
(* into the bunch under construction, is dropped, or the bunch is sealed.  *)

SmallOnly(s) == \A i \in 1 .. Len(s) : Small(s[i])

\* Types, and what a bunch holds: small messages, as many as it counts.
Typed(q, a, ms, o) ==
  /\ q \in Seq(Messages) /\ a \in Collections /\ ms \in Seq(Bunches)
  /\ o \in Seq(1 .. Len(ms))
  /\ Len(a.msgs) <= MaxMsgsPerBunch /\ SmallOnly(a.msgs)
  /\ \A k \in 1 .. Len(ms) : ms[k].count = Len(ms[k].msgs) /\ SmallOnly(ms[k].msgs)

\* Each small message has one place, in the order of submission.
InBunches(ms) == FlattenSeq([k \in DOMAIN ms |-> ms[k].msgs])
Held(q, a, ms) == InBunches(ms) \o a.msgs \o q
Ordered(q, a, ms, g) == g \in Seq(Messages) /\ SmallOf(Held(q, a, ms)) = SmallOf(g)

\* No message is in two places.
Apart(q, a, ms) ==
  /\ \A i, j \in 1 .. Len(q) : q[i].id = q[j].id => i = j
  /\ Ids(q) \cap Ids(a.msgs) = {}
  /\ \A k \in 1 .. Len(ms) : Ids(ms[k].msgs) \cap (Ids(q) \cup Ids(a.msgs)) = {}
  /\ \A k, l \in 1 .. Len(ms) : k # l => Ids(ms[k].msgs) \cap Ids(ms[l].msgs) = {}

\* A bunch is ready once or waits for an acknowledgement, and what is discarded
\* was never sent.
Numbers(ms, o, u, tr, ar) ==
  /\ \A i, j \in 1 .. Len(o) : o[i] = o[j] => i = j
  /\ u \subseteq 1 .. Len(ms) /\ tr \subseteq 1 .. Len(ms) /\ ar \subseteq 1 .. Len(ms)
  /\ \A i \in 1 .. Len(o) : o[i] \notin u
  /\ \A k \in u \cup tr : ~IsDiscarded(ms[k])

\* All messages of a channel.
OwnedIds(q, a, ms) == Ids(q) \cup Ids(a.msgs) \cup UNION {Ids(ms[k].msgs) : k \in 1 .. Len(ms)}

LEMMA NothingType == Nothing \in Collections /\ SmallOnly(Nothing.msgs) /\ Len(Nothing.msgs) = 0
BY DEF Nothing, Collections, SmallOnly

LEMMA MessageSize == ASSUME NEW m \in Messages PROVE m.size \in Nat /\ m.id \in 1 .. MaxMessages
BY ConstantsOK DEF Messages, ConstantsOK

LEMMA InsertType ==
  ASSUME NEW a \in Collections, NEW m \in Messages, SmallOnly(a.msgs), Fits(a, m)
  PROVE  /\ Insert(a, m) \in Collections /\ SmallOnly(Insert(a, m).msgs)
         /\ Len(Insert(a, m).msgs) <= MaxMsgsPerBunch
         /\ Insert(a, m).msgs = Append(a.msgs, m)
<1>1. /\ m.size \in Nat /\ MaxBunchPayload \in Nat /\ MaxMsgsPerBunch \in Nat
      /\ a.payload \in Nat /\ a.msgs \in Seq(Messages)
  BY MessageSize, ConstantsOK DEF Collections, ConstantsOK
<1>2. Small(m)
  BY <1>1 DEF Fits, Small
<1>3. PICK n \in Nat : n = Len(a.msgs)
  BY <1>1
<1>4. PICK t : t = Append(a.msgs, m)
  OBVIOUS
<1>5. t \in Seq(Messages) /\ Len(t) = n + 1 /\ t[n + 1] = m /\ \A i \in 1 .. n : t[i] = a.msgs[i]
  BY <1>1, <1>3, <1>4, AppendProperties
<1>6. Insert(a, m) \in Collections /\ Insert(a, m).msgs = t
  BY <1>1, <1>4, <1>5 DEF Insert, Collections
<1>7. n + 1 <= MaxMsgsPerBunch
  BY <1>1, <1>3 DEF Fits
<1>8. SmallOnly(t)
  <2>1. ASSUME NEW i \in 1 .. n + 1 PROVE Small(t[i])
    <3>1. i = n + 1 \/ i \in 1 .. n
      OBVIOUS
    <3> QED
      BY <1>2, <1>3, <1>5, <3>1 DEF SmallOnly
  <2> QED
    BY <1>5, <2>1 DEF SmallOnly
<1> QED
  BY <1>4, <1>5, <1>6, <1>7, <1>8

LEMMA SmallRemainder ==
  ASSUME NEW d \in Nat \ {0}, NEW n \in 0 .. d - 1
  PROVE  n % d = n
<1> DEFINE p == n \div d
           r == n % d
<1>1. p \in Int /\ r \in 0 .. d - 1 /\ n = d * p + r
  OBVIOUS
<1> HIDE DEF p, r
<1>2. ASSUME p >= 1 PROVE FALSE
  <2>1. d * p = d + d * (p - 1)
    BY <1>1
  <2>2. d * (p - 1) >= 0
    BY <1>1, <1>2
  <2> QED
    BY <1>1, <2>1, <2>2
<1>3. ASSUME p <= -1 PROVE FALSE
  <2>1. d * p = -d - d * (-1 - p)
    BY <1>1
  <2>2. d * (-1 - p) >= 0
    BY <1>1, <1>3
  <2> QED
    BY <1>1, <2>1, <2>2
<1>4. p = 0
  BY <1>1, <1>2, <1>3
<1>5. r = n
  BY <1>1, <1>4
<1> QED
  BY <1>5 DEF r

LEMMA BunchType ==
  ASSUME NEW a \in Collections, Len(a.msgs) <= MaxMsgsPerBunch
  PROVE  /\ Bunch(a) \in Bunches /\ Bunch(a).msgs = a.msgs
         /\ Bunch(a).count = Len(a.msgs)
<1>1. a.msgs \in Seq(Messages) /\ Len(a.msgs) \in Nat /\ a.payload \in Nat
  BY DEF Collections
<1>2. CountSpace \in Nat \ {0} /\ Len(a.msgs) \in 0 .. CountSpace - 1
  BY <1>1, ConstantsOK DEF ConstantsOK
<1>3. PICK n \in Nat : n = Len(a.msgs)
  BY <1>1
<1>4. n % CountSpace = n
  BY <1>2, <1>3, SmallRemainder
<1> QED
  BY <1>1, <1>2, <1>3, <1>4 DEF Bunch, Bunches

\* Moving a message.
LEMMA InsertTyped ==
  ASSUME NEW q, NEW a, NEW ms, NEW o, Typed(q, a, ms, o), q # << >>, Fits(a, Head(q))
  PROVE  Typed(Tail(q), Insert(a, Head(q)), ms, o)
<1>1. Head(q) \in Messages /\ Tail(q) \in Seq(Messages)
  BY HeadTailProperties DEF Typed
<1> QED
  BY <1>1, InsertType DEF Typed

LEMMA DropTyped ==
  ASSUME NEW q, NEW a, NEW ms, NEW o, Typed(q, a, ms, o), q # << >>
  PROVE  Typed(Tail(q), a, ms, o)
<1>1. Tail(q) \in Seq(Messages)
  BY HeadTailProperties DEF Typed
<1> QED
  BY <1>1 DEF Typed

LEMMA SealTyped ==
  ASSUME NEW q, NEW a, NEW ms, NEW o, Typed(q, a, ms, o)
  PROVE  Typed(q, Nothing, Append(ms, Bunch(a)), Append(o, Len(ms) + 1))
<1>1. PICK n \in Nat : n = Len(ms)
  BY DEF Typed
<1>2. PICK t : t = Append(ms, Bunch(a))
  OBVIOUS
<1>3. Bunch(a) \in Bunches /\ Bunch(a).msgs = a.msgs /\ Bunch(a).count = Len(a.msgs)
  BY BunchType DEF Typed
<1>4. t \in Seq(Bunches) /\ Len(t) = n + 1 /\ t[n + 1] = Bunch(a) /\ \A k \in 1 .. n : t[k] = ms[k]
  BY <1>1, <1>2, <1>3, AppendProperties DEF Typed
<1>5. ASSUME NEW k \in 1 .. n + 1 PROVE t[k].count = Len(t[k].msgs) /\ SmallOnly(t[k].msgs)
  <2>1. k = n + 1 \/ k \in 1 .. n
    OBVIOUS
  <2> QED
    BY <1>1, <1>3, <1>4, <2>1 DEF Typed
<1>6. Append(o, n + 1) \in Seq(1 .. n + 1)
  <2>1. o \in Seq(1 .. n + 1)
    <3>1. o \in Seq(1 .. n) /\ 1 .. n \subseteq 1 .. n + 1
      BY <1>1 DEF Typed
    <3> QED
      BY <3>1, SeqMonotonic
  <2>2. n + 1 \in 1 .. n + 1
    OBVIOUS
  <2> QED
    BY <2>1, <2>2
<1>7. 0 <= MaxMsgsPerBunch
  BY ConstantsOK DEF ConstantsOK
<1> QED
  BY <1>1, <1>2, <1>4, <1>5, <1>6, <1>7, NothingType DEF Typed

\* The order of the messages.
Contents(ms) == [k \in DOMAIN ms |-> ms[k].msgs]

LEMMA ContentsType ==
  ASSUME NEW ms \in Seq(Bunches)
  PROVE  /\ Contents(ms) \in Seq(Seq(Messages)) /\ Len(Contents(ms)) = Len(ms)
         /\ \A k \in 1 .. Len(ms) : Contents(ms)[k] = ms[k].msgs
         /\ InBunches(ms) = FlattenSeq(Contents(ms)) /\ InBunches(ms) \in Seq(Messages)
<1>1. DOMAIN ms = 1 .. Len(ms) /\ Len(ms) \in Nat /\ \A k \in DOMAIN ms : ms[k].msgs \in Seq(Messages)
  <2>1. DOMAIN ms = 1 .. Len(ms) /\ Len(ms) \in Nat /\ \A k \in DOMAIN ms : ms[k] \in Bunches
    OBVIOUS
  <2>2. \A b \in Bunches : b.msgs \in Seq(Messages)
    BY DEF Bunches
  <2> QED
    BY <2>1, <2>2
<1>2. /\ Contents(ms) \in Seq(Seq(Messages)) /\ Len(Contents(ms)) = Len(ms)
      /\ \A k \in 1 .. Len(ms) : Contents(ms)[k] = ms[k].msgs
  BY <1>1 DEF Contents
<1>3. InBunches(ms) = FlattenSeq(Contents(ms))
  BY DEF InBunches, Contents
<1> QED
  BY <1>2, <1>3, FlattenType

LEMMA InBunchesAppend ==
  ASSUME NEW ms \in Seq(Bunches), NEW b \in Bunches
  PROVE  InBunches(Append(ms, b)) = InBunches(ms) \o b.msgs
<1>1. PICK n \in Nat : n = Len(ms)
  OBVIOUS
<1>2. PICK t : t = Append(ms, b)
  OBVIOUS
<1>3. t \in Seq(Bunches) /\ Len(t) = n + 1 /\ t[n + 1] = b /\ \A k \in 1 .. n : t[k] = ms[k]
  BY <1>1, <1>2, AppendProperties
<1>4. b.msgs \in Seq(Messages)
  BY DEF Bunches
<1>5. PICK u : u = Append(Contents(ms), b.msgs)
  OBVIOUS
<1>6. /\ u \in Seq(Seq(Messages)) /\ Len(u) = n + 1 /\ u[n + 1] = b.msgs
      /\ \A k \in 1 .. n : u[k] = Contents(ms)[k]
  BY <1>1, <1>4, <1>5, ContentsType, AppendProperties
<1>7. ASSUME NEW k \in 1 .. n + 1 PROVE Contents(t)[k] = u[k]
  <2>1. k = n + 1 \/ k \in 1 .. n
    OBVIOUS
  <2>2. Contents(t)[k] = t[k].msgs
    BY <1>3, ContentsType
  <2>3. CASE k = n + 1
    BY <1>3, <1>6, <2>2, <2>3
  <2>4. CASE k \in 1 .. n
    BY <1>1, <1>3, <1>6, <2>2, <2>4, ContentsType
  <2> QED
    BY <2>1, <2>3, <2>4
<1>8. Contents(t) = u
  BY <1>3, <1>6, <1>7, ContentsType, SeqEqual
<1>9. FlattenSeq(u) = FlattenSeq(Contents(ms)) \o b.msgs
  BY <1>4, <1>5, ContentsType, FlattenAppend
<1> QED
  BY <1>2, <1>3, <1>8, <1>9, ContentsType

LEMMA HeadAndTail ==
  ASSUME NEW S, NEW q \in Seq(S), q # << >>
  PROVE  Head(q) \in S /\ Tail(q) \in Seq(S) /\ q = << Head(q) >> \o Tail(q)
<1>1. Head(q) \in S /\ Tail(q) \in Seq(S)
  BY HeadTailProperties
<1>2. q = << Head(q) >> \o Tail(q)
  OBVIOUS
<1> QED
  BY <1>1, <1>2

LEMMA InsertOrdered ==
  ASSUME NEW q, NEW a, NEW ms, NEW o, NEW g, Typed(q, a, ms, o), Ordered(q, a, ms, g), q # << >>
  PROVE  Ordered(Tail(q), Insert(a, Head(q)), ms, g)
<1>1. PICK x : x = InBunches(ms)
  OBVIOUS
<1>2. PICK y : y = a.msgs
  OBVIOUS
<1>3. PICK h : h = Head(q)
  OBVIOUS
<1>4. PICK t : t = Tail(q)
  OBVIOUS
<1>5. /\ x \in Seq(Messages) /\ y \in Seq(Messages) /\ q \in Seq(Messages)
      /\ h \in Messages /\ t \in Seq(Messages) /\ q = << h >> \o t
  BY <1>1, <1>2, <1>3, <1>4, ContentsType, HeadAndTail DEF Typed, Collections
<1>6. << h >> \in Seq(Messages) /\ x \o y \in Seq(Messages)
  BY <1>5
<1>7. x \o Append(y, h) = (x \o y) \o << h >>
  <2>1. Append(y, h) = y \o << h >>
    BY <1>5, AppendIsConcat
  <2> QED
    BY <1>5, <1>6, <2>1, ConcatAssociative
<1>8. ((x \o y) \o << h >>) \o t = (x \o y) \o (<< h >> \o t)
  BY <1>5, <1>6, ConcatAssociative
<1>9. Insert(a, h).msgs = Append(y, h)
  BY <1>2 DEF Insert
<1>10. Held(t, Insert(a, h), ms) = Held(q, a, ms)
  BY <1>1, <1>2, <1>5, <1>7, <1>8, <1>9 DEF Held
<1> QED
  BY <1>3, <1>4, <1>10 DEF Ordered

LEMMA DropOrdered ==
  ASSUME NEW q, NEW a, NEW ms, NEW o, NEW g, Typed(q, a, ms, o), Ordered(q, a, ms, g), q # << >>,
         ~Small(Head(q))
  PROVE  Ordered(Tail(q), a, ms, g)
<1>1. PICK x : x = InBunches(ms) \o a.msgs
  OBVIOUS
<1>2. PICK h : h = Head(q)
  OBVIOUS
<1>3. PICK t : t = Tail(q)
  OBVIOUS
<1>4. InBunches(ms) \in Seq(Messages) /\ a.msgs \in Seq(Messages)
  BY ContentsType DEF Typed, Collections
<1>5. /\ x \in Seq(Messages) /\ q \in Seq(Messages)
      /\ h \in Messages /\ t \in Seq(Messages) /\ q = << h >> \o t
  BY <1>1, <1>2, <1>3, <1>4, HeadAndTail DEF Typed
<1>6. << h >> \in Seq(Messages) /\ << >> \in Seq(Messages) /\ << h >> = Append(<< >>, h)
  BY <1>5
<1>7. SmallOf(<< h >>) = << >> \o Piece(h)
  BY <1>5, <1>6, SmallOfAppend, SmallOfEmpty
<1>8. SmallOf(<< h >>) = << >>
  BY <1>2, <1>7 DEF Piece
<1>9. SmallOf(q) = SmallOf(<< h >>) \o SmallOf(t) /\ SmallOf(t) \in Seq(Messages)
  BY <1>5, <1>6, SmallOfConcat, SmallOfType
<1>10. SmallOf(q) = SmallOf(t)
  BY <1>8, <1>9
<1>11. SmallOf(x \o q) = SmallOf(x) \o SmallOf(q) /\ SmallOf(x \o t) = SmallOf(x) \o SmallOf(t)
  BY <1>5, SmallOfConcat
<1> QED
  BY <1>1, <1>3, <1>10, <1>11 DEF Ordered, Held

LEMMA SealOrdered ==
  ASSUME NEW q, NEW a, NEW ms, NEW o, NEW g, Typed(q, a, ms, o), Ordered(q, a, ms, g)
  PROVE  Ordered(q, Nothing, Append(ms, Bunch(a)), g)
<1>1. PICK x : x = InBunches(ms)
  OBVIOUS
<1>2. x \in Seq(Messages) /\ a.msgs \in Seq(Messages)
  BY <1>1, ContentsType DEF Typed, Collections
<1>3. InBunches(Append(ms, Bunch(a))) = x \o a.msgs
  BY <1>1, InBunchesAppend, BunchType DEF Typed
<1>4. (x \o a.msgs) \o << >> = x \o a.msgs
  BY <1>2
<1>5. Held(q, Nothing, Append(ms, Bunch(a))) = Held(q, a, ms)
  BY <1>1, <1>3, <1>4 DEF Held, Nothing
<1> QED
  BY <1>5 DEF Ordered

LEMMA SubmitOrdered ==
  ASSUME NEW q, NEW a, NEW ms, NEW o, NEW g, NEW m \in Messages, Typed(q, a, ms, o),
         Ordered(q, a, ms, g)
  PROVE  Ordered(Append(q, m), a, ms, Append(g, m))
<1>1. PICK x : x = InBunches(ms) \o a.msgs
  OBVIOUS
<1>2. InBunches(ms) \in Seq(Messages) /\ a.msgs \in Seq(Messages)
  BY ContentsType DEF Typed, Collections
<1>3. x \in Seq(Messages) /\ q \in Seq(Messages) /\ g \in Seq(Messages) /\ x \o q \in Seq(Messages)
  BY <1>1, <1>2 DEF Typed, Ordered
<1>4. x \o Append(q, m) = Append(x \o q, m)
  BY <1>3
<1>5. /\ SmallOf(Append(x \o q, m)) = SmallOf(x \o q) \o Piece(m)
      /\ SmallOf(Append(g, m)) = SmallOf(g) \o Piece(m)
  BY <1>3, SmallOfAppend
<1>6. Append(g, m) \in Seq(Messages)
  BY <1>3
<1> QED
  BY <1>1, <1>4, <1>5, <1>6 DEF Ordered, Held

\* The places of the messages.
LEMMA IdsOfAppend ==
  ASSUME NEW s \in Seq(Messages), NEW m \in Messages
  PROVE  Ids(Append(s, m)) = Ids(s) \cup {m.id}
<1>1. PICK n \in Nat : n = Len(s)
  OBVIOUS
<1>2. PICK t : t = Append(s, m)
  OBVIOUS
<1>3. /\ DOMAIN t = 1 .. n + 1 /\ DOMAIN s = 1 .. n /\ t[n + 1] = m /\ \A i \in 1 .. n : t[i] = s[i]
  BY <1>1, <1>2
<1>4. ASSUME NEW x PROVE x \in Ids(t) <=> x \in Ids(s) \cup {m.id}
  <2>1. x \in Ids(t) <=> \E i \in 1 .. n + 1 : x = t[i].id
    BY <1>3 DEF Ids
  <2>2. x \in Ids(s) <=> \E i \in 1 .. n : x = s[i].id
    BY <1>3 DEF Ids
  <2>3. \A i : i \in 1 .. n + 1 <=> i \in 1 .. n \/ i = n + 1
    OBVIOUS
  <2> QED
    BY <1>3, <2>1, <2>2, <2>3
<1> QED
  BY <1>2, <1>4

LEMMA IdsOfTail ==
  ASSUME NEW q \in Seq(Messages), q # << >>
  PROVE  /\ Ids(q) = {Head(q).id} \cup Ids(Tail(q))
         /\ (\A i, j \in 1 .. Len(q) : q[i].id = q[j].id => i = j) =>
                /\ Head(q).id \notin Ids(Tail(q))
                /\ \A i, j \in 1 .. Len(Tail(q)) : Tail(q)[i].id = Tail(q)[j].id => i = j
<1>1. PICK n \in Nat \ {0} : n = Len(q)
  OBVIOUS
<1>2. PICK t : t = Tail(q)
  OBVIOUS
<1>3. /\ DOMAIN q = 1 .. n /\ DOMAIN t = 1 .. n - 1 /\ Len(t) = n - 1 /\ Head(q) = q[1]
      /\ \A i \in 1 .. n - 1 : t[i] = q[i + 1]
  BY <1>1, <1>2
<1>4. \A i : i \in 1 .. n => i = 1 \/ i - 1 \in 1 .. n - 1
  OBVIOUS
<1>5. \A i \in 1 .. n - 1 : i + 1 \in 1 .. n /\ i + 1 # 1
  OBVIOUS
<1>6. ASSUME NEW x PROVE x \in Ids(q) <=> x \in {q[1].id} \cup Ids(t)
  <2>1. x \in Ids(q) <=> \E i \in 1 .. n : x = q[i].id
    BY <1>3 DEF Ids
  <2>2. x \in Ids(t) <=> \E i \in 1 .. n - 1 : x = q[i + 1].id
    <3>1. x \in Ids(t) <=> \E i \in 1 .. n - 1 : x = t[i].id
      BY <1>3 DEF Ids
    <3>2. \A i \in 1 .. n - 1 : t[i].id = q[i + 1].id
      BY <1>3
    <3> QED
      BY <3>1, <3>2, Zenon
  <2>3. ASSUME NEW i \in 1 .. n, x = q[i].id PROVE x \in {q[1].id} \cup Ids(t)
    <3>1. CASE i = 1
      BY <2>3, <3>1
    <3>2. CASE i # 1
      <4>1. i - 1 \in 1 .. n - 1 /\ (i - 1) + 1 = i
        BY <3>2
      <4> QED
        BY <2>2, <2>3, <4>1
    <3> QED
      BY <3>1, <3>2
  <2>4. 1 \in 1 .. n
    OBVIOUS
  <2> QED
    BY <1>5, <2>1, <2>2, <2>3, <2>4
<1>7. ASSUME \A i, j \in 1 .. n : q[i].id = q[j].id => i = j
      PROVE  /\ q[1].id \notin Ids(t)
             /\ \A i, j \in 1 .. n - 1 : t[i].id = t[j].id => i = j
  <2>1. 1 \in 1 .. n
    OBVIOUS
  <2>2. q[1].id \notin Ids(t)
    BY <1>3, <1>5, <1>7, <2>1 DEF Ids
  <2>3. ASSUME NEW i \in 1 .. n - 1, NEW j \in 1 .. n - 1, t[i].id = t[j].id PROVE i = j
    <3>1. q[i + 1].id = q[j + 1].id /\ i + 1 \in 1 .. n /\ j + 1 \in 1 .. n
      BY <1>3, <1>5, <2>3
    <3>2. i + 1 = j + 1
      BY <1>7, <3>1
    <3> QED
      BY <3>2
  <2> QED
    BY <2>2, <2>3
<1> QED
  BY <1>1, <1>2, <1>3, <1>6, <1>7

LEMMA InsertApart ==
  ASSUME NEW q, NEW a, NEW ms, NEW o, Typed(q, a, ms, o), Apart(q, a, ms), q # << >>
  PROVE  /\ Apart(Tail(q), Insert(a, Head(q)), ms)
         /\ OwnedIds(Tail(q), Insert(a, Head(q)), ms) = OwnedIds(q, a, ms)
<1>1. q \in Seq(Messages) /\ a.msgs \in Seq(Messages) /\ Head(q) \in Messages
  BY HeadAndTail DEF Typed, Collections
<1>2. Ids(Insert(a, Head(q)).msgs) = Ids(a.msgs) \cup {Head(q).id}
  BY <1>1, IdsOfAppend DEF Insert
<1>3. /\ Ids(q) = {Head(q).id} \cup Ids(Tail(q)) /\ Head(q).id \notin Ids(Tail(q))
      /\ \A i, j \in 1 .. Len(Tail(q)) : Tail(q)[i].id = Tail(q)[j].id => i = j
  BY <1>1, IdsOfTail DEF Apart
<1>4. Ids(Tail(q)) \cup Ids(Insert(a, Head(q)).msgs) = Ids(q) \cup Ids(a.msgs)
  BY <1>2, <1>3
<1>5. Ids(Tail(q)) \cap Ids(Insert(a, Head(q)).msgs) = {}
  BY <1>2, <1>3 DEF Apart
<1> QED
  BY <1>3, <1>4, <1>5 DEF Apart, OwnedIds

LEMMA DropApart ==
  ASSUME NEW q, NEW a, NEW ms, NEW o, Typed(q, a, ms, o), Apart(q, a, ms), q # << >>
  PROVE  /\ Apart(Tail(q), a, ms)
         /\ OwnedIds(Tail(q), a, ms) \subseteq OwnedIds(q, a, ms)
<1>1. q \in Seq(Messages)
  BY DEF Typed
<1>2. /\ Ids(q) = {Head(q).id} \cup Ids(Tail(q))
      /\ \A i, j \in 1 .. Len(Tail(q)) : Tail(q)[i].id = Tail(q)[j].id => i = j
  BY <1>1, IdsOfTail DEF Apart
<1>3. Ids(Tail(q)) \subseteq Ids(q)
  BY <1>2
<1> QED
  BY <1>2, <1>3 DEF Apart, OwnedIds

LEMMA SealApart ==
  ASSUME NEW q, NEW a, NEW ms, NEW o, Typed(q, a, ms, o), Apart(q, a, ms)
  PROVE  /\ Apart(q, Nothing, Append(ms, Bunch(a)))
         /\ OwnedIds(q, Nothing, Append(ms, Bunch(a))) = OwnedIds(q, a, ms)
<1>1. PICK n \in Nat : n = Len(ms)
  BY DEF Typed
<1>2. PICK t : t = Append(ms, Bunch(a))
  OBVIOUS
<1>3. Bunch(a) \in Bunches /\ Bunch(a).msgs = a.msgs
  BY BunchType DEF Typed
<1>4. Len(t) = n + 1 /\ t[n + 1] = Bunch(a) /\ \A k \in 1 .. n : t[k] = ms[k]
  BY <1>1, <1>2, <1>3, AppendProperties DEF Typed
<1>5. Ids(Nothing.msgs) = {}
  BY DEF Ids, Nothing
<1>6. Ids(t[n + 1].msgs) = Ids(a.msgs) /\ \A k \in 1 .. n : Ids(t[k].msgs) = Ids(ms[k].msgs)
  BY <1>3, <1>4
<1>7. \A k : k \in 1 .. n + 1 <=> k \in 1 .. n \/ k = n + 1
  OBVIOUS
<1>8. /\ Ids(q) \cap Ids(a.msgs) = {}
      /\ \A k \in 1 .. n : Ids(ms[k].msgs) \cap (Ids(q) \cup Ids(a.msgs)) = {}
      /\ \A k, l \in 1 .. n : k # l => Ids(ms[k].msgs) \cap Ids(ms[l].msgs) = {}
  BY <1>1 DEF Apart
<1>9. ASSUME NEW k \in 1 .. n + 1 PROVE Ids(t[k].msgs) \cap (Ids(q) \cup Ids(Nothing.msgs)) = {}
  BY <1>5, <1>6, <1>7, <1>8
<1>10. ASSUME NEW k \in 1 .. n + 1, NEW l \in 1 .. n + 1, k # l
       PROVE  Ids(t[k].msgs) \cap Ids(t[l].msgs) = {}
  <2>1. k \in 1 .. n \/ l \in 1 .. n
    BY <1>7, <1>10
  <2> QED
    BY <1>6, <1>7, <1>8, <1>10, <2>1
<1>11. UNION {Ids(t[k].msgs) : k \in 1 .. n + 1} = Ids(a.msgs) \cup UNION {Ids(ms[k].msgs) : k \in 1 .. n}
  BY <1>6, <1>7
<1>12. OwnedIds(q, Nothing, t) = OwnedIds(q, a, ms)
  BY <1>1, <1>4, <1>5, <1>11 DEF OwnedIds
<1>13. Apart(q, Nothing, t)
  BY <1>4, <1>5, <1>9, <1>10 DEF Apart
<1> QED
  BY <1>2, <1>12, <1>13

LEMMA SubmitApart ==
  ASSUME NEW q, NEW a, NEW ms, NEW o, NEW m \in Messages, Typed(q, a, ms, o), Apart(q, a, ms),
         m.id \notin OwnedIds(q, a, ms)
  PROVE  /\ Apart(Append(q, m), a, ms)
         /\ OwnedIds(Append(q, m), a, ms) = OwnedIds(q, a, ms) \cup {m.id}
<1>1. PICK n \in Nat : n = Len(q)
  BY DEF Typed
<1>2. PICK t : t = Append(q, m)
  OBVIOUS
<1>3. Len(t) = n + 1 /\ t[n + 1] = m /\ \A i \in 1 .. n : t[i] = q[i]
  BY <1>1, <1>2, AppendProperties DEF Typed
<1>4. Ids(t) = Ids(q) \cup {m.id}
  BY <1>2, IdsOfAppend DEF Typed
<1>5. \A i \in 1 .. n : q[i].id \in Ids(q)
  <2>1. DOMAIN q = 1 .. n
    BY <1>1 DEF Typed
  <2> QED
    BY <2>1 DEF Ids
<1>6. m.id \notin Ids(q) /\ m.id \notin Ids(a.msgs) /\ \A k \in 1 .. Len(ms) : m.id \notin Ids(ms[k].msgs)
  BY DEF OwnedIds
<1>7. ASSUME NEW i \in 1 .. n + 1, NEW j \in 1 .. n + 1, t[i].id = t[j].id PROVE i = j
  <2>1. (i \in 1 .. n \/ i = n + 1) /\ (j \in 1 .. n \/ j = n + 1)
    OBVIOUS
  <2>2. CASE i \in 1 .. n /\ j \in 1 .. n
    BY <1>1, <1>3, <1>7, <2>2 DEF Apart
  <2>3. CASE i = n + 1 /\ j \in 1 .. n
    BY <1>3, <1>5, <1>6, <1>7, <2>3
  <2>4. CASE i \in 1 .. n /\ j = n + 1
    BY <1>3, <1>5, <1>6, <1>7, <2>4
  <2> QED
    BY <2>1, <2>2, <2>3, <2>4
<1>8. Apart(t, a, ms)
  BY <1>3, <1>4, <1>6, <1>7 DEF Apart
<1>9. OwnedIds(t, a, ms) = OwnedIds(q, a, ms) \cup {m.id}
  BY <1>4 DEF OwnedIds
<1> QED
  BY <1>2, <1>8, <1>9

\* The numbers of the bunches.
LEMMA OnceTail ==
  ASSUME NEW S, NEW o \in Seq(S), o # << >>, \A i, j \in 1 .. Len(o) : o[i] = o[j] => i = j
  PROVE  /\ Tail(o) \in Seq(S)
         /\ \A i, j \in 1 .. Len(Tail(o)) : Tail(o)[i] = Tail(o)[j] => i = j
         /\ \A i \in 1 .. Len(Tail(o)) : Tail(o)[i] # Head(o)
         /\ \A x : (\E i \in 1 .. Len(Tail(o)) : Tail(o)[i] = x) =>
                       \E i \in 1 .. Len(o) : o[i] = x
<1>1. PICK n \in Nat \ {0} : n = Len(o)
  OBVIOUS
<1>2. PICK t : t = Tail(o)
  OBVIOUS
<1>3. t \in Seq(S) /\ Len(t) = n - 1 /\ Head(o) = o[1] /\ \A i \in 1 .. n - 1 : t[i] = o[i + 1]
  BY <1>1, <1>2
<1>4. 1 \in 1 .. n /\ \A i \in 1 .. n - 1 : i + 1 \in 1 .. n /\ i + 1 # 1
  OBVIOUS
<1>5. \A i \in 1 .. n - 1 : t[i] # o[1]
  BY <1>1, <1>3, <1>4
<1>6. ASSUME NEW i \in 1 .. n - 1, NEW j \in 1 .. n - 1, t[i] = t[j] PROVE i = j
  <2>1. o[i + 1] = o[j + 1] /\ i + 1 \in 1 .. n /\ j + 1 \in 1 .. n
    BY <1>3, <1>4, <1>6
  <2>2. i + 1 = j + 1
    BY <1>1, <2>1
  <2> QED
    BY <2>2
<1>7. \A x : (\E i \in 1 .. n - 1 : t[i] = x) => \E i \in 1 .. n : o[i] = x
  BY <1>3, <1>4
<1> QED
  BY <1>1, <1>2, <1>3, <1>5, <1>6, <1>7

LEMMA OncePushed ==
  ASSUME NEW S, NEW o \in Seq(S), NEW x \in S, \A i, j \in 1 .. Len(o) : o[i] = o[j] => i = j,
         \A i \in 1 .. Len(o) : o[i] # x
  PROVE  /\ << x >> \o o \in Seq(S)
         /\ \A i, j \in 1 .. Len(<< x >> \o o) : (<< x >> \o o)[i] = (<< x >> \o o)[j] => i = j
         /\ \A i \in 1 .. Len(<< x >> \o o) : (<< x >> \o o)[i] = x \/ \E j \in 1 .. Len(o) : (<< x >> \o o)[i] = o[j]
         /\ \A j \in 1 .. Len(o) : \E i \in 1 .. Len(<< x >> \o o) : (<< x >> \o o)[i] = o[j]
<1>1. PICK n \in Nat : n = Len(o)
  OBVIOUS
<1>2. PICK t : t = << x >> \o o
  OBVIOUS
<1>3. t \in Seq(S) /\ Len(t) = n + 1 /\ t[1] = x /\ \A i \in 1 .. n : t[i + 1] = o[i]
  BY <1>1, <1>2
<1>4. \A i \in 1 .. n + 1 : i # 1 => i - 1 \in 1 .. n /\ (i - 1) + 1 = i
  OBVIOUS
<1>5. \A i \in 1 .. n + 1 : i # 1 => t[i] = o[i - 1]
  BY <1>3, <1>4
<1>6. ASSUME NEW i \in 1 .. n + 1, NEW j \in 1 .. n + 1, t[i] = t[j] PROVE i = j
  <2>1. CASE i # 1 /\ j # 1
    <3>1. o[i - 1] = o[j - 1] /\ i - 1 \in 1 .. n /\ j - 1 \in 1 .. n
      BY <1>4, <1>5, <1>6, <2>1
    <3>2. i - 1 = j - 1
      BY <1>1, <3>1
    <3> QED
      BY <3>2
  <2>2. CASE i = 1 \/ j = 1
    BY <1>1, <1>3, <1>4, <1>5, <1>6, <2>2
  <2> QED
    BY <2>1, <2>2
<1>7. \A i \in 1 .. n + 1 : t[i] = x \/ \E j \in 1 .. n : t[i] = o[j]
  BY <1>3, <1>4, <1>5
<1>8. \A j \in 1 .. n : \E i \in 1 .. n + 1 : t[i] = o[j]
  <2>1. ASSUME NEW j \in 1 .. n PROVE \E i \in 1 .. n + 1 : t[i] = o[j]
    <3>1. j + 1 \in 1 .. n + 1 /\ t[j + 1] = o[j]
      BY <1>3
    <3> QED
      BY <3>1
  <2> QED
    BY <2>1
<1> QED
  BY <1>1, <1>2, <1>3, <1>6, <1>7, <1>8

LEMMA SealNumbers ==
  ASSUME NEW q, NEW a, NEW ms, NEW o, NEW u, NEW tr, NEW ar,
         Typed(q, a, ms, o), Numbers(ms, o, u, tr, ar)
  PROVE  Numbers(Append(ms, Bunch(a)), Append(o, Len(ms) + 1), u, tr, ar)
<1>1. PICK n \in Nat : n = Len(ms)
  BY DEF Typed
<1>2. PICK t : t = Append(ms, Bunch(a))
  OBVIOUS
<1>3. Len(t) = n + 1 /\ \A k \in 1 .. n : t[k] = ms[k]
  BY <1>1, <1>2, BunchType, AppendProperties DEF Typed
<1>4. PICK l \in Nat : l = Len(o)
  BY DEF Typed
<1>5. PICK p : p = Append(o, n + 1)
  OBVIOUS
<1>6. /\ Len(p) = l + 1 /\ p[l + 1] = n + 1 /\ \A i \in 1 .. l : p[i] = o[i] /\ o[i] \in 1 .. n
  BY <1>1, <1>4, <1>5 DEF Typed
<1>7. \A i : i \in 1 .. l + 1 <=> i \in 1 .. l \/ i = l + 1
  OBVIOUS
<1>8. 1 .. n \subseteq 1 .. n + 1 /\ n + 1 \notin 1 .. n
  OBVIOUS
<1>9. /\ \A i, j \in 1 .. l : o[i] = o[j] => i = j
      /\ u \subseteq 1 .. n /\ tr \subseteq 1 .. n /\ ar \subseteq 1 .. n
      /\ \A i \in 1 .. l : o[i] \notin u
      /\ \A k \in u \cup tr : ~IsDiscarded(ms[k])
  BY <1>1, <1>4 DEF Numbers
<1>10. ASSUME NEW i \in 1 .. l + 1, NEW j \in 1 .. l + 1, p[i] = p[j] PROVE i = j
  BY <1>6, <1>7, <1>8, <1>9, <1>10
<1>11. \A i \in 1 .. l + 1 : p[i] \notin u
  BY <1>6, <1>7, <1>8, <1>9
<1>12. \A k \in u \cup tr : ~IsDiscarded(t[k])
  BY <1>3, <1>9
<1>13. Numbers(t, p, u, tr, ar)
  BY <1>3, <1>6, <1>8, <1>9, <1>10, <1>11, <1>12 DEF Numbers
<1> QED
  BY <1>1, <1>2, <1>5, <1>13

LEMMA TakenNumbers ==
  ASSUME NEW ms, NEW o \in Seq(1 .. Len(ms)), NEW u, NEW tr, NEW ar, o # << >>,
         Numbers(ms, o, u, tr, ar)
  PROVE  /\ Numbers(ms, Tail(o), u, tr, ar)
         /\ ~IsDiscarded(ms[Head(o)]) => \A v \in {tr, tr \cup {Head(o)}} :
                Numbers(ms, Tail(o), u \cup {Head(o)}, v, ar)
         /\ Tail(o) \in Seq(1 .. Len(ms))
<1>1. Head(o) \in 1 .. Len(ms)
  BY HeadTailProperties
<1>2. /\ Tail(o) \in Seq(1 .. Len(ms))
      /\ \A i, j \in 1 .. Len(Tail(o)) : Tail(o)[i] = Tail(o)[j] => i = j
      /\ \A i \in 1 .. Len(Tail(o)) : Tail(o)[i] # Head(o)
      /\ \A x : (\E i \in 1 .. Len(Tail(o)) : Tail(o)[i] = x) => \E i \in 1 .. Len(o) : o[i] = x
  BY OnceTail DEF Numbers
<1>3. \A i \in 1 .. Len(Tail(o)) : Tail(o)[i] \notin u
  BY <1>2 DEF Numbers
<1>4. Numbers(ms, Tail(o), u, tr, ar)
  BY <1>2, <1>3 DEF Numbers
<1>5. ASSUME ~IsDiscarded(ms[Head(o)]), NEW v \in {tr, tr \cup {Head(o)}}
      PROVE  Numbers(ms, Tail(o), u \cup {Head(o)}, v, ar)
  <2>1. \A k \in u \cup {Head(o)} \cup v : ~IsDiscarded(ms[k])
    BY <1>5 DEF Numbers
  <2>2. u \cup {Head(o)} \subseteq 1 .. Len(ms) /\ v \subseteq 1 .. Len(ms)
    BY <1>1, <1>5 DEF Numbers
  <2> QED
    BY <1>2, <1>3, <2>1, <2>2 DEF Numbers
<1> QED
  BY <1>2, <1>4, <1>5

LEMMA NackNumbers ==
  ASSUME NEW ms, NEW o \in Seq(1 .. Len(ms)), NEW u, NEW tr, NEW ar, NEW k \in u,
         Numbers(ms, o, u, tr, ar)
  PROVE  Numbers(ms, << k >> \o o, u \ {k}, tr, ar) /\ << k >> \o o \in Seq(1 .. Len(ms))
<1>1. k \in 1 .. Len(ms) /\ \A i \in 1 .. Len(o) : o[i] # k
  BY DEF Numbers
<1>2. PICK t : t = << k >> \o o
  OBVIOUS
<1>3. /\ t \in Seq(1 .. Len(ms)) /\ \A i, j \in 1 .. Len(t) : t[i] = t[j] => i = j
      /\ \A i \in 1 .. Len(t) : t[i] = k \/ \E j \in 1 .. Len(o) : t[i] = o[j]
  BY <1>1, <1>2, OncePushed DEF Numbers
<1>4. \A i \in 1 .. Len(t) : t[i] \notin u \ {k}
  BY <1>3 DEF Numbers
<1> QED
  BY <1>2, <1>3, <1>4 DEF Numbers
\* What holds of one channel, with its unacknowledged bunches u, those in transit
\* tr and those arrived ar.
Sound(q, a, ms, o, g, u, tr, ar) ==
  /\ Typed(q, a, ms, o)
  /\ Ordered(q, a, ms, g)
  /\ Apart(q, a, ms)
  /\ Numbers(ms, o, u, tr, ar)

\* The messages of the bunches that were taken to be discarded.
GoneIds(ms, o) ==
  UNION {Ids(ms[k].msgs) : k \in {l \in 1 .. Len(ms) :
            IsDiscarded(ms[l]) /\ \A i \in 1 .. Len(o) : o[i] # l}}

LEMMA InsertSound ==
  ASSUME NEW q, NEW a, NEW ms, NEW o, NEW g, NEW u, NEW tr, NEW ar,
         Sound(q, a, ms, o, g, u, tr, ar), q # << >>, Fits(a, Head(q))
  PROVE  /\ Sound(Tail(q), Insert(a, Head(q)), ms, o, g, u, tr, ar)
         /\ OwnedIds(Tail(q), Insert(a, Head(q)), ms) = OwnedIds(q, a, ms)
BY InsertTyped, InsertOrdered, InsertApart DEF Sound

LEMMA DropSound ==
  ASSUME NEW q, NEW a, NEW ms, NEW o, NEW g, NEW u, NEW tr, NEW ar,
         Sound(q, a, ms, o, g, u, tr, ar), q # << >>, ~Small(Head(q))
  PROVE  /\ Sound(Tail(q), a, ms, o, g, u, tr, ar)
         /\ OwnedIds(Tail(q), a, ms) \subseteq OwnedIds(q, a, ms)
BY DropTyped, DropOrdered, DropApart DEF Sound

LEMMA SealGone ==
  ASSUME NEW q, NEW a, NEW ms, NEW o, Typed(q, a, ms, o)
  PROVE  GoneIds(ms, o) \subseteq GoneIds(Append(ms, Bunch(a)), Append(o, Len(ms) + 1))
<1>1. PICK n \in Nat : n = Len(ms)
  BY DEF Typed
<1>2. PICK t : t = Append(ms, Bunch(a))
  OBVIOUS
<1>3. Len(t) = n + 1 /\ \A k \in 1 .. n : t[k] = ms[k]
  BY <1>1, <1>2, BunchType, AppendProperties DEF Typed
<1>4. PICK m \in Nat : m = Len(o)
  BY DEF Typed
<1>5. PICK p : p = Append(o, n + 1)
  OBVIOUS
<1>6. Len(p) = m + 1 /\ p[m + 1] = n + 1 /\ \A i \in 1 .. m : p[i] = o[i]
  BY <1>1, <1>4, <1>5, AppendProperties DEF Typed
<1>7. ASSUME NEW l \in 1 .. n, IsDiscarded(ms[l]), \A i \in 1 .. m : o[i] # l
      PROVE  l \in 1 .. n + 1 /\ IsDiscarded(t[l]) /\ t[l] = ms[l] /\ \A i \in 1 .. m + 1 : p[i] # l
  <2>1. l \in 1 .. n + 1 /\ l # n + 1 /\ \A i \in 1 .. m + 1 : i \in 1 .. m \/ i = m + 1
    OBVIOUS
  <2> QED
    BY <1>3, <1>6, <1>7, <2>1
<1> QED
  BY <1>1, <1>2, <1>3, <1>4, <1>5, <1>6, <1>7 DEF GoneIds

LEMMA SealSound ==
  ASSUME NEW q, NEW a, NEW ms, NEW o, NEW g, NEW u, NEW tr, NEW ar,
         Sound(q, a, ms, o, g, u, tr, ar)
  PROVE  /\ Sound(q, Nothing, Append(ms, Bunch(a)), Append(o, Len(ms) + 1), g, u, tr, ar)
         /\ OwnedIds(q, Nothing, Append(ms, Bunch(a))) = OwnedIds(q, a, ms)
         /\ GoneIds(ms, o) \subseteq GoneIds(Append(ms, Bunch(a)), Append(o, Len(ms) + 1))
BY SealTyped, SealOrdered, SealApart, SealNumbers, SealGone DEF Sound

\* SealAndPush once and twice.
Numbered(n, groups) == [i \in DOMAIN groups |-> n + i]
Bunched(groups) == [i \in DOMAIN groups |-> Bunch(groups[i])]

LEMMA SealedNone ==
  ASSUME NEW S, NEW s \in Seq(S), NEW n
  PROVE  s \o Bunched(<< >>) = s /\ s \o Numbered(n, << >>) = s
<1>1. Bunched(<< >>) = << >> /\ Numbered(n, << >>) = << >>
  BY DEF Bunched, Numbered
<1> QED
  BY <1>1

LEMMA SealedOnce ==
  ASSUME NEW ms \in Seq(Bunches), NEW o \in Seq(Nat), NEW a \in Collections, Bunch(a) \in Bunches
  PROVE  /\ ms \o Bunched(<< a >>) = Append(ms, Bunch(a))
         /\ o \o Numbered(Len(ms), << a >>) = Append(o, Len(ms) + 1)
<1>1. Bunched(<< a >>) = << Bunch(a) >> /\ Numbered(Len(ms), << a >>) = << Len(ms) + 1 >>
  BY DEF Bunched, Numbered
<1>2. ms \o << Bunch(a) >> = Append(ms, Bunch(a))
  OBVIOUS
<1>3. PICK n \in Nat : n = Len(ms)
  OBVIOUS
<1>4. o \o << n + 1 >> = Append(o, n + 1)
  OBVIOUS
<1> QED
  BY <1>1, <1>2, <1>3, <1>4

LEMMA SealedTwice ==
  ASSUME NEW ms \in Seq(Bunches), NEW o \in Seq(Nat), NEW a \in Collections, NEW b \in Collections,
         Bunch(a) \in Bunches, Bunch(b) \in Bunches
  PROVE  /\ ms \o Bunched(<< a, b >>) = Append(Append(ms, Bunch(a)), Bunch(b))
         /\ o \o Numbered(Len(ms), << a, b >>) = Append(Append(o, Len(ms) + 1), Len(ms) + 2)
<1>1. /\ Bunched(<< a, b >>) = << Bunch(a), Bunch(b) >>
      /\ Numbered(Len(ms), << a, b >>) = << Len(ms) + 1, Len(ms) + 2 >>
  BY DEF Bunched, Numbered
<1>2. ms \o << Bunch(a), Bunch(b) >> = Append(Append(ms, Bunch(a)), Bunch(b))
  OBVIOUS
<1>3. PICK n \in Nat : n = Len(ms)
  OBVIOUS
<1>4. o \o << n + 1, n + 2 >> = Append(Append(o, n + 1), n + 2)
  OBVIOUS
<1> QED
  BY <1>1, <1>2, <1>3, <1>4

\* What one iteration of Pump makes of a channel: first the message finds its
\* place, perhaps after a bunch was sealed; then a full bunch is sealed.
LEMMA PlaceMessage ==
  ASSUME NEW q, NEW a, NEW ms, NEW o, NEW g, NEW u, NEW tr, NEW ar,
         Sound(q, a, ms, o, g, u, tr, ar), q # << >>
  PROVE  LET fits == Fits(a, Head(q))
             b == IF fits THEN Insert(a, Head(q)) ELSE Retried(Head(q))
             mt == IF fits THEN ms ELSE Append(ms, Bunch(a))
             p == IF fits THEN o ELSE Append(o, Len(ms) + 1)
         IN  /\ Sound(Tail(q), b, mt, p, g, u, tr, ar)
             /\ OwnedIds(Tail(q), b, mt) \subseteq OwnedIds(q, a, ms)
             /\ GoneIds(ms, o) \subseteq GoneIds(mt, p)
<1>1. CASE Fits(a, Head(q))
  BY <1>1, InsertSound
<1>2. CASE ~Fits(a, Head(q))
  <2>1. PICK mt : mt = Append(ms, Bunch(a))
    OBVIOUS
  <2>2. PICK p : p = Append(o, Len(ms) + 1)
    OBVIOUS
  <2>3. /\ Sound(q, Nothing, mt, p, g, u, tr, ar)
        /\ OwnedIds(q, Nothing, mt) = OwnedIds(q, a, ms)
        /\ GoneIds(ms, o) \subseteq GoneIds(mt, p)
    BY <2>1, <2>2, SealSound
  <2>4. CASE Fits(Nothing, Head(q))
    <3>1. Retried(Head(q)) = Insert(Nothing, Head(q))
      BY <2>4 DEF Retried
    <3>2. /\ Sound(Tail(q), Insert(Nothing, Head(q)), mt, p, g, u, tr, ar)
          /\ OwnedIds(Tail(q), Insert(Nothing, Head(q)), mt) = OwnedIds(q, Nothing, mt)
      BY <2>3, <2>4, InsertSound
    <3> QED
      BY <1>2, <2>1, <2>2, <2>3, <3>1, <3>2
  <2>5. CASE ~Fits(Nothing, Head(q))
    <3>1. Retried(Head(q)) = Nothing
      BY <2>5 DEF Retried
    <3>2. Head(q) \in Messages
      BY HeadAndTail DEF Sound, Typed
    <3>3. ~Small(Head(q))
      BY <2>5, <3>2, MessageSize, ConstantsOK DEF Fits, Nothing, Small, ConstantsOK
    <3>4. /\ Sound(Tail(q), Nothing, mt, p, g, u, tr, ar)
          /\ OwnedIds(Tail(q), Nothing, mt) \subseteq OwnedIds(q, Nothing, mt)
      BY <2>3, <3>3, DropSound
    <3> QED
      BY <1>2, <2>1, <2>2, <2>3, <3>1, <3>4
  <2> QED
    BY <2>4, <2>5
<1> QED
  BY <1>1, <1>2

LEMMA SealSome ==
  ASSUME NEW q, NEW a, NEW ms, NEW o, NEW g, NEW u, NEW tr, NEW ar,
         Sound(q, a, ms, o, g, u, tr, ar)
  PROVE  /\ ms \in Seq(Bunches) /\ o \in Seq(Nat) /\ a \in Collections /\ Bunch(a) \in Bunches
<1>1. o \in Seq(1 .. Len(ms)) /\ 1 .. Len(ms) \subseteq Nat
  BY DEF Sound, Typed
<1>2. o \in Seq(Nat)
  BY <1>1, SeqMonotonic
<1>3. a \in Collections /\ Bunch(a) \in Bunches /\ ms \in Seq(Bunches)
  BY BunchType DEF Sound, Typed
<1> QED
  BY <1>2, <1>3

LEMMA AppendPair ==
  ASSUME NEW S, NEW a \in S, NEW b \in S
  PROVE  Append(<< a >>, b) = << a, b >>
<1>1. PICK u : u = << a, b >>
  OBVIOUS
<1>2. u \in Seq(S) /\ Len(u) = 2 /\ u[1] = a /\ u[2] = b
  BY <1>1
<1>3. PICK t : t = Append(<< a >>, b)
  OBVIOUS
<1>4. << a >> \in Seq(S) /\ Len(<< a >>) = 1 /\ << a >>[1] = a
  OBVIOUS
<1>5. t \in Seq(S) /\ Len(t) = 2 /\ t[1] = a /\ t[2] = b
  BY <1>3, <1>4, AppendProperties
<1>6. \A i \in 1 .. 2 : i = 1 \/ i = 2
  OBVIOUS
<1>7. t = u
  BY <1>2, <1>5, <1>6, SeqEqual
<1> QED
  BY <1>1, <1>3, <1>7

LEMMA TakeOutcome ==
  ASSUME NEW q, NEW a, NEW ms, NEW o, NEW g, NEW u, NEW tr, NEW ar,
         Sound(q, a, ms, o, g, u, tr, ar), q # << >>
  PROVE  LET fits == Fits(a, Head(q))
             b == IF fits THEN Insert(a, Head(q)) ELSE Retried(Head(q))
             sealed == IF fits THEN << >> ELSE << a >>
             groups == IF IsFull(b) THEN Append(sealed, b) ELSE sealed
             rest == IF IsFull(b) THEN Nothing ELSE b
             mt == ms \o Bunched(groups)
             p == o \o Numbered(Len(ms), groups)
         IN  /\ Sound(Tail(q), rest, mt, p, g, u, tr, ar)
             /\ OwnedIds(Tail(q), rest, mt) \subseteq OwnedIds(q, a, ms)
             /\ GoneIds(ms, o) \subseteq GoneIds(mt, p)
<1> DEFINE fits == Fits(a, Head(q))
<1>1. PICK b : b = IF fits THEN Insert(a, Head(q)) ELSE Retried(Head(q))
  OBVIOUS
<1>2. PICK m1 : m1 = IF fits THEN ms ELSE Append(ms, Bunch(a))
  OBVIOUS
<1>3. PICK o1 : o1 = IF fits THEN o ELSE Append(o, Len(ms) + 1)
  OBVIOUS
<1>4. PICK t : t = Tail(q)
  OBVIOUS
<1>5. /\ Sound(t, b, m1, o1, g, u, tr, ar)
      /\ OwnedIds(t, b, m1) \subseteq OwnedIds(q, a, ms)
      /\ GoneIds(ms, o) \subseteq GoneIds(m1, o1)
  BY <1>1, <1>2, <1>3, <1>4, PlaceMessage
<1>6. /\ ms \in Seq(Bunches) /\ o \in Seq(Nat) /\ a \in Collections /\ Bunch(a) \in Bunches
  BY SealSome
<1>7. b \in Collections /\ Bunch(b) \in Bunches
  BY <1>5, SealSome
<1>8. PICK sealed : sealed = IF fits THEN << >> ELSE << a >>
  OBVIOUS
<1>9. m1 = ms \o Bunched(sealed) /\ o1 = o \o Numbered(Len(ms), sealed)
  <2>1. CASE fits
    BY <1>2, <1>3, <1>6, <1>8, <2>1, SealedNone
  <2>2. CASE ~fits
    BY <1>2, <1>3, <1>6, <1>8, <2>2, SealedOnce
  <2> QED
    BY <2>1, <2>2
<1>10. PICK m2 : m2 = Append(m1, Bunch(b))
  OBVIOUS
<1>11. PICK o2 : o2 = Append(o1, Len(m1) + 1)
  OBVIOUS
<1>12. /\ Sound(t, Nothing, m2, o2, g, u, tr, ar)
       /\ OwnedIds(t, Nothing, m2) = OwnedIds(t, b, m1)
       /\ GoneIds(m1, o1) \subseteq GoneIds(m2, o2)
  BY <1>5, <1>10, <1>11, SealSound
<1>13. m2 = ms \o Bunched(Append(sealed, b)) /\ o2 = o \o Numbered(Len(ms), Append(sealed, b))
  <2>1. CASE fits
    <3>1. Append(sealed, b) = << b >>
      BY <1>8, <2>1
    <3>2. m1 = ms /\ o1 = o
      BY <1>2, <1>3, <2>1
    <3> QED
      BY <1>6, <1>7, <1>10, <1>11, <3>1, <3>2, SealedOnce
  <2>2. CASE ~fits
    <3>1. Append(sealed, b) = << a, b >>
      <4>1. sealed = << a >>
        BY <1>8, <2>2
      <4>2. Append(<< a >>, b) = << a, b >>
        BY <1>6, <1>7, AppendPair
      <4> QED
        BY <4>1, <4>2
    <3>2. m1 = Append(ms, Bunch(a)) /\ o1 = Append(o, Len(ms) + 1)
      BY <1>2, <1>3, <2>2
    <3>3. Len(m1) + 1 = Len(ms) + 2
      BY <1>6, <3>2
    <3>4. /\ ms \o Bunched(<< a, b >>) = Append(Append(ms, Bunch(a)), Bunch(b))
          /\ o \o Numbered(Len(ms), << a, b >>) = Append(Append(o, Len(ms) + 1), Len(ms) + 2)
      BY <1>6, <1>7, SealedTwice
    <3> QED
      BY <1>10, <1>11, <3>1, <3>2, <3>3, <3>4
  <2> QED
    BY <2>1, <2>2
<1>14. CASE IsFull(b)
  <2>1. /\ Sound(t, Nothing, m2, o2, g, u, tr, ar)
        /\ OwnedIds(t, Nothing, m2) \subseteq OwnedIds(q, a, ms)
        /\ GoneIds(ms, o) \subseteq GoneIds(m2, o2)
    BY <1>5, <1>12
  <2> QED
    BY <1>1, <1>4, <1>8, <1>13, <1>14, <2>1
<1>15. CASE ~IsFull(b)
  BY <1>1, <1>4, <1>5, <1>8, <1>9, <1>15
<1> QED
  BY <1>14, <1>15

\* What the end of Pump makes of it.
LEMMA FlushOutcome ==
  ASSUME NEW q, NEW a, NEW ms, NEW o, NEW g, NEW u, NEW tr, NEW ar,
         Sound(q, a, ms, o, g, u, tr, ar)
  PROVE  LET groups == IF a.msgs = << >> THEN << >> ELSE << a >>
             mt == ms \o Bunched(groups)
             p == o \o Numbered(Len(ms), groups)
         IN  /\ Sound(q, Nothing, mt, p, g, u, tr, ar)
             /\ OwnedIds(q, Nothing, mt) \subseteq OwnedIds(q, a, ms)
             /\ GoneIds(ms, o) \subseteq GoneIds(mt, p)
<1>1. /\ ms \in Seq(Bunches) /\ o \in Seq(Nat) /\ a \in Collections /\ Bunch(a) \in Bunches
  BY SealSome
<1>2. CASE a.msgs = << >>
  <2>1. ms \o Bunched(<< >>) = ms /\ o \o Numbered(Len(ms), << >>) = o
    BY <1>1, SealedNone
  <2>2. Typed(q, Nothing, ms, o)
    BY <1>2, NothingType, ConstantsOK DEF Sound, Typed, ConstantsOK
  <2>3. Nothing.msgs = a.msgs
    BY <1>2 DEF Nothing
  <2>4. Sound(q, Nothing, ms, o, g, u, tr, ar) /\ OwnedIds(q, Nothing, ms) = OwnedIds(q, a, ms)
    BY <2>2, <2>3 DEF Sound, Ordered, Held, Apart, OwnedIds
  <2> QED
    BY <1>2, <2>1, <2>4
<1>3. CASE a.msgs # << >>
  <2>1. /\ ms \o Bunched(<< a >>) = Append(ms, Bunch(a))
        /\ o \o Numbered(Len(ms), << a >>) = Append(o, Len(ms) + 1)
    BY <1>1, SealedOnce
  <2> QED
    BY <1>3, <2>1, SealSound
<1> QED
  BY <1>2, <1>3
-----------------------------------------------------------------------------
(* The invariant.                                                          *)

Rest ==
  /\ count \in 0 .. MaxMessages
  /\ hand \in [Threads -> Messages \cup {NoMessage}]
  /\ todo \in [Threads -> SUBSET Conns]
  /\ job \in [Conns -> {"none", "pump", "assemble"}]
  /\ taken \in [Conns -> 0 .. BatchLimit]
  /\ released \in [1 .. MaxMessages -> Nat]

Shape ==
  /\ queue \in [Conns -> Seq(Messages)] /\ active \in [Conns -> Collections]
  /\ made \in [Conns -> Seq(Bunches)] /\ out \in [Conns -> Seq(Nat)]
  /\ unacked \in [Conns -> SUBSET Nat] /\ transit \in [Conns -> SUBSET Nat]
  /\ arrived \in [Conns -> SUBSET Nat] /\ given \in [Conns -> Seq(Messages)]

Chan(c) ==
  Sound(queue[c], active[c], made[c], out[c], given[c], unacked[c], transit[c], arrived[c])

Channels == \A c \in Conns : Chan(c)

Owned(c) == OwnedIds(queue[c], active[c], made[c])
Gone(c) == GoneIds(made[c], out[c])

\* A message that a thread is sending is its own, and new to the channels that
\* still have to get it.
Hands ==
  /\ \A t \in Threads : todo[t] # {} => hand[t] \in Messages /\ hand[t].id <= count
  /\ \A s, t \in Threads :
        todo[s] # {} /\ todo[t] # {} /\ hand[s].id = hand[t].id => s = t
  /\ \A t \in Threads : \A c \in todo[t] : hand[t].id \notin Owned(c)
  /\ \A c \in Conns : \A m \in Owned(c) : m <= count

MsgInv == Rest /\ Shape /\ Channels /\ Hands

\* A step of one channel.
Only(c) ==
  /\ queue' = [queue EXCEPT ![c] = queue'[c]] /\ active' = [active EXCEPT ![c] = active'[c]]
  /\ made' = [made EXCEPT ![c] = made'[c]] /\ out' = [out EXCEPT ![c] = out'[c]]
  /\ unacked' = [unacked EXCEPT ![c] = unacked'[c]]
  /\ transit' = [transit EXCEPT ![c] = transit'[c]]
  /\ arrived' = [arrived EXCEPT ![c] = arrived'[c]] /\ given' = [given EXCEPT ![c] = given'[c]]

LEMMA UpdateShape ==
  ASSUME NEW S, NEW f \in [Conns -> S], NEW c \in Conns, NEW v \in S
  PROVE  [f EXCEPT ![c] = v] \in [Conns -> S]
OBVIOUS

LEMMA StepShape ==
  ASSUME Shape, NEW c \in Conns, Only(c), Chan(c)'
  PROVE  Shape'
<1>1. /\ queue'[c] \in Seq(Messages) /\ active'[c] \in Collections /\ made'[c] \in Seq(Bunches)
      /\ out'[c] \in Seq(1 .. Len(made'[c])) /\ given'[c] \in Seq(Messages)
  BY DEF Chan, Sound, Typed, Ordered
<1>2. /\ unacked'[c] \subseteq 1 .. Len(made'[c]) /\ transit'[c] \subseteq 1 .. Len(made'[c])
      /\ arrived'[c] \subseteq 1 .. Len(made'[c])
  BY DEF Chan, Sound, Numbers
<1>3. 1 .. Len(made'[c]) \subseteq Nat
  OBVIOUS
<1>4. /\ out'[c] \in Seq(Nat) /\ unacked'[c] \in SUBSET Nat /\ transit'[c] \in SUBSET Nat
      /\ arrived'[c] \in SUBSET Nat
  BY <1>1, <1>2, <1>3, SeqMonotonic
<1>5. queue' \in [Conns -> Seq(Messages)] /\ active' \in [Conns -> Collections]
  BY <1>1 DEF Only, Shape
<1>6. made' \in [Conns -> Seq(Bunches)] /\ out' \in [Conns -> Seq(Nat)]
  BY <1>1, <1>4 DEF Only, Shape
<1>7. unacked' \in [Conns -> SUBSET Nat] /\ transit' \in [Conns -> SUBSET Nat]
  BY <1>4 DEF Only, Shape
<1>8. arrived' \in [Conns -> SUBSET Nat] /\ given' \in [Conns -> Seq(Messages)]
  BY <1>1, <1>4 DEF Only, Shape
<1> QED
  BY <1>5, <1>6, <1>7, <1>8 DEF Shape

LEMMA OthersSame ==
  ASSUME Shape, NEW c \in Conns, Only(c), NEW d \in Conns, d # c
  PROVE  /\ queue'[d] = queue[d] /\ active'[d] = active[d] /\ made'[d] = made[d]
         /\ out'[d] = out[d] /\ unacked'[d] = unacked[d] /\ transit'[d] = transit[d]
         /\ arrived'[d] = arrived[d] /\ given'[d] = given[d]
BY DEF Only, Shape

LEMMA StepChannels ==
  ASSUME Shape, Channels, NEW c \in Conns, Only(c), Chan(c)'
  PROVE  Channels' /\ \A d \in Conns : d # c => Owned(d)' = Owned(d) /\ Gone(d)' = Gone(d)
<1>1. ASSUME NEW d \in Conns, d # c PROVE Chan(d)' /\ Owned(d)' = Owned(d) /\ Gone(d)' = Gone(d)
  BY <1>1, OthersSame DEF Channels, Chan, Owned, Gone
<1> QED
  BY <1>1 DEF Channels

\* A step of one channel that brings it no new message.
Quiet(c) ==
  /\ Only(c) /\ Chan(c)' /\ Owned(c)' \subseteq Owned(c) /\ Gone(c) \subseteq Gone(c)'
  /\ UNCHANGED sending /\ Rest'

LEMMA ChannelStep ==
  ASSUME MsgInv, NEW c \in Conns, Quiet(c)
  PROVE  /\ MsgInv'
         /\ \A d \in Conns : Owned(d)' \subseteq Owned(d) /\ Gone(d) \subseteq Gone(d)'
<1>1. Shape' /\ Channels' /\ \A d \in Conns : Owned(d)' \subseteq Owned(d) /\ Gone(d) \subseteq Gone(d)'
  BY StepShape, StepChannels DEF MsgInv, Quiet
<1>2. Hands'
  <2>1. todo' = todo /\ hand' = hand /\ count' = count
    BY DEF sending, Quiet
  <2>2. todo \in [Threads -> SUBSET Conns]
    BY DEF MsgInv, Rest
  <2> QED
    BY <1>1, <2>1, <2>2 DEF MsgInv, Hands
<1> QED
  BY <1>1, <1>2 DEF MsgInv, Quiet

\* The invariant gives the types.
LEMMA InvTypes == ASSUME MsgInv PROVE TypeOK
<1>1. ASSUME NEW c \in Conns
      PROVE  /\ out[c] \in Seq(1 .. Len(made[c])) /\ unacked[c] \subseteq 1 .. Len(made[c])
             /\ transit[c] \subseteq 1 .. Len(made[c]) /\ arrived[c] \subseteq 1 .. Len(made[c])
  BY DEF MsgInv, Channels, Chan, Sound, Typed, Numbers
<1> QED
  BY <1>1 DEF MsgInv, Rest, Shape, TypeOK
-----------------------------------------------------------------------------
(* Init, and the steps.                                                    *)

LEMMA StartSound ==
  Sound(<< >>, Nothing, << >>, << >>, << >>, {}, {}, {})
<1>1. InBunches(<< >>) = << >>
  BY FlattenEmpty DEF InBunches
<1>2. << >> \in Seq(Messages) /\ << >> \in Seq(Bunches) /\ << >> \in Seq(1 .. Len(<< >>)) /\ Len(<< >>) = 0
  OBVIOUS
<1>3. Held(<< >>, Nothing, << >>) = << >>
  <2>1. << >> \o << >> = << >>
    OBVIOUS
  <2> QED
    BY <1>1, <2>1 DEF Held, Nothing
<1>4. Typed(<< >>, Nothing, << >>, << >>)
  BY <1>2, NothingType, ConstantsOK DEF Typed, ConstantsOK
<1>5. Ordered(<< >>, Nothing, << >>, << >>)
  BY <1>2, <1>3 DEF Ordered
<1>6. Apart(<< >>, Nothing, << >>)
  BY <1>2 DEF Apart, Nothing, Ids
<1>7. Numbers(<< >>, << >>, {}, {}, {})
  BY <1>2 DEF Numbers
<1> QED
  BY <1>4, <1>5, <1>6, <1>7 DEF Sound

LEMMA StartOwned == OwnedIds(<< >>, Nothing, << >>) = {}
BY DEF OwnedIds, Nothing, Ids

LEMMA InitInv == ASSUME Init PROVE MsgInv
<1>1. \A c \in Conns : Chan(c) /\ Owned(c) = {}
  BY StartSound, StartOwned DEF Init, Chan, Owned
<1>2. Rest
  BY ConstantsOK DEF Init, Rest, ConstantsOK
<1>3. Shape
  <2>1. /\ << >> \in Seq(Messages) /\ << >> \in Seq(Bunches) /\ << >> \in Seq(Nat)
        /\ {} \in SUBSET Nat /\ Nothing \in Collections
    BY NothingType
  <2> QED
    BY <2>1 DEF Init, Shape
<1>4. Hands
  BY <1>1 DEF Init, Hands
<1> QED
  BY <1>1, <1>2, <1>3, <1>4 DEF MsgInv, Channels

LEMMA IdsRange ==
  ASSUME NEW s \in Seq(Messages)
  PROVE  Ids(s) \subseteq 1 .. MaxMessages
<1>1. \A i \in DOMAIN s : s[i] \in Messages
  OBVIOUS
<1> QED
  BY <1>1, MessageSize DEF Ids

LEMMA OwnedRange ==
  ASSUME NEW q, NEW a, NEW ms, NEW o, Typed(q, a, ms, o)
  PROVE  OwnedIds(q, a, ms) \subseteq 1 .. MaxMessages
<1>1. Ids(q) \subseteq 1 .. MaxMessages /\ Ids(a.msgs) \subseteq 1 .. MaxMessages
  BY IdsRange DEF Typed, Collections
<1>2. ASSUME NEW k \in 1 .. Len(ms) PROVE Ids(ms[k].msgs) \subseteq 1 .. MaxMessages
  <2>1. ms[k] \in Bunches
    BY DEF Typed
  <2>2. ms[k].msgs \in Seq(Messages)
    BY <2>1 DEF Bunches
  <2> QED
    BY <2>2, IdsRange
<1> QED
  BY <1>1, <1>2 DEF OwnedIds

\* What the invariant says of one channel.
LEMMA OneChannel ==
  ASSUME MsgInv, NEW c \in Conns
  PROVE  Chan(c)
BY DEF MsgInv, Channels

LEMMA OnlySame ==
  ASSUME NEW S, NEW f \in [Conns -> S], NEW c \in Conns
  PROVE  f = [f EXCEPT ![c] = f[c]]
OBVIOUS

LEMMA OnlyOne ==
  ASSUME NEW S, NEW f \in [Conns -> S], NEW c \in Conns, NEW g, NEW v, g = [f EXCEPT ![c] = v]
  PROVE  g[c] = v /\ g = [f EXCEPT ![c] = g[c]]
OBVIOUS

LEMMA StepTakeMessage ==
  ASSUME MsgInv, NEW c \in Conns, TakeMessage(c)
  PROVE  Quiet(c)
<1>1. PICK q : q = queue[c]
  OBVIOUS
<1>2. PICK a : a = active[c]
  OBVIOUS
<1>3. PICK ms : ms = made[c]
  OBVIOUS
<1>4. PICK o : o = out[c]
  OBVIOUS
<1>5. Sound(q, a, ms, o, given[c], unacked[c], transit[c], arrived[c])
  BY <1>1, <1>2, <1>3, <1>4, OneChannel DEF Chan
<1>6. q # << >>
  BY <1>1 DEF TakeMessage
<1> DEFINE fits == Fits(a, Head(q))
           b == IF fits THEN Insert(a, Head(q)) ELSE Retried(Head(q))
           sealed == IF fits THEN << >> ELSE << a >>
           groups == IF IsFull(b) THEN Append(sealed, b) ELSE sealed
           rest == IF IsFull(b) THEN Nothing ELSE b
           mt == ms \o Bunched(groups)
           p == o \o Numbered(Len(ms), groups)
<1>7. /\ Sound(Tail(q), rest, mt, p, given[c], unacked[c], transit[c], arrived[c])
      /\ OwnedIds(Tail(q), rest, mt) \subseteq OwnedIds(q, a, ms)
      /\ GoneIds(ms, o) \subseteq GoneIds(mt, p)
  BY <1>5, <1>6, TakeOutcome
<1>8. Seal(c, groups, rest)
  BY <1>1, <1>2 DEF TakeMessage
<1>9. /\ queue \in [Conns -> Seq(Messages)] /\ active \in [Conns -> Collections]
      /\ made \in [Conns -> Seq(Bunches)] /\ out \in [Conns -> Seq(Nat)]
      /\ unacked \in [Conns -> SUBSET Nat] /\ transit \in [Conns -> SUBSET Nat]
      /\ arrived \in [Conns -> SUBSET Nat] /\ given \in [Conns -> Seq(Messages)]
  BY DEF MsgInv, Shape
<1>10. /\ queue' = [queue EXCEPT ![c] = Tail(q)] /\ active' = [active EXCEPT ![c] = rest]
       /\ made' = [made EXCEPT ![c] = mt] /\ out' = [out EXCEPT ![c] = p]
       /\ unacked' = unacked /\ transit' = transit /\ arrived' = arrived /\ given' = given
  <2>1. queue' = [queue EXCEPT ![c] = Tail(q)] /\ unacked' = unacked /\ transit' = transit
        /\ arrived' = arrived /\ given' = given
    BY <1>1, <1>9 DEF TakeMessage, network
  <2>2. active' = [active EXCEPT ![c] = rest] /\ made' = [made EXCEPT ![c] = mt] /\ out' = [out EXCEPT ![c] = p]
    BY <1>3, <1>4, <1>8, <1>9 DEF Seal, Bunched, Numbered
  <2> QED
    BY <2>1, <2>2
<1> HIDE DEF rest, mt, p
<1>11. Only(c) /\ queue'[c] = Tail(q) /\ active'[c] = rest /\ made'[c] = mt /\ out'[c] = p
  BY <1>9, <1>10, OnlySame, OnlyOne DEF Only
<1>12. Chan(c)' /\ Owned(c)' \subseteq Owned(c) /\ Gone(c) \subseteq Gone(c)'
  BY <1>1, <1>2, <1>3, <1>4, <1>7, <1>10, <1>11 DEF Chan, Owned, Gone
<1>13. UNCHANGED sending /\ Rest'
  <2>1. /\ taken' = [taken EXCEPT ![c] = @ + 1] /\ taken[c] < BatchLimit
        /\ count' = count /\ hand' = hand /\ todo' = todo /\ job' = job /\ released' = released
    BY DEF TakeMessage, sending
  <2>2. taken \in [Conns -> 0 .. BatchLimit] /\ BatchLimit \in Nat
    BY ConstantsOK DEF MsgInv, Rest, ConstantsOK
  <2>3. taken[c] + 1 \in 0 .. BatchLimit
    BY <2>1, <2>2
  <2>4. taken' \in [Conns -> 0 .. BatchLimit]
    BY <2>1, <2>2, <2>3
  <2> QED
    BY <2>1, <2>4 DEF MsgInv, Rest, sending
<1> QED
  BY <1>11, <1>12, <1>13 DEF Quiet

LEMMA StepFlushTail ==
  ASSUME MsgInv, NEW c \in Conns, FlushTail(c)
  PROVE  Quiet(c)
<1>1. PICK a : a = active[c]
  OBVIOUS
<1>2. PICK ms : ms = made[c]
  OBVIOUS
<1>3. PICK o : o = out[c]
  OBVIOUS
<1>4. Sound(queue[c], a, ms, o, given[c], unacked[c], transit[c], arrived[c])
  BY <1>1, <1>2, <1>3, OneChannel DEF Chan
<1> DEFINE groups == IF a.msgs = << >> THEN << >> ELSE << a >>
           mt == ms \o Bunched(groups)
           p == o \o Numbered(Len(ms), groups)
<1>5. /\ Sound(queue[c], Nothing, mt, p, given[c], unacked[c], transit[c], arrived[c])
      /\ OwnedIds(queue[c], Nothing, mt) \subseteq OwnedIds(queue[c], a, ms)
      /\ GoneIds(ms, o) \subseteq GoneIds(mt, p)
  BY <1>4, FlushOutcome
<1>6. Seal(c, groups, Nothing)
  BY <1>1 DEF FlushTail
<1>7. /\ queue \in [Conns -> Seq(Messages)] /\ active \in [Conns -> Collections]
      /\ made \in [Conns -> Seq(Bunches)] /\ out \in [Conns -> Seq(Nat)]
      /\ unacked \in [Conns -> SUBSET Nat] /\ transit \in [Conns -> SUBSET Nat]
      /\ arrived \in [Conns -> SUBSET Nat] /\ given \in [Conns -> Seq(Messages)]
  BY DEF MsgInv, Shape
<1>8. /\ active' = [active EXCEPT ![c] = Nothing]
      /\ made' = [made EXCEPT ![c] = mt] /\ out' = [out EXCEPT ![c] = p]
  BY <1>2, <1>3, <1>6, <1>7 DEF Seal, Bunched, Numbered
<1>9. /\ queue' = queue /\ unacked' = unacked /\ transit' = transit /\ arrived' = arrived
      /\ given' = given
  BY DEF FlushTail, network
<1> HIDE DEF mt, p
<1>10. Only(c) /\ active'[c] = Nothing /\ made'[c] = mt /\ out'[c] = p
  BY <1>7, <1>8, <1>9, OnlySame, OnlyOne DEF Only
<1>11. Chan(c)' /\ Owned(c)' \subseteq Owned(c) /\ Gone(c) \subseteq Gone(c)'
  BY <1>1, <1>2, <1>3, <1>5, <1>9, <1>10 DEF Chan, Owned, Gone
<1>12. UNCHANGED sending /\ Rest'
  BY DEF FlushTail, sending, MsgInv, Rest
<1> QED
  BY <1>10, <1>11, <1>12 DEF Quiet

\* A step that leaves the messages of the channel where they are.
LEMMA KeptStep ==
  ASSUME MsgInv, NEW c \in Conns, UNCHANGED << queue, active, made, given >>,
         NEW o, NEW u, NEW tr, NEW ar,
         out' = [out EXCEPT ![c] = o], unacked' = [unacked EXCEPT ![c] = u],
         transit' = [transit EXCEPT ![c] = tr], arrived' = [arrived EXCEPT ![c] = ar],
         o \in Seq(1 .. Len(made[c])), Numbers(made[c], o, u, tr, ar),
         Gone(c) \subseteq GoneIds(made[c], o), UNCHANGED sending, Rest'
  PROVE  Quiet(c)
<1>1. /\ queue \in [Conns -> Seq(Messages)] /\ active \in [Conns -> Collections]
      /\ made \in [Conns -> Seq(Bunches)] /\ out \in [Conns -> Seq(Nat)]
      /\ unacked \in [Conns -> SUBSET Nat] /\ transit \in [Conns -> SUBSET Nat]
      /\ arrived \in [Conns -> SUBSET Nat] /\ given \in [Conns -> Seq(Messages)]
  BY DEF MsgInv, Shape
<1>2. Only(c) /\ out'[c] = o /\ unacked'[c] = u /\ transit'[c] = tr /\ arrived'[c] = ar
  BY <1>1, OnlySame, OnlyOne DEF Only
<1>3. Typed(queue[c], active[c], made[c], o)
  BY OneChannel DEF Chan, Sound, Typed
<1>4. Chan(c)'
  BY <1>2, <1>3, OneChannel DEF Chan, Sound
<1>5. Owned(c)' = Owned(c) /\ Gone(c) \subseteq Gone(c)'
  BY <1>2 DEF Owned, Gone
<1> QED
  BY <1>2, <1>4, <1>5 DEF Quiet

LEMMA TailGone ==
  ASSUME NEW ms, NEW o \in Seq(1 .. Len(ms)), o # << >>
  PROVE  GoneIds(ms, o) \subseteq GoneIds(ms, Tail(o))
<1>1. PICK n \in Nat \ {0} : n = Len(o)
  OBVIOUS
<1>2. PICK t : t = Tail(o)
  OBVIOUS
<1>3. Len(t) = n - 1 /\ \A i \in 1 .. n - 1 : t[i] = o[i + 1] /\ i + 1 \in 1 .. n
  BY <1>1, <1>2
<1>4. \A l : (\A i \in 1 .. n : o[i] # l) => \A i \in 1 .. n - 1 : t[i] # l
  BY <1>3
<1> QED
  BY <1>1, <1>2, <1>3, <1>4 DEF GoneIds

LEMMA PushGone ==
  ASSUME NEW ms, NEW o \in Seq(1 .. Len(ms)), NEW k \in 1 .. Len(ms), ~IsDiscarded(ms[k])
  PROVE  GoneIds(ms, o) \subseteq GoneIds(ms, << k >> \o o)
<1>1. PICK n \in Nat : n = Len(o)
  OBVIOUS
<1>2. PICK t : t = << k >> \o o
  OBVIOUS
<1>3. Len(t) = n + 1 /\ t[1] = k /\ \A i \in 1 .. n : t[i + 1] = o[i]
  BY <1>1, <1>2
<1>4. \A i \in 1 .. n + 1 : i # 1 => i - 1 \in 1 .. n /\ (i - 1) + 1 = i
  OBVIOUS
<1>5. \A i \in 1 .. n + 1 : i # 1 => t[i] = o[i - 1]
  BY <1>3, <1>4
<1>6. ASSUME NEW l, IsDiscarded(ms[l]), \A i \in 1 .. n : o[i] # l
      PROVE  \A i \in 1 .. n + 1 : t[i] # l
  BY <1>3, <1>4, <1>5, <1>6
<1>7. GoneIds(ms, o) \subseteq GoneIds(ms, t)
  <2>1. ASSUME NEW x \in GoneIds(ms, o) PROVE x \in GoneIds(ms, t)
    <3>1. PICK l \in 1 .. Len(ms) :
             IsDiscarded(ms[l]) /\ (\A i \in 1 .. Len(o) : o[i] # l) /\ x \in Ids(ms[l].msgs)
      BY DEF GoneIds
    <3>2. \A i \in 1 .. Len(t) : t[i] # l
      BY <1>1, <1>3, <1>6, <3>1
    <3> QED
      BY <3>1, <3>2 DEF GoneIds
  <2> QED
    BY <2>1
<1> QED
  BY <1>2, <1>7

LEMMA StepStartTick ==
  ASSUME MsgInv, NEW c \in Conns, StartTick(c) \/ EndTick(c)
  PROVE  Quiet(c)
<1>1. /\ queue' = queue /\ active' = active /\ made' = made /\ out' = out /\ unacked' = unacked
      /\ transit' = transit /\ arrived' = arrived /\ given' = given
      /\ count' = count /\ hand' = hand /\ todo' = todo
  BY DEF StartTick, EndTick, sending, channel, network
<1>2. /\ out \in [Conns -> Seq(Nat)] /\ unacked \in [Conns -> SUBSET Nat]
      /\ transit \in [Conns -> SUBSET Nat] /\ arrived \in [Conns -> SUBSET Nat]
  BY DEF MsgInv, Shape
<1>3. /\ out' = [out EXCEPT ![c] = out[c]] /\ unacked' = [unacked EXCEPT ![c] = unacked[c]]
      /\ transit' = [transit EXCEPT ![c] = transit[c]] /\ arrived' = [arrived EXCEPT ![c] = arrived[c]]
  BY <1>1, <1>2, OnlySame
<1>4. out[c] \in Seq(1 .. Len(made[c])) /\ Numbers(made[c], out[c], unacked[c], transit[c], arrived[c])
  BY OneChannel DEF Chan, Sound, Typed
<1>5. Rest'
  <2>1. 0 \in 0 .. BatchLimit
    BY ConstantsOK DEF ConstantsOK
  <2> QED
    BY <2>1, <1>1 DEF StartTick, EndTick, MsgInv, Rest
<1>6. Gone(c) \subseteq GoneIds(made[c], out[c])
  BY DEF Gone
<1>7. UNCHANGED << queue, active, made, given >> /\ UNCHANGED sending
  BY <1>1 DEF sending
<1> QED
  BY <1>3, <1>4, <1>5, <1>6, <1>7, KeptStep

LEMMA StepDiscardBunch ==
  ASSUME MsgInv, NEW c \in Conns, DiscardBunch(c)
  PROVE  Quiet(c)
<1>1. /\ queue' = queue /\ active' = active /\ made' = made /\ unacked' = unacked
      /\ transit' = transit /\ arrived' = arrived /\ given' = given
      /\ count' = count /\ hand' = hand /\ todo' = todo
      /\ job' = job /\ taken' = taken
  BY DEF DiscardBunch, sending, network, worker
<1>2. /\ out \in [Conns -> Seq(Nat)] /\ unacked \in [Conns -> SUBSET Nat]
      /\ transit \in [Conns -> SUBSET Nat] /\ arrived \in [Conns -> SUBSET Nat]
  BY DEF MsgInv, Shape
<1>3. out' = [out EXCEPT ![c] = Tail(out[c])]
  BY <1>2 DEF DiscardBunch, Dequeued
<1>4. /\ unacked' = [unacked EXCEPT ![c] = unacked[c]]
      /\ transit' = [transit EXCEPT ![c] = transit[c]] /\ arrived' = [arrived EXCEPT ![c] = arrived[c]]
  BY <1>1, <1>2, OnlySame
<1>5. out[c] # << >> /\ out[c] \in Seq(1 .. Len(made[c]))
      /\ Numbers(made[c], out[c], unacked[c], transit[c], arrived[c])
  BY OneChannel DEF Chan, Sound, Typed, DiscardBunch
<1>6. Numbers(made[c], Tail(out[c]), unacked[c], transit[c], arrived[c])
      /\ Tail(out[c]) \in Seq(1 .. Len(made[c]))
  BY <1>5, TakenNumbers
<1>7. Gone(c) \subseteq GoneIds(made[c], Tail(out[c]))
  BY <1>5, TailGone DEF Gone
<1>8. Rest'
  <2>1. released \in [1 .. MaxMessages -> Nat]
    BY DEF MsgInv, Rest
  <2>2. PICK ids : released' = [m \in DOMAIN released |-> IF m \in ids THEN released[m] + 1 ELSE released[m]]
    BY DEF DiscardBunch
  <2>3. released' \in [1 .. MaxMessages -> Nat]
    BY <2>1, <2>2
  <2> QED
    BY <1>1, <2>3 DEF MsgInv, Rest
<1>9. UNCHANGED << queue, active, made, given >> /\ UNCHANGED sending
  BY <1>1 DEF sending
<1> QED
  BY <1>3, <1>4, <1>6, <1>7, <1>8, <1>9, KeptStep

LEMMA StepPackBunch ==
  ASSUME MsgInv, NEW c \in Conns, PackBunch(c)
  PROVE  Quiet(c)
<1>1. /\ queue' = queue /\ active' = active /\ made' = made
      /\ arrived' = arrived /\ given' = given /\ released' = released
      /\ count' = count /\ hand' = hand /\ todo' = todo
      /\ job' = job /\ taken' = taken
  BY DEF PackBunch, sending, network, worker
<1>2. /\ out \in [Conns -> Seq(Nat)] /\ unacked \in [Conns -> SUBSET Nat]
      /\ transit \in [Conns -> SUBSET Nat] /\ arrived \in [Conns -> SUBSET Nat]
  BY DEF MsgInv, Shape
<1>3. PICK k : k = Head(out[c])
  OBVIOUS
<1>4. PICK v \in {transit[c], transit[c] \cup {k}} :
         /\ ~IsDiscarded(made[c][k])
         /\ out' = [out EXCEPT ![c] = Tail(out[c])]
         /\ unacked' = [unacked EXCEPT ![c] = unacked[c] \cup {k}]
         /\ transit' = [transit EXCEPT ![c] = v]
  BY <1>2, <1>3 DEF PackBunch, Dequeued
<1>5. arrived' = [arrived EXCEPT ![c] = arrived[c]]
  BY <1>1, <1>2, OnlySame
<1>6. out[c] # << >> /\ out[c] \in Seq(1 .. Len(made[c]))
      /\ Numbers(made[c], out[c], unacked[c], transit[c], arrived[c])
  BY OneChannel DEF Chan, Sound, Typed, PackBunch
<1>7. Numbers(made[c], Tail(out[c]), unacked[c] \cup {k}, v, arrived[c])
      /\ Tail(out[c]) \in Seq(1 .. Len(made[c]))
  <2>1. PICK o : o = out[c]
    OBVIOUS
  <2>2. o \in Seq(1 .. Len(made[c])) /\ o # << >> /\ k = Head(o)
        /\ Numbers(made[c], o, unacked[c], transit[c], arrived[c])
    BY <1>3, <1>6, <2>1
  <2>3. /\ Tail(o) \in Seq(1 .. Len(made[c]))
        /\ ~IsDiscarded(made[c][Head(o)]) => \A w \in {transit[c], transit[c] \cup {Head(o)}} :
              Numbers(made[c], Tail(o), unacked[c] \cup {Head(o)}, w, arrived[c])
    BY <2>2, TakenNumbers
  <2> QED
    BY <1>4, <2>1, <2>2, <2>3
<1>8. Gone(c) \subseteq GoneIds(made[c], Tail(out[c]))
  BY <1>6, TailGone DEF Gone
<1>9. Rest'
  BY <1>1 DEF MsgInv, Rest
<1>10. UNCHANGED << queue, active, made, given >> /\ UNCHANGED sending
  BY <1>1 DEF sending
<1> QED
  BY <1>4, <1>5, <1>7, <1>8, <1>9, <1>10, KeptStep

LEMMA StepReport ==
  ASSUME MsgInv, NEW c \in Conns, NEW k, Ack(c, k) \/ Nack(c, k)
  PROVE  Quiet(c)
<1>1. /\ queue' = queue /\ active' = active /\ made' = made /\ transit' = transit
      /\ arrived' = arrived /\ given' = given /\ released' = released
      /\ count' = count /\ hand' = hand /\ todo' = todo
      /\ job' = job /\ taken' = taken
  BY DEF Ack, Nack, sending, network, worker
<1>2. /\ out \in [Conns -> Seq(Nat)] /\ unacked \in [Conns -> SUBSET Nat]
      /\ transit \in [Conns -> SUBSET Nat] /\ arrived \in [Conns -> SUBSET Nat]
  BY DEF MsgInv, Shape
<1>3. PICK o \in {out[c], << k >> \o out[c]} : out' = [out EXCEPT ![c] = o]
  BY <1>2, OnlySame DEF Ack, Nack, PutBack
<1>4. unacked' = [unacked EXCEPT ![c] = unacked[c] \ {k}] /\ k \in unacked[c]
  BY <1>2 DEF Ack, Nack
<1>5. transit' = [transit EXCEPT ![c] = transit[c]] /\ arrived' = [arrived EXCEPT ![c] = arrived[c]]
  BY <1>1, <1>2, OnlySame
<1>6. out[c] \in Seq(1 .. Len(made[c])) /\ Numbers(made[c], out[c], unacked[c], transit[c], arrived[c])
  BY OneChannel DEF Chan, Sound, Typed
<1>7. Numbers(made[c], out[c], unacked[c] \ {k}, transit[c], arrived[c])
  BY <1>6 DEF Numbers
<1>8. /\ Numbers(made[c], << k >> \o out[c], unacked[c] \ {k}, transit[c], arrived[c])
      /\ << k >> \o out[c] \in Seq(1 .. Len(made[c]))
  BY <1>4, <1>6, NackNumbers
<1>9. Gone(c) \subseteq GoneIds(made[c], << k >> \o out[c])
  <2>1. k \in 1 .. Len(made[c]) /\ ~IsDiscarded(made[c][k])
    BY <1>4, <1>6 DEF Numbers
  <2> QED
    BY <1>6, <2>1, PushGone DEF Gone
<1>10. /\ Numbers(made[c], o, unacked[c] \ {k}, transit[c], arrived[c])
       /\ o \in Seq(1 .. Len(made[c])) /\ Gone(c) \subseteq GoneIds(made[c], o)
  BY <1>3, <1>6, <1>7, <1>8, <1>9 DEF Gone
<1>11. Rest'
  BY <1>1 DEF MsgInv, Rest
<1>12. UNCHANGED << queue, active, made, given >> /\ UNCHANGED sending
  BY <1>1 DEF sending
<1> QED
  BY <1>3, <1>4, <1>5, <1>10, <1>11, <1>12, KeptStep

LEMMA StepNetwork ==
  ASSUME MsgInv, NEW c \in Conns, NEW k, Lose(c, k) \/ Arrive(c, k)
  PROVE  Quiet(c)
<1>1. /\ queue' = queue /\ active' = active /\ made' = made /\ out' = out /\ unacked' = unacked
      /\ given' = given /\ released' = released
      /\ count' = count /\ hand' = hand /\ todo' = todo
      /\ job' = job /\ taken' = taken
  BY DEF Lose, Arrive, sending, channel, worker
<1>2. /\ out \in [Conns -> Seq(Nat)] /\ unacked \in [Conns -> SUBSET Nat]
      /\ transit \in [Conns -> SUBSET Nat] /\ arrived \in [Conns -> SUBSET Nat]
  BY DEF MsgInv, Shape
<1>3. out' = [out EXCEPT ![c] = out[c]] /\ unacked' = [unacked EXCEPT ![c] = unacked[c]]
  BY <1>1, <1>2, OnlySame
<1>4. transit' = [transit EXCEPT ![c] = transit[c] \ {k}] /\ k \in transit[c]
  BY <1>2 DEF Lose, Arrive
<1>5. PICK ar \in {arrived[c], arrived[c] \cup {k}} : arrived' = [arrived EXCEPT ![c] = ar]
  BY <1>2, OnlySame DEF Lose, Arrive
<1>6. out[c] \in Seq(1 .. Len(made[c])) /\ Numbers(made[c], out[c], unacked[c], transit[c], arrived[c])
  BY OneChannel DEF Chan, Sound, Typed
<1>7. Numbers(made[c], out[c], unacked[c], transit[c] \ {k}, ar)
  BY <1>4, <1>5, <1>6 DEF Numbers
<1>8. Gone(c) \subseteq GoneIds(made[c], out[c])
  BY DEF Gone
<1>9. Rest'
  BY <1>1 DEF MsgInv, Rest
<1>10. UNCHANGED << queue, active, made, given >> /\ UNCHANGED sending
  BY <1>1 DEF sending
<1> QED
  BY <1>3, <1>4, <1>5, <1>6, <1>7, <1>8, <1>9, <1>10, KeptStep

\* The sending threads.
LEMMA StepSend ==
  ASSUME MsgInv, NEW t \in Threads, NEW size \in Sizes, NEW recipients \in Recipients,
         Send(t, size, recipients)
  PROVE  /\ MsgInv'
         /\ \A d \in Conns : Owned(d)' = Owned(d) /\ Gone(d)' = Gone(d)
<1>1. /\ queue' = queue /\ active' = active /\ made' = made /\ out' = out /\ unacked' = unacked
      /\ transit' = transit /\ arrived' = arrived /\ given' = given /\ released' = released
      /\ job' = job /\ taken' = taken
  BY DEF Send, channel, network, worker
<1>2. Shape' /\ Channels' /\ \A d \in Conns : Owned(d)' = Owned(d) /\ Gone(d)' = Gone(d)
  BY <1>1 DEF MsgInv, Shape, Channels, Chan, Owned, Gone
<1>3. /\ count \in 0 .. MaxMessages /\ MaxMessages \in Nat /\ count < MaxMessages
      /\ hand \in [Threads -> Messages \cup {NoMessage}] /\ todo \in [Threads -> SUBSET Conns]
      /\ recipients \subseteq Conns
  BY ConstantsOK DEF MsgInv, Rest, Send, ConstantsOK
<1>4. PICK m : m = [id |-> count + 1, size |-> size]
  OBVIOUS
<1>5. m \in Messages /\ m.id = count + 1
  BY <1>3, <1>4 DEF Messages
<1>6. /\ count' = count + 1 /\ hand' = [hand EXCEPT ![t] = m]
      /\ todo' = [todo EXCEPT ![t] = recipients] /\ todo[t] = {}
  BY <1>4 DEF Send
<1>7. Rest'
  BY <1>1, <1>3, <1>5, <1>6 DEF MsgInv, Rest
<1>8. /\ hand'[t] = m /\ \A s \in Threads : s # t => hand'[s] = hand[s] /\ todo'[s] = todo[s]
  BY <1>3, <1>6
<1>9. /\ \A s \in Threads : todo[s] # {} => hand[s] \in Messages /\ hand[s].id \in Nat /\ hand[s].id <= count
      /\ \A d \in Conns : \A i \in Owned(d) : i <= count
  BY MessageSize DEF MsgInv, Hands
<1>10. ASSUME NEW s \in Threads, todo'[s] # {}
       PROVE  /\ hand'[s] \in Messages /\ hand'[s].id <= count'
              /\ s # t => hand'[s].id # m.id
  <2>1. CASE s = t
    BY <1>3, <1>5, <1>6, <1>8, <2>1
  <2>2. CASE s # t
    BY <1>3, <1>5, <1>6, <1>8, <1>9, <1>10, <2>2
  <2> QED
    BY <2>1, <2>2
<1>11. \A r, s \in Threads :
          todo'[r] # {} /\ todo'[s] # {} /\ hand'[r].id = hand'[s].id => r = s
  <2>1. ASSUME NEW r \in Threads, NEW s \in Threads, todo'[r] # {}, todo'[s] # {}, hand'[r].id = hand'[s].id, r # s
        PROVE  FALSE
    <3>1. CASE r = t \/ s = t
      BY <1>8, <1>10, <2>1, <3>1
    <3>2. CASE r # t /\ s # t
      BY <1>8, <2>1, <3>2 DEF MsgInv, Hands
    <3> QED
      BY <3>1, <3>2
  <2> QED
    BY <2>1
<1>12. ASSUME NEW s \in Threads, NEW c \in todo'[s] PROVE hand'[s].id \notin Owned(c)'
  <2>1. c \in Conns
    <3>1. todo' \in [Threads -> SUBSET Conns]
      BY <1>7 DEF Rest
    <3> QED
      BY <3>1
  <2>2. CASE s = t
    <3>1. \A i \in Owned(c) : i <= count
      BY <1>9, <2>1
    <3>2. count + 1 \notin Owned(c)
      BY <1>3, <3>1
    <3> QED
      BY <1>2, <1>5, <1>8, <2>1, <2>2, <3>2
  <2>3. CASE s # t
    BY <1>2, <1>8, <2>1, <2>3 DEF MsgInv, Hands
  <2> QED
    BY <2>2, <2>3
<1>13. ASSUME NEW c \in Conns, NEW i \in Owned(c)' PROVE i <= count'
  <2>1. i \in 1 .. MaxMessages
    BY <1>2, OwnedRange, OneChannel DEF Owned, Chan, Sound
  <2> QED
    BY <1>2, <1>3, <1>6, <1>9, <2>1
<1>14. Hands'
  BY <1>10, <1>11, <1>12, <1>13 DEF Hands
<1> QED
  BY <1>2, <1>7, <1>14 DEF MsgInv

LEMMA StepSubmit ==
  ASSUME MsgInv, NEW t \in Threads, NEW c \in Conns, Submit(t, c)
  PROVE  /\ MsgInv'
         /\ Owned(c)' = Owned(c) \cup {hand[t].id}
         /\ \A d \in Conns : d # c => Owned(d)' = Owned(d)
         /\ \A d \in Conns : Gone(d)' = Gone(d)
<1>1. /\ active' = active /\ made' = made /\ out' = out /\ unacked' = unacked
      /\ transit' = transit /\ arrived' = arrived /\ count' = count
      /\ job' = job /\ taken' = taken /\ released' = released
  BY DEF Submit, network, worker
<1>2. /\ queue \in [Conns -> Seq(Messages)] /\ active \in [Conns -> Collections]
      /\ made \in [Conns -> Seq(Bunches)] /\ out \in [Conns -> Seq(Nat)]
      /\ unacked \in [Conns -> SUBSET Nat] /\ transit \in [Conns -> SUBSET Nat]
      /\ arrived \in [Conns -> SUBSET Nat] /\ given \in [Conns -> Seq(Messages)]
  BY DEF MsgInv, Shape
<1>3. PICK m : m = hand[t]
  OBVIOUS
<1>4. /\ c \in todo[t] /\ queue' = [queue EXCEPT ![c] = Append(queue[c], m)]
      /\ given' = [given EXCEPT ![c] = Append(given[c], m)]
  BY <1>2, <1>3 DEF Submit
<1>5. /\ m \in Messages /\ m.id <= count /\ m.id \notin Owned(c)
  BY <1>3, <1>4 DEF MsgInv, Hands
<1>6. Only(c) /\ queue'[c] = Append(queue[c], m) /\ given'[c] = Append(given[c], m)
  BY <1>1, <1>2, <1>4, OnlySame, OnlyOne DEF Only
<1>7. Chan(c) /\ Typed(queue[c], active[c], made[c], out[c])
  BY OneChannel DEF Chan, Sound
<1>8. Typed(queue[c], active[c], made[c], out[c])'
  <2>1. queue[c] \in Seq(Messages) /\ Append(queue[c], m) \in Seq(Messages)
    BY <1>2, <1>5
  <2> QED
    BY <1>1, <1>6, <1>7, <2>1 DEF Typed
<1>9. Ordered(Append(queue[c], m), active[c], made[c], Append(given[c], m))
  BY <1>5, <1>7, SubmitOrdered DEF Chan, Sound
<1>10. /\ Apart(Append(queue[c], m), active[c], made[c])
       /\ OwnedIds(Append(queue[c], m), active[c], made[c]) = Owned(c) \cup {m.id}
  BY <1>5, <1>7, SubmitApart DEF Chan, Sound, Owned
<1>11. Chan(c)'
  BY <1>1, <1>6, <1>7, <1>8, <1>9, <1>10 DEF Chan, Sound
<1>12. Owned(c)' = Owned(c) \cup {m.id} /\ Gone(c)' = Gone(c)
  BY <1>1, <1>6, <1>10 DEF Owned, Gone
<1>13. Shape' /\ Channels' /\ \A d \in Conns : d # c => Owned(d)' = Owned(d) /\ Gone(d)' = Gone(d)
  BY <1>6, <1>11, StepShape, StepChannels DEF MsgInv
<1>14. /\ hand \in [Threads -> Messages \cup {NoMessage}] /\ todo \in [Threads -> SUBSET Conns]
  BY DEF MsgInv, Rest
<1>15. PICK h \in {m, NoMessage} :
          /\ hand' = [hand EXCEPT ![t] = h] /\ todo' = [todo EXCEPT ![t] = todo[t] \ {c}]
          /\ todo'[t] # {} => h = m
  <2>1. todo' = [todo EXCEPT ![t] = todo[t] \ {c}]
    BY <1>14 DEF Submit
  <2>2. hand' = [hand EXCEPT ![t] = IF todo'[t] = {} THEN NoMessage ELSE m]
    BY <1>3, <1>14 DEF Submit
  <2> QED
    BY <2>1, <2>2
<1>16. Rest'
  <2>1. hand' \in [Threads -> Messages \cup {NoMessage}] /\ todo' \in [Threads -> SUBSET Conns]
    BY <1>5, <1>14, <1>15
  <2> QED
    BY <1>1, <2>1 DEF MsgInv, Rest
<1>17. ASSUME NEW s \in Threads, todo'[s] # {}
       PROVE  hand'[s] = hand[s] /\ todo[s] # {} /\ todo'[s] \subseteq todo[s]
  BY <1>3, <1>14, <1>15, <1>17
<1>18. ASSUME NEW s \in Threads, NEW d \in todo'[s] PROVE hand'[s].id \notin Owned(d)'
  <2>1. d \in todo[s] /\ d \in Conns /\ hand'[s] = hand[s] /\ todo[s] # {} /\ todo[t] # {}
    BY <1>4, <1>14, <1>17, <1>18
  <2>2. hand[s].id \notin Owned(d)
    BY <2>1 DEF MsgInv, Hands
  <2>3. CASE d # c
    BY <1>13, <2>1, <2>2, <2>3
  <2>4. CASE d = c
    <3>1. s # t
      BY <1>14, <1>15, <1>18, <2>4
    <3>2. hand[s].id # m.id
      BY <1>3, <2>1, <3>1 DEF MsgInv, Hands
    <3> QED
      BY <1>12, <2>1, <2>2, <2>4, <3>2
  <2> QED
    BY <2>3, <2>4
<1>19. ASSUME NEW d \in Conns, NEW i \in Owned(d)' PROVE i <= count'
  BY <1>1, <1>5, <1>12, <1>13 DEF MsgInv, Hands
<1>20. /\ \A s \in Threads : todo'[s] # {} => hand'[s] \in Messages /\ hand'[s].id <= count'
       /\ \A r, s \in Threads :
             todo'[r] # {} /\ todo'[s] # {} /\ hand'[r].id = hand'[s].id => r = s
  BY <1>1, <1>17 DEF MsgInv, Hands
<1>21. Hands'
  BY <1>18, <1>19, <1>20 DEF Hands
<1> QED
  BY <1>3, <1>12, <1>13, <1>16, <1>21 DEF MsgInv

\* Every other step is one of a channel.
ChannelAction(c) ==
  WorkerStep(c) \/ \E k \in 1 .. Len(made[c]) : Ack(c, k) \/ Nack(c, k) \/ Lose(c, k) \/ Arrive(c, k)

LEMMA StepChannel ==
  ASSUME MsgInv, NEW c \in Conns, ChannelAction(c)
  PROVE  Quiet(c)
<1>1. CASE WorkerStep(c)
  BY <1>1, StepStartTick, StepTakeMessage, StepFlushTail, StepPackBunch, StepDiscardBunch DEF WorkerStep
<1>2. CASE \E k \in 1 .. Len(made[c]) : Ack(c, k) \/ Nack(c, k) \/ Lose(c, k) \/ Arrive(c, k)
  BY <1>2, StepReport, StepNetwork
<1> QED
  BY <1>1, <1>2 DEF ChannelAction

LEMMA StutterInv ==
  ASSUME MsgInv, UNCHANGED vars
  PROVE  MsgInv' /\ \A d \in Conns : Owned(d)' = Owned(d) /\ Gone(d)' = Gone(d)
<1>1. /\ queue' = queue /\ active' = active /\ made' = made /\ out' = out /\ unacked' = unacked
      /\ transit' = transit /\ arrived' = arrived /\ given' = given /\ released' = released
      /\ count' = count /\ hand' = hand /\ todo' = todo /\ job' = job /\ taken' = taken
  BY DEF vars, sending, channel, network, worker
<1>2. Rest' /\ Shape'
  BY <1>1 DEF MsgInv, Rest, Shape
<1>3. Channels' /\ \A d \in Conns : Owned(d)' = Owned(d) /\ Gone(d)' = Gone(d)
  BY <1>1 DEF MsgInv, Channels, Chan, Owned, Gone
<1>4. todo \in [Threads -> SUBSET Conns]
  BY DEF MsgInv, Rest
<1>5. Hands'
  BY <1>1, <1>3, <1>4 DEF MsgInv, Hands
<1> QED
  BY <1>2, <1>3, <1>5 DEF MsgInv

LEMMA StepInv ==
  ASSUME MsgInv, [Next]_vars
  PROVE  MsgInv'
<1>1. CASE UNCHANGED vars
  BY <1>1, StutterInv
<1>2. ASSUME NEW t \in Threads, NEW size \in Sizes, NEW recipients \in Recipients,
             Send(t, size, recipients)
      PROVE  MsgInv'
  BY <1>2, StepSend
<1>3. ASSUME NEW t \in Threads, NEW c \in Conns, Submit(t, c)
      PROVE  MsgInv'
  BY <1>3, StepSubmit
<1>4. ASSUME NEW c \in Conns, ChannelAction(c)
      PROVE  MsgInv'
  BY <1>4, StepChannel, ChannelStep
<1> QED
  BY <1>1, <1>2, <1>3, <1>4 DEF Next, ChannelAction

LEMMA Invariance == Spec => []MsgInv
<1>1. Init => MsgInv
  BY InitInv
<1>2. MsgInv /\ [Next]_vars => MsgInv'
  BY StepInv
<1> QED
  BY <1>1, <1>2, PTL DEF Spec
-----------------------------------------------------------------------------
(* The theorems.                                                           *)

\* The types; among them that the field for the number of messages, eight bits
\* wide in BunchHeader, never overflows, and that QueuedOutBunch, OutBunchQueue
\* and OutUnAckedBunches hold only numbers of bunches that were sealed.
THEOREM TypeCorrect == Spec => []TypeOK
<1>1. MsgInv => TypeOK
  BY InvTypes
<1> QED
  BY <1>1, Invariance, PTL

\* No message is split, repeated or overtaken when NetBunchBuilder::Pump seals a
\* bunch early, full or at the end of a batch; only a message larger than a
\* bunch may be dropped.
THEOREM OneBunchEach == Spec => []EachInOneBunch
<1>1. ASSUME MsgInv, NEW c \in Conns
      PROVE  SmallOf(FlattenSeq([k \in DOMAIN made[c] |-> made[c][k].msgs])
                        \o active[c].msgs \o queue[c]) = SmallOf(given[c])
  BY <1>1, OneChannel DEF Chan, Sound, Ordered, Held, InBunches
<1>2. MsgInv => EachInOneBunch
  BY <1>1 DEF EachInOneBunch
<1> QED
  BY <1>2, Invariance, PTL

LEMMA InBunchesSmall ==
  ASSUME NEW ms \in Seq(Bunches), \A k \in 1 .. Len(ms) : SmallOnly(ms[k].msgs)
  PROVE  SmallOf(InBunches(ms)) = InBunches(ms)
<1> DEFINE T == {s \in Seq(Bunches) :
                   (\A k \in 1 .. Len(s) : SmallOnly(s[k].msgs)) => SmallOf(InBunches(s)) = InBunches(s)}
<1>1. << >> \in T
  <2>1. InBunches(<< >>) = << >>
    BY FlattenEmpty DEF InBunches
  <2> QED
    BY <2>1, SmallOfEmpty
<1>2. ASSUME NEW s \in Seq(Bunches), NEW b \in Bunches, s \in T,
             \A k \in 1 .. Len(Append(s, b)) : SmallOnly(Append(s, b)[k].msgs)
      PROVE  SmallOf(InBunches(Append(s, b))) = InBunches(Append(s, b))
  <2>1. PICK n \in Nat : n = Len(s)
    OBVIOUS
  <2>2. PICK t : t = Append(s, b)
    OBVIOUS
  <2>3. Len(t) = n + 1 /\ t[n + 1] = b /\ \A k \in 1 .. n : t[k] = s[k]
    BY <2>1, <2>2, AppendProperties
  <2>4. \A k \in 1 .. n + 1 : SmallOnly(t[k].msgs)
    BY <1>2, <2>2, <2>3
  <2>5. n + 1 \in 1 .. n + 1 /\ \A k \in 1 .. n : k \in 1 .. n + 1
    OBVIOUS
  <2>6. SmallOnly(b.msgs) /\ \A k \in 1 .. n : SmallOnly(s[k].msgs)
    BY <2>3, <2>4, <2>5
  <2>7. SmallOf(InBunches(s)) = InBunches(s)
    BY <1>2, <2>1, <2>6
  <2>8. b.msgs \in Seq(Messages) /\ InBunches(s) \in Seq(Messages)
    BY ContentsType DEF Bunches
  <2>9. SmallOf(b.msgs) = b.msgs
    BY <2>6, <2>8, SmallOfSmall DEF SmallOnly
  <2>10. SmallOf(InBunches(s) \o b.msgs) = SmallOf(InBunches(s)) \o SmallOf(b.msgs)
    BY <2>8, SmallOfConcat
  <2> QED
    BY <2>7, <2>9, <2>10, InBunchesAppend
<1>3. \A s \in Seq(Bunches) : s \in T
  <2>1. ASSUME NEW s \in Seq(Bunches), NEW b \in Bunches, s \in T PROVE Append(s, b) \in T
    <3>1. Append(s, b) \in Seq(Bunches)
      OBVIOUS
    <3>2. (\A k \in 1 .. Len(Append(s, b)) : SmallOnly(Append(s, b)[k].msgs)) =>
              SmallOf(InBunches(Append(s, b))) = InBunches(Append(s, b))
      BY <1>2, <2>1
    <3> QED
      BY <3>1, <3>2
  <2> HIDE DEF T
  <2> QED
    BY <1>1, <2>1, AppendInduction
<1> QED
  BY <1>3

LEMMA ConcatFour ==
  ASSUME NEW S, NEW d \in Seq(S), NEW u \in Seq(S), NEW y \in Seq(S), NEW z \in Seq(S)
  PROVE  ((d \o u) \o y) \o z = d \o (u \o (y \o z)) /\ u \o (y \o z) \in Seq(S)
<1>1. PICK yz : yz = y \o z
  OBVIOUS
<1>2. PICK du : du = d \o u
  OBVIOUS
<1>3. yz \in Seq(S) /\ du \in Seq(S)
  BY <1>1, <1>2, ConcatProperties
<1>4. (du \o y) \o z = du \o (y \o z)
  BY <1>3, ConcatAssociative, SMTT(30)
<1>5. (d \o u) \o yz = d \o (u \o yz)
  BY <1>3, ConcatAssociative, SMTT(30)
<1>6. u \o yz \in Seq(S)
  BY <1>3, ConcatProperties
<1> QED
  BY <1>1, <1>2, <1>4, <1>5, <1>6

LEMMA PrefixOfConcat ==
  ASSUME NEW S, NEW s \in Seq(S), NEW t \in Seq(S)
  PROVE  IsPrefix(s, s \o t)
<1>1. PICK n \in Nat : n = Len(s)
  OBVIOUS
<1>2. PICK m \in Nat : m = Len(t)
  OBVIOUS
<1>3. PICK u : u = s \o t
  OBVIOUS
<1>4. Len(u) = n + m /\ u \in Seq(S) /\ \A i \in 1 .. n : u[i] = s[i] /\ s[i] \in S
  BY <1>1, <1>2, <1>3
<1>5. PICK v : v = SubSeq(s, 1, n)
  OBVIOUS
<1>6. PICK w : w = SubSeq(u, 1, n)
  OBVIOUS
<1>7. v \in Seq(S) /\ Len(v) = n /\ \A i \in 1 .. n : v[i] = s[i]
  BY <1>1, <1>4, <1>5
<1>8. w \in Seq(S) /\ Len(w) = n /\ \A i \in 1 .. n : w[i] = u[i]
  BY <1>4, <1>6
<1>9. v = w
  BY <1>4, <1>7, <1>8, SeqEqual
<1> QED
  BY <1>1, <1>2, <1>3, <1>4, <1>5, <1>6, <1>9 DEF IsPrefix

LEMMA ReliableRange ==
  ASSUME NEW c \in Conns, NEW n \in Nat, arrived[c] \subseteq 1 .. n
  PROVE  InReliable(c) \in 0 .. n
<1> DEFINE U == {k \in arrived[c] : 1 .. k \subseteq arrived[c]}
<1>1. IsFiniteSet(1 .. n) /\ Cardinality(1 .. n) = n
  <2>1. 1 \in Int /\ n \in Int
    OBVIOUS
  <2>2. IsFiniteSet(1 .. n) /\ Cardinality(1 .. n) = IF 1 > n THEN 0 ELSE n - 1 + 1
    BY <2>1, FS_Interval
  <2> QED
    BY <2>2
<1>2. U \in SUBSET (1 .. n)
  OBVIOUS
<1>3. IsFiniteSet(U) /\ Cardinality(U) <= n
  <2> HIDE DEF U
  <2> QED
    BY <1>1, <1>2, FS_Subset
<1>4. Cardinality(U) \in Nat
  <2> HIDE DEF U
  <2> QED
    BY <1>3, FS_CardinalityType
<1>5. InReliable(c) = Cardinality(U)
  BY DEF InReliable
<1> HIDE DEF U
<1> QED
  BY <1>3, <1>4, <1>5

LEMMA ReadAll ==
  ASSUME NEW b \in Bunches, b.count = Len(b.msgs)
  PROVE  ReadMessages(b) = b.msgs
<1>1. b.msgs \in Seq(Messages)
  BY DEF Bunches
<1>2. SubSeq(b.msgs, 1, Len(b.msgs)) = b.msgs
  BY <1>1
<1> QED
  BY <1>2 DEF ReadMessages

\* The application of the other side gets the submitted messages in their order,
\* without a gap or a repetition, whatever is lost, late, reported lost although
\* it arrived, or sent again.
THEOREM InOrder == Spec => []DispatchedInOrder
<1>1. ASSUME MsgInv, NEW c \in Conns
      PROVE  IsPrefix(Dispatched(c), SmallOf(given[c]))
  <2>1. PICK ms : ms = made[c]
    OBVIOUS
  <2>2. PICK tail : tail = active[c].msgs
    OBVIOUS
  <2>3. PICK q : q = queue[c]
    OBVIOUS
  <2>4. /\ ms \in Seq(Bunches) /\ tail \in Seq(Messages) /\ q \in Seq(Messages)
        /\ \A k \in 1 .. Len(ms) : ms[k].count = Len(ms[k].msgs) /\ SmallOnly(ms[k].msgs)
        /\ arrived[c] \subseteq 1 .. Len(ms)
        /\ SmallOf(InBunches(ms) \o tail \o q) = SmallOf(given[c])
    BY <1>1, <2>1, <2>2, <2>3, OneChannel DEF Chan, Sound, Typed, Ordered, Held, Numbers, Collections
  <2>5. PICK r \in 0 .. Len(ms) : r = InReliable(c)
    BY <2>4, ReliableRange
  <2>5a. PICK x : x = InBunches(ms)
    OBVIOUS
  <2>6. PICK s : s = Contents(ms)
    OBVIOUS
  <2>7. /\ s \in Seq(Seq(Messages)) /\ Len(s) = Len(ms)
        /\ \A k \in 1 .. Len(ms) : s[k] = ms[k].msgs
        /\ x = FlattenSeq(s) /\ x \in Seq(Messages)
    BY <2>5a, <2>4, <2>6, ContentsType
  <2>8. \A k \in 1 .. r : ReadMessages(ms[k]) = s[k]
    <3>1. ASSUME NEW k \in 1 .. r PROVE ReadMessages(ms[k]) = s[k]
      <4>1. k \in 1 .. Len(ms) /\ ms[k] \in Bunches
        BY <2>4
      <4>2. ReadMessages(ms[k]) = ms[k].msgs
        BY <2>4, <4>1, ReadAll
      <4> QED
        BY <2>7, <4>1, <4>2
    <3> QED
      BY <3>1
  <2>9. PICK p : p = [k \in 1 .. r |-> s[k]]
    OBVIOUS
  <2>10. Dispatched(c) = FlattenSeq(p)
    <3>1. [k \in 1 .. r |-> ReadMessages(ms[k])] = p
      BY <2>8, <2>9
    <3> QED
      BY <2>1, <2>5, <3>1 DEF Dispatched
  <2>11. /\ p \in Seq(Seq(Messages))
         /\ \E u \in Seq(Messages) : FlattenSeq(s) = FlattenSeq(p) \o u
    <3>1. r \in 0 .. Len(s)
      BY <2>5, <2>7
    <3>2. /\ [i \in 1 .. r |-> s[i]] \in Seq(Seq(Messages))
          /\ \E u \in Seq(Messages) : FlattenSeq(s) = FlattenSeq([i \in 1 .. r |-> s[i]]) \o u
      BY <2>7, <3>1, FlattenPrefix
    <3> QED
      BY <2>9, <3>2
  <2>12. PICK u \in Seq(Messages) : x = FlattenSeq(p) \o u
    BY <2>7, <2>11
  <2>13. SmallOf(x) = x
    BY <2>5a, <2>4, InBunchesSmall
  <2>14. SmallOf((x \o tail) \o q) = SmallOf(given[c])
    BY <2>5a, <2>4
  <2>15. SmallOf((x \o tail) \o q) = (SmallOf(x) \o SmallOf(tail)) \o SmallOf(q)
    <3>1. x \in Seq(Messages) /\ x \o tail \in Seq(Messages)
      BY <2>4, <2>7
    <3>2. SmallOf((x \o tail) \o q) = SmallOf(x \o tail) \o SmallOf(q)
      BY <2>4, <3>1, SmallOfConcat
    <3> QED
      BY <2>4, <3>1, <3>2, SmallOfConcat
  <2>16. PICK y : y = SmallOf(tail)
    OBVIOUS
  <2>17. PICK z : z = SmallOf(q)
    OBVIOUS
  <2>18. PICK d : d = FlattenSeq(p)
    OBVIOUS
  <2>19. y \in Seq(Messages) /\ z \in Seq(Messages) /\ d \in Seq(Messages)
    BY <2>4, <2>11, <2>16, <2>17, <2>18, SmallOfType, FlattenType
  <2>20. SmallOf(given[c]) = ((d \o u) \o y) \o z
    BY <2>12, <2>13, <2>14, <2>15, <2>16, <2>17, <2>18
  <2>21. ((d \o u) \o y) \o z = d \o (u \o (y \o z)) /\ u \o (y \o z) \in Seq(Messages)
    BY <2>19, ConcatFour
  <2> QED
    BY <2>10, <2>18, <2>19, <2>20, <2>21, PrefixOfConcat
<1>2. MsgInv => DispatchedInOrder
  BY <1>1 DEF DispatchedInOrder
<1> QED
  BY <1>2, Invariance, PTL
-----------------------------------------------------------------------------
(* The buffers.  Whoever sends with SendPacket has one recipient; a         *)
(* Room::BroadCast gives one buffer to several channels, and each of them   *)
(* releases it when it discards a bunch.                                    *)

OneRecipient == \A r \in Recipients : \A x, y \in r : x = y

\* A message belongs to a thread or to one channel.
Alone ==
  /\ \A c, d \in Conns : c # d => Owned(c) \cap Owned(d) = {}
  /\ \A t \in Threads : \A x, y \in todo[t] : x = y
  /\ \A t \in Threads : todo[t] # {} => \A c \in Conns : hand[t].id \notin Owned(c)

\* What was released was in a bunch that was discarded.
Freed ==
  \A m \in 1 .. MaxMessages :
     released[m] <= 1 /\ (released[m] # 0 => \E c \in Conns : m \in Gone(c))

LEMMA GoneOwned ==
  ASSUME NEW q, NEW a, NEW ms, NEW o
  PROVE  GoneIds(ms, o) \subseteq OwnedIds(q, a, ms)
BY DEF GoneIds, OwnedIds

\* What a channel may still read is not in a bunch that was discarded.
LEMMA ReferencedStays ==
  ASSUME MsgInv, NEW c \in Conns
  PROVE  Referenced(c) \subseteq Owned(c) /\ Referenced(c) \cap Gone(c) = {}
<1>1. /\ Typed(queue[c], active[c], made[c], out[c]) /\ Apart(queue[c], active[c], made[c])
      /\ Numbers(made[c], out[c], unacked[c], transit[c], arrived[c])
  BY OneChannel DEF Chan, Sound
<1>2. PICK ms : ms = made[c]
  OBVIOUS
<1>3. PICK o : o = out[c]
  OBVIOUS
<1>4. PICK refs : refs = ToSet(o) \cup unacked[c] \cup transit[c]
  OBVIOUS
<1>5. Referenced(c) = Ids(queue[c]) \cup Ids(active[c].msgs) \cup UNION {Ids(ms[k].msgs) : k \in refs}
  BY <1>2, <1>3, <1>4 DEF Referenced
<1>6. o \in Seq(1 .. Len(ms)) /\ DOMAIN o = 1 .. Len(o)
  BY <1>1, <1>2, <1>3 DEF Typed
<1>7. \A k \in refs : k \in 1 .. Len(ms) /\ (IsDiscarded(ms[k]) => \E i \in 1 .. Len(o) : o[i] = k)
  BY <1>1, <1>2, <1>3, <1>4, <1>6 DEF Numbers, ToSet
<1>8. Referenced(c) \subseteq Owned(c)
  BY <1>2, <1>5, <1>7 DEF Owned, OwnedIds
<1>9. ASSUME NEW m \in Referenced(c), m \in Gone(c) PROVE FALSE
  <2>1. PICK l \in 1 .. Len(ms) :
           m \in Ids(ms[l].msgs) /\ IsDiscarded(ms[l]) /\ \A i \in 1 .. Len(o) : o[i] # l
    BY <1>2, <1>3, <1>9 DEF Gone, GoneIds
  <2>2. m \notin Ids(queue[c]) \cup Ids(active[c].msgs)
    BY <1>1, <1>2, <2>1 DEF Apart
  <2>3. PICK k \in refs : m \in Ids(ms[k].msgs)
    BY <1>5, <2>2
  <2>4. k = l
    BY <1>1, <1>2, <1>7, <2>1, <2>3 DEF Apart
  <2> QED
    BY <1>7, <2>1, <2>3, <2>4
<1> QED
  BY <1>8, <1>9

LEMMA FreedUse ==
  ASSUME MsgInv, Alone, Freed
  PROVE  ReleasedAfterUse
<1>1. released \in [1 .. MaxMessages -> Nat]
  BY DEF MsgInv, Rest
<1>2. ASSUME NEW c \in Conns, NEW m \in Referenced(c) PROVE released[m] = 0
  <2>1. m \in Owned(c) /\ m \notin Gone(c)
    BY <1>2, ReferencedStays
  <2>2. m \in 1 .. MaxMessages
    BY <2>1, OwnedRange, OneChannel DEF Owned, Chan, Sound
  <2>3. ASSUME NEW d \in Conns, m \in Gone(d) PROVE FALSE
    <3>1. m \in Owned(d)
      BY <2>3, GoneOwned DEF Gone, Owned
    <3>2. d # c
      BY <2>1, <2>3
    <3> QED
      BY <2>1, <3>1, <3>2 DEF Alone
  <2> QED
    BY <2>2, <2>3 DEF Freed
<1> QED
  BY <1>1, <1>2 DEF Freed, ReleasedAfterUse

LEMMA InitRelease == ASSUME Init PROVE Alone /\ Freed
<1>1. \A c \in Conns : Owned(c) = {}
  BY StartOwned DEF Init, Owned
<1>2. Alone
  BY <1>1 DEF Init, Alone
<1>3. Freed
  BY DEF Init, Freed
<1> QED
  BY <1>2, <1>3

LEMMA SendRelease ==
  ASSUME OneRecipient, MsgInv, Alone, Freed, NEW t \in Threads, NEW size \in Sizes,
         NEW recipients \in Recipients, Send(t, size, recipients)
  PROVE  Alone' /\ Freed'
<1>1. \A d \in Conns : Owned(d)' = Owned(d) /\ Gone(d)' = Gone(d)
  BY StepSend
<1>2. released' = released /\ todo' = [todo EXCEPT ![t] = recipients]
      /\ hand' = [hand EXCEPT ![t] = [id |-> count + 1, size |-> size]]
  BY DEF Send
<1>3. /\ hand \in [Threads -> Messages \cup {NoMessage}] /\ todo \in [Threads -> SUBSET Conns]
      /\ count \in Nat
  BY ConstantsOK DEF MsgInv, Rest, ConstantsOK
<1>4. hand'[t].id = count + 1 /\ todo'[t] = recipients
      /\ \A s \in Threads : s # t => hand'[s] = hand[s] /\ todo'[s] = todo[s]
  BY <1>2, <1>3
<1>5. ASSUME NEW s \in Threads, todo'[s] # {}, NEW c \in Conns PROVE hand'[s].id \notin Owned(c)'
  <2>1. CASE s = t
    <3>1. \A i \in Owned(c) : i <= count
      BY DEF MsgInv, Hands
    <3>2. count + 1 \notin Owned(c)
      BY <1>3, <3>1
    <3> QED
      BY <1>1, <1>4, <2>1, <3>2
  <2>2. CASE s # t
    BY <1>1, <1>4, <1>5, <2>2 DEF Alone
  <2> QED
    BY <2>1, <2>2
<1>6. \A s \in Threads : \A x, y \in todo'[s] : x = y
  BY <1>4 DEF Alone, OneRecipient
<1>7. Alone'
  BY <1>1, <1>5, <1>6 DEF Alone
<1>8. Freed'
  BY <1>1, <1>2 DEF Freed
<1> QED
  BY <1>7, <1>8

LEMMA SubmitRelease ==
  ASSUME MsgInv, Alone, Freed, NEW t \in Threads, NEW c \in Conns, Submit(t, c)
  PROVE  Alone' /\ Freed'
<1>1. /\ Owned(c)' = Owned(c) \cup {hand[t].id}
      /\ \A d \in Conns : d # c => Owned(d)' = Owned(d)
      /\ \A d \in Conns : Gone(d)' = Gone(d)
  BY StepSubmit
<1>2. c \in todo[t] /\ released' = released
  BY DEF Submit
<1>3. /\ hand \in [Threads -> Messages \cup {NoMessage}] /\ todo \in [Threads -> SUBSET Conns]
  BY DEF MsgInv, Rest
<1>4. /\ todo' = [todo EXCEPT ![t] = todo[t] \ {c}]
      /\ \A s \in Threads : s # t => hand'[s] = hand[s] /\ todo'[s] = todo[s]
  BY <1>3 DEF Submit
<1>5. todo'[t] = {}
  BY <1>2, <1>3, <1>4 DEF Alone
<1>6. \A d \in Conns : hand[t].id \notin Owned(d)
  BY <1>2 DEF Alone
<1>7. \A d, e \in Conns : d # e => Owned(d)' \cap Owned(e)' = {}
  <2>1. ASSUME NEW d \in Conns, NEW e \in Conns, d # e PROVE Owned(d)' \cap Owned(e)' = {}
    <3>1. Owned(d) \cap Owned(e) = {}
      BY <2>1 DEF Alone
    <3> QED
      BY <1>1, <1>6, <2>1, <3>1
  <2> QED
    BY <2>1
<1>8. ASSUME NEW s \in Threads, todo'[s] # {}, NEW d \in Conns PROVE hand'[s].id \notin Owned(d)'
  <2>1. s # t /\ hand'[s] = hand[s] /\ todo[s] # {} /\ todo[t] # {}
    BY <1>2, <1>4, <1>5, <1>8
  <2>2. hand[s].id # hand[t].id /\ hand[s].id \notin Owned(d)
    BY <2>1 DEF MsgInv, Hands, Alone
  <2> QED
    BY <1>1, <2>1, <2>2
<1>9. \A s \in Threads : \A x, y \in todo'[s] : x = y
  BY <1>4, <1>5 DEF Alone
<1>10. Alone'
  BY <1>7, <1>8, <1>9 DEF Alone
<1>11. Freed'
  BY <1>1, <1>2 DEF Freed
<1> QED
  BY <1>10, <1>11

LEMMA ChannelRelease ==
  ASSUME MsgInv, Alone, Freed, NEW c \in Conns, ChannelAction(c)
  PROVE  Alone' /\ Freed'
<1>1. /\ \A d \in Conns : Owned(d)' \subseteq Owned(d) /\ Gone(d) \subseteq Gone(d)'
      /\ hand' = hand /\ todo' = todo
  BY StepChannel, ChannelStep DEF Quiet, sending
<1>2. Alone'
  BY <1>1 DEF Alone
<1>3. CASE released' = released
  <2>1. Freed'
    BY <1>1, <1>3 DEF Freed
  <2> QED
    BY <1>2, <2>1
<1>4. CASE DiscardBunch(c)
  <2>1. PICK k : k = Head(out[c])
    OBVIOUS
  <2>2. PICK ids : ids = Ids(made[c][k].msgs)
    OBVIOUS
  <2>3. /\ IsDiscarded(made[c][k]) /\ out[c] # << >>
        /\ released' = [m \in DOMAIN released |-> IF m \in ids THEN released[m] + 1 ELSE released[m]]
        /\ made' = made
    BY <1>4, <2>1, <2>2 DEF DiscardBunch
  <2>4. out' = [out EXCEPT ![c] = Tail(out[c])] /\ out \in [Conns -> Seq(Nat)]
    BY <1>4 DEF DiscardBunch, Dequeued, MsgInv, Shape
  <2>5. PICK o : o = out[c]
    OBVIOUS
  <2>6. /\ o \in Seq(1 .. Len(made[c])) /\ o # << >> /\ k = Head(o)
        /\ \A i, j \in 1 .. Len(o) : o[i] = o[j] => i = j
    BY <2>1, <2>3, <2>5, OneChannel DEF Chan, Sound, Typed, Numbers
  <2>7. out'[c] = Tail(o) /\ k \in 1 .. Len(made[c]) /\ \A i \in 1 .. Len(Tail(o)) : Tail(o)[i] # k
    <3>1. out'[c] = Tail(o)
      BY <2>4, <2>5
    <3>2. \A i \in 1 .. Len(Tail(o)) : Tail(o)[i] # Head(o)
      BY <2>6, OnceTail
    <3>3. Head(o) \in 1 .. Len(made[c])
      BY <2>6, HeadTailProperties
    <3> QED
      BY <2>6, <3>1, <3>2, <3>3
  <2>8. ids \subseteq Gone(c)'
    BY <2>2, <2>3, <2>7 DEF Gone, GoneIds
  <2>9. ids \subseteq Referenced(c)
    <3>1. k \in ToSet(o)
      BY <2>6, HeadTailProperties DEF ToSet
    <3> QED
      BY <2>2, <2>5, <3>1 DEF Referenced
  <2>10. \A m \in ids : released[m] = 0
    BY <2>9, FreedUse DEF ReleasedAfterUse
  <2>11. released \in [1 .. MaxMessages -> Nat]
    BY DEF MsgInv, Rest
  <2>12. ASSUME NEW m \in 1 .. MaxMessages
         PROVE  released'[m] <= 1 /\ (released'[m] # 0 => \E d \in Conns : m \in Gone(d)')
    <3>1. CASE m \in ids
      BY <2>3, <2>8, <2>10, <2>11, <3>1
    <3>2. CASE m \notin ids
      <4>1. released'[m] = released[m]
        BY <2>3, <2>11, <3>2
      <4> QED
        BY <1>1, <4>1 DEF Freed
    <3> QED
      BY <3>1, <3>2
  <2> QED
    BY <1>2, <2>12 DEF Freed
<1>5. released' = released \/ DiscardBunch(c)
  BY DEF ChannelAction, WorkerStep, StartTick, TakeMessage, FlushTail, PackBunch, EndTick, Ack, Nack, Lose, Arrive
<1> QED
  BY <1>2, <1>3, <1>4, <1>5

\* A buffer of a message with one recipient is released at most once, by
\* DiscardOutReadyBunch, and not while the message is queued, under construction,
\* ready, unacknowledged or in a datagram.
THEOREM ReleasedLast == ASSUME OneRecipient PROVE Spec => []ReleasedAfterUse
<1>1. Init => Alone /\ Freed
  BY InitRelease
<1>2. MsgInv /\ Alone /\ Freed /\ [Next]_vars => Alone' /\ Freed'
  <2>1. SUFFICES ASSUME MsgInv, Alone, Freed, [Next]_vars PROVE Alone' /\ Freed'
    OBVIOUS
  <2>2. CASE UNCHANGED vars
    <3>1. \A d \in Conns : Owned(d)' = Owned(d) /\ Gone(d)' = Gone(d)
      BY <2>1, <2>2, StutterInv
    <3>2. hand' = hand /\ todo' = todo /\ released' = released
      BY <2>2 DEF vars, sending
    <3> QED
      BY <2>1, <3>1, <3>2 DEF Alone, Freed
  <2>3. ASSUME NEW t \in Threads, NEW size \in Sizes, NEW recipients \in Recipients,
               Send(t, size, recipients)
        PROVE  Alone' /\ Freed'
    BY <2>1, <2>3, SendRelease
  <2>4. ASSUME NEW t \in Threads, NEW c \in Conns, Submit(t, c)
        PROVE  Alone' /\ Freed'
    BY <2>1, <2>4, SubmitRelease
  <2>5. ASSUME NEW c \in Conns, ChannelAction(c)
        PROVE  Alone' /\ Freed'
    BY <2>1, <2>5, ChannelRelease
  <2> QED
    BY <2>1, <2>2, <2>3, <2>4, <2>5 DEF Next, ChannelAction
<1>3. MsgInv /\ Alone /\ Freed => ReleasedAfterUse
  BY FreedUse
<1> QED
  BY <1>1, <1>2, <1>3, Invariance, PTL DEF Spec
=============================================================================
