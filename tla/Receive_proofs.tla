---------------------------- MODULE Receive_proofs ----------------------------
(***************************************************************************)
(* The life of a receive event, proved for any number of I/O threads and   *)
(* events, any sizes of the reorder window and of a batch of completions.  *)
(*                                                                         *)
(* Types: what a thread holds depends on where it is (Rest).  Places: an   *)
(* event goes through the completion port once (PortOnce) and is in one    *)
(* place at a time (OnePlace); so the event that a thread takes from the   *)
(* port has no reader, and what a step gives up is the last reference or   *)
(* another one is left.  Copies: a step takes one out of a sequence of     *)
(* them, puts one or two in or moves all of a sequence into an empty one;  *)
(* counted by place they are what the simulator made and nobody has        *)
(* dispatched (CopyInv).                                                   *)
(***************************************************************************)
EXTENDS Receive, FiniteSetTheorems, FunctionTheorems, SequenceTheorems, TLAPS

Completion == Events \cup {WakeUp}
Hands == [pc : Locations, batch : Seq(Completion), todo : Seq(Events), event : Events \cup {None}]

(* The types, but for the bounds of the number of copies. *)
Typed ==
    /\ posted \subseteq Events /\ lost \subseteq Events
    /\ completions \in Seq(Completion)
    /\ window \in Seq(Events) /\ size \in WindowSizes /\ quiet \in BOOLEAN
    /\ due \in [Events -> Int]
    /\ jobs \in Seq(Events)
    /\ thread \in [Threads -> Hands]
    /\ stopping \in BOOLEAN

(* What thread t holds where it is: completions only while it pumps and events
   only while it dispatches; the tick thread has none of its own. *)
RestOf(t) ==
    /\ thread[t].pc \notin {"pump", "dispatch"} => thread[t].batch = << >>
    /\ thread[t].pc # "dispatch" => thread[t].todo = << >> /\ thread[t].event = None
    /\ IF t = Tick THEN thread[t].pc # "pump" /\ thread[t].batch = << >> /\ thread[t].event = None
                   ELSE thread[t].pc = "dispatch" => thread[t].event \in Events
Rest == \A t \in Threads : RestOf(t)

TypeInv == Typed /\ Rest

-----------------------------------------------------------------------------
(* Sequences as sets. *)

LEMMA SetOfAppend ==
  ASSUME NEW S, NEW s \in Seq(S), NEW x \in S
  PROVE  Append(s, x) \in Seq(S) /\ ToSet(Append(s, x)) = ToSet(s) \cup {x}
<1>1. /\ Append(s, x) \in Seq(S) /\ Len(Append(s, x)) = Len(s) + 1 /\ Len(s) \in Nat
      /\ Append(s, x)[Len(s) + 1] = x /\ \A i \in 1 .. Len(s) : Append(s, x)[i] = s[i]
  OBVIOUS
<1>2. PICK u : u = Append(s, x)
  OBVIOUS
<1>3. /\ u \in Seq(S) /\ Len(u) = Len(s) + 1 /\ u[Len(s) + 1] = x
      /\ \A i \in 1 .. Len(s) : u[i] = s[i]
  BY <1>1, <1>2
<1>4. ToSet(u) = ToSet(s) \cup {x}
  <2>1. ASSUME NEW y \in ToSet(u) PROVE y \in ToSet(s) \cup {x}
    <3>1. PICK i \in 1 .. Len(s) + 1 : u[i] = y
      BY <1>3 DEF ToSet
    <3>2. CASE i = Len(s) + 1
      BY <1>3, <3>1, <3>2
    <3>3. CASE i # Len(s) + 1
      <4>1. i \in 1 .. Len(s) /\ s[i] = y
        BY <1>1, <1>3, <3>1, <3>3
      <4> QED
        BY <4>1 DEF ToSet
    <3> QED
      BY <3>2, <3>3
  <2>2. ASSUME NEW y \in ToSet(s) \cup {x} PROVE y \in ToSet(u)
    <3>1. CASE y = x
      BY <1>1, <1>3, <3>1 DEF ToSet
    <3>2. CASE y \in ToSet(s)
      <4>1. PICK i \in 1 .. Len(s) : s[i] = y
        BY <3>2 DEF ToSet
      <4>2. i \in 1 .. Len(u) /\ u[i] = y
        BY <1>1, <1>3, <4>1
      <4> QED
        BY <1>3, <4>2 DEF ToSet
    <3> QED
      BY <2>2, <3>1, <3>2
  <2> QED
    BY <2>1, <2>2
<1> QED
  BY <1>1, <1>2, <1>4

LEMMA SetOfTail ==
  ASSUME NEW S, NEW s \in Seq(S), s # << >>
  PROVE  /\ Head(s) \in S /\ Tail(s) \in Seq(S)
         /\ ToSet(s) = ToSet(Tail(s)) \cup {Head(s)}
<1>1. Head(s) = s[1] /\ Tail(s) \in Seq(S) /\ Len(Tail(s)) = Len(s) - 1 /\ Len(s) \in Nat \ {0}
  OBVIOUS
<1>2. \A i \in 1 .. Len(s) - 1 : Tail(s)[i] = s[i + 1]
  OBVIOUS
<1>3. ASSUME NEW x \in ToSet(s) PROVE x \in ToSet(Tail(s)) \cup {Head(s)}
  <2>0. PICK u : u = Tail(s)
    OBVIOUS
  <2>1. PICK i \in 1 .. Len(s) : s[i] = x
    BY DEF ToSet
  <2>2. CASE i = 1
    BY <1>1, <2>1, <2>2
  <2>3. CASE i # 1
    <3>1. i - 1 \in 1 .. Len(s) - 1 /\ (i - 1) + 1 = i
      BY <1>1, <2>1, <2>3
    <3>2. i - 1 \in 1 .. Len(u) /\ u[i - 1] = x /\ u \in Seq(S)
      BY <1>1, <1>2, <2>0, <2>1, <3>1
    <3>3. x \in ToSet(u)
      BY <3>2 DEF ToSet
    <3> QED
      BY <2>0, <3>3
  <2> QED
    BY <2>2, <2>3
<1>4. ASSUME NEW x \in ToSet(Tail(s)) \cup {Head(s)} PROVE x \in ToSet(s)
  BY <1>1, <1>2, <1>4 DEF ToSet
<1> QED
  BY <1>1, <1>3, <1>4

LEMMA SetOfConcat ==
  ASSUME NEW S, NEW s \in Seq(S), NEW u \in Seq(S)
  PROVE  s \o u \in Seq(S) /\ ToSet(s \o u) = ToSet(s) \cup ToSet(u)
<1>1. ASSUME NEW x \in ToSet(u) PROVE x \in ToSet(s \o u)
  <2>1. PICK i \in 1 .. Len(u) : u[i] = x
    BY DEF ToSet
  <2>2. Len(s) + i \in 1 .. Len(s \o u) /\ (s \o u)[Len(s) + i] = x
    BY <2>1
  <2> QED
    BY <2>2 DEF ToSet
<1>2. ASSUME NEW x \in ToSet(s) PROVE x \in ToSet(s \o u)
  BY <1>2 DEF ToSet
<1>3. ASSUME NEW x \in ToSet(s \o u) PROVE x \in ToSet(s) \cup ToSet(u)
  <2>1. PICK i \in 1 .. Len(s) + Len(u) : (s \o u)[i] = x
    BY <1>3 DEF ToSet
  <2>2. CASE i <= Len(s)
    BY <2>1, <2>2 DEF ToSet
  <2>3. CASE ~(i <= Len(s))
    <3>1. i - Len(s) \in 1 .. Len(u) /\ u[i - Len(s)] = x
      BY <2>1, <2>3
    <3> QED
      BY <3>1 DEF ToSet
  <2> QED
    BY <2>2, <2>3
<1> QED
  BY <1>1, <1>2, <1>3

(* Taking out the element at i; the others stay. *)
LEMMA SetOfRemoveAt ==
  ASSUME NEW S, NEW s \in Seq(S), NEW i \in DOMAIN s
  PROVE  /\ RemoveAt(s, i) \in Seq(S) /\ s[i] \in S /\ Len(RemoveAt(s, i)) = Len(s) - 1
         /\ \A k \in 1 .. Len(s) - 1 : RemoveAt(s, i)[k] = s[IF k < i THEN k ELSE k + 1]
         /\ ToSet(s) = ToSet(RemoveAt(s, i)) \cup {s[i]}
<1> DEFINE a == SubSeq(s, 1, i - 1)
           b == SubSeq(s, i + 1, Len(s))
<1>1. i \in 1 .. Len(s) /\ Len(s) \in Nat
  OBVIOUS
<1>2. a \in Seq(S) /\ Len(a) = i - 1 /\ \A k \in 1 .. i - 1 : a[k] = s[k]
  BY <1>1
<1>3. b \in Seq(S) /\ Len(b) = Len(s) - i /\ \A k \in 1 .. Len(s) - i : b[k] = s[i + k]
  BY <1>1
<1>4. RemoveAt(s, i) = a \o b
  BY DEF RemoveAt
<1> HIDE DEF a, b
<1>0. PICK u : u = a \o b
  OBVIOUS
<1>5. a \o b \in Seq(S) /\ Len(a \o b) = Len(s) - 1
  BY <1>1, <1>2, <1>3
<1>6. \A k \in 1 .. Len(s) - 1 : (a \o b)[k] = s[IF k < i THEN k ELSE k + 1]
  <2> SUFFICES ASSUME NEW k \in 1 .. Len(s) - 1
               PROVE  (a \o b)[k] = s[IF k < i THEN k ELSE k + 1]
    OBVIOUS
  <2>1. CASE k < i
    BY <1>1, <1>2, <1>3, <2>1
  <2>2. CASE ~(k < i)
    <3>1. k - (i - 1) \in 1 .. Len(s) - i /\ i + (k - (i - 1)) = k + 1
      BY <1>1, <2>2
    <3>2. (a \o b)[k] = b[k - (i - 1)]
      BY <1>1, <1>2, <1>3, <2>2
    <3> QED
      BY <1>3, <2>2, <3>1, <3>2
  <2> QED
    BY <2>1, <2>2
<1>7. ASSUME NEW x \in ToSet(s) PROVE x \in ToSet(u) \cup {s[i]}
  <2>0. u \in Seq(S) /\ DOMAIN u = 1 .. Len(s) - 1
    BY <1>0, <1>5
  <2>1. PICK k \in 1 .. Len(s) : s[k] = x
    BY DEF ToSet
  <2>2. CASE k < i
    <3>1. k \in 1 .. Len(s) - 1
      BY <1>1, <2>1, <2>2
    <3>2. u[k] = x
      BY <1>0, <1>6, <2>1, <2>2, <3>1
    <3> QED
      BY <2>0, <3>1, <3>2 DEF ToSet
  <2>3. CASE k > i
    <3>1. k - 1 \in 1 .. Len(s) - 1 /\ ~(k - 1 < i) /\ (k - 1) + 1 = k
      BY <1>1, <2>1, <2>3
    <3>2. u[k - 1] = x
      BY <1>0, <1>6, <2>1, <3>1
    <3> QED
      BY <2>0, <3>1, <3>2 DEF ToSet
  <2> QED
    BY <1>1, <2>1, <2>2, <2>3
<1>8. ASSUME NEW x \in ToSet(a \o b) PROVE x \in ToSet(s)
  <2>1. PICK k \in 1 .. Len(s) - 1 : (a \o b)[k] = x
    BY <1>5, <1>8 DEF ToSet
  <2>2. (IF k < i THEN k ELSE k + 1) \in 1 .. Len(s)
    BY <1>1, <2>1
  <2>3. s[IF k < i THEN k ELSE k + 1] = x
    BY <1>6, <2>1
  <2> QED
    BY <2>2, <2>3 DEF ToSet
<1>9. s[i] \in S /\ s[i] \in ToSet(s)
  BY <1>1 DEF ToSet
<1> QED
  BY <1>0, <1>4, <1>5, <1>6, <1>7, <1>8, <1>9

-----------------------------------------------------------------------------
(* Types.                                                                  *)

\* A step changes the hands of no other thread than t.
Only(t) == thread' \in [Threads -> Hands] /\ \A u \in Threads : u # t => thread'[u] = thread[u]

\* What the other threads hold stays in its place.
LEMMA RestStep ==
  ASSUME Rest, NEW t \in Threads, Only(t), RestOf(t)' PROVE Rest'
BY DEF Rest, RestOf, Only

\* Goto moves one thread and leaves what it holds.
LEMMA GotoEffect ==
  ASSUME Typed, NEW t \in Threads, NEW pc \in Locations, Goto(t, pc)
  PROVE  /\ Only(t) /\ thread'[t].pc = pc /\ thread'[t].batch = thread[t].batch
         /\ thread'[t].todo = thread[t].todo /\ thread'[t].event = thread[t].event
BY DEF Typed, Goto, Only, Hands

\* A batch of completions is no longer than the port holds.
LEMMA BatchSize ==
  ASSUME NEW l \in Nat, NEW n \in 1 .. Min({MaxEntries, l}) PROVE n \in 1 .. l
<1>1. MaxEntries \in Nat
  BY ConstantsOK DEF ConstantsOK
<1>2. Min({MaxEntries, l}) \in {MaxEntries, l} /\ \A y \in {MaxEntries, l} : Min({MaxEntries, l}) <= y
  <2>1. \E x \in {MaxEntries, l} : \A y \in {MaxEntries, l} : x <= y
    BY <1>1
  <2> QED
    BY <2>1 DEF Min
<1> QED
  BY <1>1, <1>2

LEMMA InitTypes == Init => TypeInv
<1> SUFFICES ASSUME Init PROVE TypeInv
  OBVIOUS
<1>1. Start \in Hands
  BY DEF Start, Hands, Locations
<1>2. thread \in [Threads -> Hands]
  BY <1>1 DEF Init
<1>3. /\ posted \subseteq Events /\ lost \subseteq Events
      /\ size \in WindowSizes /\ quiet \in BOOLEAN /\ stopping \in BOOLEAN
      /\ due \in [Events -> Int]
  <2>1. posted \subseteq Events /\ lost \subseteq Events /\ size \in WindowSizes
    BY DEF Init
  <2>2. quiet \in BOOLEAN /\ stopping \in BOOLEAN
    BY DEF Init
  <2>3. due \in [Events -> Int]
    BY DEF Init
  <2> QED
    BY <2>1, <2>2, <2>3
<1>4. completions \in Seq(Completion) /\ window \in Seq(Events) /\ jobs \in Seq(Events)
  BY DEF Init
<1>5. Typed
  BY <1>2, <1>3, <1>4 DEF Typed
<1>6. Rest
  BY DEF Init, Start, Rest, RestOf
<1> QED
  BY <1>5, <1>6 DEF TypeInv

LEMMA LoopTypes == ASSUME TypeInv, NEW t \in Threads, Loop(t) PROVE TypeInv'
<1>1. PICK pc \in {"exited", "wait"} : Goto(t, pc)
  BY DEF Loop
<1>2. Only(t) /\ thread'[t].pc \in {"exited", "wait"} /\ thread'[t].batch = thread[t].batch
      /\ thread'[t].todo = thread[t].todo /\ thread'[t].event = thread[t].event
  BY <1>1, GotoEffect DEF TypeInv, Locations
<1>3. RestOf(t)'
  BY <1>2 DEF TypeInv, Rest, RestOf, Loop, At
<1>4. Typed'
  BY <1>2 DEF TypeInv, Typed, Loop, socket, simulator, Only
<1> QED
  BY <1>2, <1>3, <1>4, RestStep DEF TypeInv

LEMMA PumpEffect ==
  ASSUME TypeInv, NEW t \in Threads, PumpIO(t)
  PROVE  \E n \in 1 .. Len(completions) :
           /\ Only(t) /\ t # Tick /\ thread[t].batch = << >>
           /\ thread'[t].pc = "pump" /\ thread'[t].batch = SubSeq(completions, 1, n)
           /\ thread'[t].todo = thread[t].todo /\ thread'[t].event = thread[t].event
           /\ completions' = SubSeq(completions, n + 1, Len(completions))
           /\ SubSeq(completions, 1, n) \in Seq(Completion)
           /\ SubSeq(completions, n + 1, Len(completions)) \in Seq(Completion)
<1>1. completions \in Seq(Completion) /\ Len(completions) \in Nat
  BY DEF TypeInv, Typed
<1>2. PICK n \in 1 .. Min({MaxEntries, Len(completions)}) :
          /\ thread' = [thread EXCEPT ![t].pc = "pump", ![t].batch = SubSeq(completions, 1, n)]
          /\ completions' = SubSeq(completions, n + 1, Len(completions))
  BY DEF PumpIO
<1>3. n \in 1 .. Len(completions)
  BY <1>1, BatchSize
<1>4. SubSeq(completions, 1, n) \in Seq(Completion)
      /\ SubSeq(completions, n + 1, Len(completions)) \in Seq(Completion)
  BY <1>1, <1>3
<1>5. t # Tick /\ thread[t].batch = << >>
  BY ConstantsOK DEF PumpIO, ConstantsOK, At, TypeInv, Rest, RestOf
<1>6. /\ Only(t) /\ thread'[t].pc = "pump" /\ thread'[t].batch = SubSeq(completions, 1, n)
      /\ thread'[t].todo = thread[t].todo /\ thread'[t].event = thread[t].event
  BY <1>2, <1>4 DEF TypeInv, Typed, Only, Hands, Locations
<1> QED
  BY <1>2, <1>3, <1>4, <1>5, <1>6

LEMMA PumpTypes == ASSUME TypeInv, NEW t \in Threads, PumpIO(t) PROVE TypeInv'
<1>1. Only(t) /\ RestOf(t)' /\ completions' \in Seq(Completion)
  BY PumpEffect DEF PumpIO, At, TypeInv, Rest, RestOf
<1>2. Typed'
  BY <1>1 DEF TypeInv, Typed, PumpIO, socket, simulator, Only
<1> QED
  BY <1>1, <1>2, RestStep DEF TypeInv

LEMMA TimeoutTypes ==
  ASSUME TypeInv, NEW t \in Threads, Timeout(t) \/ EndPump(t) PROVE TypeInv'
<1>1. Only(t) /\ thread'[t].pc = "check" /\ thread'[t].batch = thread[t].batch
      /\ thread'[t].todo = thread[t].todo /\ thread'[t].event = thread[t].event
  BY GotoEffect DEF TypeInv, Locations, Timeout, EndPump
<1>2. RestOf(t)'
  BY <1>1 DEF TypeInv, Rest, RestOf, Timeout, EndPump, At
<1>3. Typed'
  BY <1>1 DEF TypeInv, Typed, Timeout, EndPump, socket, simulator, Only
<1> QED
  BY <1>1, <1>2, <1>3, RestStep DEF TypeInv

LEMMA SkipEffect ==
  ASSUME TypeInv, NEW t \in Threads, SkipEntry(t)
  PROVE  /\ Only(t) /\ t # Tick /\ thread[t].pc = "pump" /\ thread'[t].pc = "pump"
         /\ thread[t].batch # << >> /\ Head(thread[t].batch) = WakeUp
         /\ thread[t].batch \in Seq(Completion)
         /\ thread'[t].batch = Tail(thread[t].batch) /\ Tail(thread[t].batch) \in Seq(Completion)
         /\ thread'[t].todo = thread[t].todo /\ thread'[t].event = thread[t].event
<1>1. thread[t] \in Hands /\ thread[t].pc = "pump" /\ t # Tick
  BY DEF SkipEntry, At, TypeInv, Typed, Rest, RestOf
<1>2. thread[t].batch # << >> /\ Head(thread[t].batch) = WakeUp /\ thread[t].batch \in Seq(Completion)
  BY <1>1 DEF SkipEntry, HasEvent, Hands
<1>3. Tail(thread[t].batch) \in Seq(Completion)
  BY <1>2, SetOfTail
<1> QED
  BY <1>1, <1>2, <1>3 DEF SkipEntry, TypeInv, Typed, Only, Hands, Locations

LEMMA SkipTypes == ASSUME TypeInv, NEW t \in Threads, SkipEntry(t) PROVE TypeInv'
<1>1. Only(t) /\ RestOf(t)'
  BY SkipEffect DEF TypeInv, Rest, RestOf
<1>2. Typed'
  BY <1>1 DEF TypeInv, Typed, SkipEntry, socket, simulator, Only
<1> QED
  BY <1>1, <1>2, RestStep DEF TypeInv

\* What RecvCompletionEvent does with event e: the thread has todo to dispatch.
Takes(t, e, todo) ==
    /\ Only(t) /\ t # Tick /\ thread[t].pc = "pump"
    /\ thread[t].batch \in Seq(Completion) /\ thread[t].batch # << >>
    /\ Head(thread[t].batch) = e /\ Tail(thread[t].batch) \in Seq(Completion)
    /\ thread[t].todo = << >> /\ thread[t].event = None
    /\ thread'[t].pc = "dispatch" /\ thread'[t].batch = Tail(thread[t].batch)
    /\ thread'[t].event = e /\ thread'[t].todo = todo

\* The three ways of the simulator: the datagram is dropped, passed on, or put into
\* the window, which gives up one when it is full.
Dropped(todo) == todo = << >> /\ UNCHANGED << window, quiet, due >>
PassedOn(e, copies, todo) ==
    /\ size = 0 /\ todo = copies
    /\ due' = [due EXCEPT ![e] = Len(copies)] /\ UNCHANGED << window, quiet >>
Queued(e, copies, todo) ==
    /\ due' = [due EXCEPT ![e] = Len(copies)] /\ quiet' = FALSE
    /\ \/ window' = window \o copies /\ todo = << >>
       \/ \E i \in DOMAIN (window \o copies) :
             /\ window' = RemoveAt(window \o copies, i)
             /\ todo = << (window \o copies)[i] >>

LEMMA CopiesType ==
  ASSUME NEW e \in Events, NEW copies \in Copies(e)
  PROVE  /\ copies \in Seq(Events) /\ Len(copies) \in {1, 2}
         /\ \A i \in 1 .. Len(copies) : copies[i] = e
<1>1. copies = << e >> \/ copies = << e, e >>
  BY DEF Copies
<1>2. CASE copies = << e >>
  BY <1>2
<1>3. CASE copies = << e, e >>
  BY <1>3
<1> QED
  BY <1>1, <1>2, <1>3

LEMMA RecvEffect ==
  ASSUME TypeInv, NEW t \in Threads, RecvCompletionEvent(t)
  PROVE  \E e \in Events, todo \in Seq(Events) :
            /\ Takes(t, e, todo)
            /\ \/ Dropped(todo)
               \/ \E copies \in Copies(e) : PassedOn(e, copies, todo) \/ Queued(e, copies, todo)
<1>1. thread[t] \in Hands /\ thread[t].pc = "pump" /\ t # Tick
      /\ thread[t].todo = << >> /\ thread[t].event = None
  BY DEF RecvCompletionEvent, At, TypeInv, Typed, Rest, RestOf
<1>2. thread[t].batch # << >> /\ thread[t].batch \in Seq(Completion)
  BY <1>1 DEF RecvCompletionEvent, Hands
<1>3. Tail(thread[t].batch) \in Seq(Completion) /\ Head(thread[t].batch) \in Events
  BY <1>2, SetOfTail DEF RecvCompletionEvent, HasEvent, Completion
<1>4. PICK e \in Events : e = Head(thread[t].batch)
  BY <1>3
<1> DEFINE hand(todo) == thread' = [thread EXCEPT ![t].pc = "dispatch", ![t].batch = Tail(@),
                                               ![t].event = e, ![t].todo = todo]
<1>5. ASSUME NEW todo \in Seq(Events), hand(todo) PROVE Takes(t, e, todo)
  BY <1>1, <1>2, <1>3, <1>4, <1>5 DEF Takes, TypeInv, Typed, Only, Hands, Locations
<1>6. \/ hand(<< >>) /\ UNCHANGED << window, quiet, due >>
      \/ \E copies \in Copies(e) :
          /\ due' = [due EXCEPT ![e] = Len(copies)]
          /\ IF size = 0
               THEN hand(copies) /\ UNCHANGED << window, quiet >>
               ELSE LET filled == window \o copies IN
                    /\ quiet' = FALSE
                    /\ \/ Len(filled) < size /\ window' = filled /\ hand(<< >>)
                       \/ /\ Len(filled) >= size
                          /\ \E i \in DOMAIN filled :
                                window' = RemoveAt(filled, i) /\ hand(<< filled[i] >>)
  BY <1>4 DEF RecvCompletionEvent, Process
<1> HIDE DEF hand
<1>7. CASE hand(<< >>) /\ UNCHANGED << window, quiet, due >>
  <2>1. << >> \in Seq(Events) /\ Dropped(<< >>)
    BY <1>7 DEF Dropped
  <2> QED
    BY <1>5, <1>7, <2>1
<1>8. ASSUME NEW copies \in Copies(e), due' = [due EXCEPT ![e] = Len(copies)],
             size = 0, hand(copies), UNCHANGED << window, quiet >>
      PROVE  \E todo \in Seq(Events) : Takes(t, e, todo) /\ PassedOn(e, copies, todo)
  <2>1. copies \in Seq(Events) /\ PassedOn(e, copies, copies)
    BY <1>8, CopiesType DEF PassedOn
  <2> QED
    BY <1>5, <1>8, <2>1
<1>9. ASSUME NEW copies \in Copies(e), due' = [due EXCEPT ![e] = Len(copies)], quiet' = FALSE,
             \/ window' = window \o copies /\ hand(<< >>)
             \/ \E i \in DOMAIN (window \o copies) :
                   window' = RemoveAt(window \o copies, i) /\ hand(<< (window \o copies)[i] >>)
      PROVE  \E todo \in Seq(Events) : Takes(t, e, todo) /\ Queued(e, copies, todo)
  <2>1. window \o copies \in Seq(Events)
    BY CopiesType, SetOfConcat DEF TypeInv, Typed
  <2>2. CASE window' = window \o copies /\ hand(<< >>)
    <3>1. << >> \in Seq(Events) /\ Queued(e, copies, << >>)
      BY <1>9, <2>2 DEF Queued
    <3> QED
      BY <1>5, <2>2, <3>1
  <2>3. ASSUME NEW i \in DOMAIN (window \o copies), window' = RemoveAt(window \o copies, i),
               hand(<< (window \o copies)[i] >>)
        PROVE  \E todo \in Seq(Events) : Takes(t, e, todo) /\ Queued(e, copies, todo)
    <3>1. (window \o copies)[i] \in Events
      BY <2>1, <2>3, SetOfRemoveAt
    <3>2. << (window \o copies)[i] >> \in Seq(Events)
      BY <3>1
    <3>3. Queued(e, copies, << (window \o copies)[i] >>)
      BY <1>9, <2>3 DEF Queued
    <3> QED
      BY <1>5, <2>3, <3>2, <3>3
  <2> QED
    BY <1>9, <2>2, <2>3
<1> QED
  BY <1>6, <1>7, <1>8, <1>9

\* The window stays a window of events, and the copies are counted.
LEMMA SimulatorTypes ==
  ASSUME TypeInv, NEW e \in Events, NEW todo \in Seq(Events),
         \/ Dropped(todo)
         \/ \E copies \in Copies(e) : PassedOn(e, copies, todo) \/ Queued(e, copies, todo)
  PROVE  window' \in Seq(Events) /\ quiet' \in BOOLEAN /\ due' \in [Events -> Int]
<1>1. window \in Seq(Events) /\ quiet \in BOOLEAN /\ due \in [Events -> Int]
  BY DEF TypeInv, Typed
<1>2. ASSUME NEW copies \in Copies(e), PassedOn(e, copies, todo) \/ Queued(e, copies, todo)
      PROVE  window' \in Seq(Events) /\ quiet' \in BOOLEAN /\ due' \in [Events -> Int]
  <2>1. due' \in [Events -> Int] /\ quiet' \in BOOLEAN
    <3>1. due' = [due EXCEPT ![e] = Len(copies)] /\ quiet' \in {quiet, FALSE}
      BY <1>2 DEF PassedOn, Queued
    <3>2. Len(copies) \in Int
      BY CopiesType
    <3> QED
      BY <1>1, <3>1, <3>2
  <2>2. window \o copies \in Seq(Events)
    BY <1>1, CopiesType, SetOfConcat
  <2>3. window' \in Seq(Events)
    <3>1. ASSUME NEW i \in DOMAIN (window \o copies)
          PROVE  RemoveAt(window \o copies, i) \in Seq(Events)
      BY <2>2, SetOfRemoveAt
    <3> QED
      BY <1>1, <1>2, <2>2, <3>1 DEF PassedOn, Queued
  <2> QED
    BY <2>1, <2>3
<1> QED
  BY <1>1, <1>2 DEF Dropped

LEMMA RecvTypes == ASSUME TypeInv, NEW t \in Threads, RecvCompletionEvent(t) PROVE TypeInv'
<1>1. PICK e \in Events, todo \in Seq(Events) :
            /\ Takes(t, e, todo)
            /\ \/ Dropped(todo)
               \/ \E copies \in Copies(e) : PassedOn(e, copies, todo) \/ Queued(e, copies, todo)
  BY RecvEffect
<1>2. window' \in Seq(Events) /\ quiet' \in BOOLEAN /\ due' \in [Events -> Int]
  BY <1>1, SimulatorTypes
<1>3. Only(t) /\ RestOf(t)'
  BY <1>1 DEF Takes, RestOf
<1>4. Typed'
  BY <1>2, <1>3 DEF TypeInv, Typed, RecvCompletionEvent, socket, Only
<1> QED
  BY <1>3, <1>4, RestStep DEF TypeInv

LEMMA FlushEffect ==
  ASSUME TypeInv, FlushStale
  PROVE  /\ Tick \in Threads /\ Only(Tick) /\ thread[Tick].todo = << >> /\ thread[Tick].pc = "wait"
         /\ thread'[Tick].batch = thread[Tick].batch /\ thread'[Tick].event = thread[Tick].event
         /\ \/ /\ thread'[Tick].pc = "dispatch" /\ thread'[Tick].todo = window
               /\ window' = << >>
            \/ /\ thread'[Tick].pc = "check" /\ thread'[Tick].todo = << >>
               /\ UNCHANGED window
<1>1. Tick \in Threads /\ thread[Tick] \in Hands /\ thread[Tick].todo = << >>
      /\ thread[Tick].pc = "wait"
  BY DEF Threads, FlushStale, At, TypeInv, Typed, Rest, RestOf
<1>2. CASE IsStale
  <2>1. thread' = [thread EXCEPT ![Tick].pc = "dispatch", ![Tick].todo = window]
    BY <1>2 DEF FlushStale
  <2>2. thread \in [Threads -> Hands] /\ window \in Seq(Events) /\ "dispatch" \in Locations
    BY DEF TypeInv, Typed, Locations
  <2>3. Only(Tick)
    BY <1>1, <2>1, <2>2 DEF Only, Hands
  <2>4. /\ thread'[Tick].pc = "dispatch" /\ thread'[Tick].todo = window
        /\ thread'[Tick].batch = thread[Tick].batch /\ thread'[Tick].event = thread[Tick].event
    BY <1>1, <2>1, <2>2 DEF Hands
  <2> QED
    BY <1>1, <1>2, <2>3, <2>4 DEF FlushStale, Kept
<1>3. CASE ~IsStale
  BY <1>1, <1>3, GotoEffect DEF FlushStale, TypeInv, Locations
<1> QED
  BY <1>1, <1>2, <1>3

LEMMA FlushTypes == ASSUME TypeInv, FlushStale PROVE TypeInv'
<1>1. Tick \in Threads /\ Only(Tick) /\ RestOf(Tick)'
  BY FlushEffect DEF TypeInv, Rest, RestOf
<1>2. window' \in Seq(Events)
  <2>1. window' = window \/ window' = << >>
    BY FlushEffect
  <2>2. window \in Seq(Events) /\ << >> \in Seq(Events)
    BY DEF TypeInv, Typed
  <2> QED
    BY <2>1, <2>2
<1>3. Typed'
  BY <1>1, <1>2 DEF TypeInv, Typed, FlushStale, socket, Only
<1> QED
  BY <1>1, <1>3, RestStep DEF TypeInv

\* Thread t dispatches the first copy it has in hand, of event e.
Dispatches(t, e) ==
    /\ Only(t) /\ thread[t].pc = "dispatch" /\ thread'[t].pc = "dispatch"
    /\ thread[t].todo \in Seq(Events) /\ thread[t].todo # << >>
    /\ e = Head(thread[t].todo) /\ e \in Events
    /\ thread'[t].todo = Tail(thread[t].todo) /\ Tail(thread[t].todo) \in Seq(Events)
    /\ thread'[t].batch = thread[t].batch /\ thread'[t].event = thread[t].event
    /\ due' = [due EXCEPT ![e] = due[e] - 1]

LEMMA DispatchEffect ==
  ASSUME TypeInv, NEW t \in Threads, DispatchToConnection(t) \/ ProcessConnectionless(t)
  PROVE  \E e : /\ Dispatches(t, e)
                /\ \/ jobs' = Append(jobs, e) /\ UNCHANGED socket
                   \/ Release(e) /\ UNCHANGED jobs
<1>1. thread[t] \in Hands /\ thread[t].pc = "dispatch" /\ thread[t].todo # << >>
      /\ thread[t].todo \in Seq(Events)
  BY DEF DispatchToConnection, ProcessConnectionless, At, TypeInv, Typed, Hands
<1>2. Head(thread[t].todo) \in Events /\ Tail(thread[t].todo) \in Seq(Events)
  BY <1>1, SetOfTail
<1>3. thread' = [thread EXCEPT ![t].todo = Tail(@)]
  BY DEF DispatchToConnection, ProcessConnectionless
<1>4. /\ Only(t) /\ thread'[t].pc = "dispatch" /\ thread'[t].todo = Tail(thread[t].todo)
      /\ thread'[t].batch = thread[t].batch /\ thread'[t].event = thread[t].event
  BY <1>1, <1>2, <1>3 DEF TypeInv, Typed, Only, Hands
<1>5. PICK e : e = Head(thread[t].todo)
  OBVIOUS
<1>6. due' = [due EXCEPT ![e] = due[e] - 1]
  BY <1>5 DEF DispatchToConnection, ProcessConnectionless
<1>7. \/ jobs' = Append(jobs, e) /\ UNCHANGED socket
      \/ Release(e) /\ UNCHANGED jobs
  BY <1>5 DEF DispatchToConnection, ProcessConnectionless
<1>8. Dispatches(t, e)
  BY <1>1, <1>2, <1>4, <1>5, <1>6 DEF Dispatches
<1> QED
  BY <1>7, <1>8

LEMMA ReleaseTypes ==
  ASSUME Typed, NEW e \in Events, Release(e) PROVE posted' \subseteq Events /\ lost' \subseteq Events
BY DEF Typed, Release, socket

LEMMA DispatchTypes ==
  ASSUME TypeInv, NEW t \in Threads, DispatchToConnection(t) \/ ProcessConnectionless(t)
  PROVE  TypeInv'
<1>1. PICK e : /\ Dispatches(t, e)
               /\ \/ jobs' = Append(jobs, e) /\ UNCHANGED socket
                  \/ Release(e) /\ UNCHANGED jobs
  BY DispatchEffect
<1>2. Only(t) /\ RestOf(t)' /\ e \in Events
  BY <1>1 DEF Dispatches, TypeInv, Rest, RestOf
<1>3. due' \in [Events -> Int]
  BY <1>1 DEF Dispatches, TypeInv, Typed
<1>4. posted' \subseteq Events /\ lost' \subseteq Events /\ jobs' \in Seq(Events)
  <2>1. posted \subseteq Events /\ lost \subseteq Events /\ jobs \in Seq(Events)
    BY DEF TypeInv, Typed
  <2>2. CASE jobs' = Append(jobs, e) /\ UNCHANGED socket
    BY <1>2, <2>1, <2>2, SetOfAppend DEF socket
  <2>3. CASE Release(e) /\ UNCHANGED jobs
    BY <1>2, <2>1, <2>3, ReleaseTypes DEF TypeInv
  <2> QED
    BY <1>1, <2>2, <2>3
<1>5. Typed'
  BY <1>2, <1>3, <1>4 DEF TypeInv, Typed, DispatchToConnection, ProcessConnectionless, Only
<1> QED
  BY <1>2, <1>5, RestStep DEF TypeInv

LEMMA EndDispatchEffect ==
  ASSUME TypeInv, NEW t \in Threads, EndDispatch(t)
  PROVE  /\ Only(t) /\ thread[t].todo = << >> /\ thread'[t].todo = << >>
         /\ thread'[t].batch = thread[t].batch /\ thread'[t].event = None
         /\ IF t = Tick THEN thread'[t].pc = "check" /\ UNCHANGED socket /\ thread[t].event = None
            ELSE /\ thread'[t].pc = "pump" /\ thread[t].event \in Events
                 /\ \E e \in Events : e = thread[t].event /\ Release(e)
<1>1. thread[t] \in Hands /\ thread[t].pc = "dispatch" /\ thread[t].todo = << >>
  BY DEF EndDispatch, At, TypeInv, Typed
<1>2. CASE t = Tick
  BY <1>1, <1>2, GotoEffect DEF EndDispatch, TypeInv, Locations, Rest, RestOf
<1>3. CASE t # Tick
  <2>1. thread' = [thread EXCEPT ![t].pc = "pump", ![t].event = None]
    BY <1>3 DEF EndDispatch
  <2>2. thread \in [Threads -> Hands] /\ "pump" \in Locations
    BY DEF TypeInv, Typed, Locations
  <2>3. Only(t)
    BY <1>1, <2>1, <2>2 DEF Only, Hands
  <2>4. /\ thread'[t].pc = "pump" /\ thread'[t].todo = thread[t].todo
        /\ thread'[t].batch = thread[t].batch /\ thread'[t].event = None
    BY <1>1, <2>1, <2>2 DEF Hands
  <2>5. thread[t].event \in Events
    BY <1>1, <1>3 DEF TypeInv, Rest, RestOf
  <2>6. PICK e : e = thread[t].event
    OBVIOUS
  <2>7. Release(e)
    BY <1>3, <2>6 DEF EndDispatch
  <2> QED
    BY <1>1, <1>3, <2>3, <2>4, <2>5, <2>6, <2>7
<1> QED
  BY <1>1, <1>2, <1>3

LEMMA EndDispatchTypes == ASSUME TypeInv, NEW t \in Threads, EndDispatch(t) PROVE TypeInv'
<1>1. Only(t) /\ RestOf(t)'
  BY EndDispatchEffect DEF TypeInv, Rest, RestOf
<1>2. posted' \subseteq Events /\ lost' \subseteq Events
  BY EndDispatchEffect, ReleaseTypes DEF TypeInv, Typed, socket
<1>3. Typed'
  BY <1>1, <1>2 DEF TypeInv, Typed, EndDispatch, simulator, Only
<1> QED
  BY <1>1, <1>3, RestStep DEF TypeInv

(* The steps of no thread. *)
LEMMA OtherTypes ==
  ASSUME TypeInv,
         \/ \E e \in Events : Arrive(e)
         \/ Hold \/ Reconfigure \/ RunJob \/ Stop \/ UNCHANGED vars
  PROVE  TypeInv'
<1>1. UNCHANGED thread
  BY DEF Arrive, Hold, Reconfigure, RunJob, Stop, vars
<1>2. Rest'
  BY <1>1 DEF TypeInv, Rest, RestOf
<1>3. completions' \in Seq(Completion)
  <2>1. completions \in Seq(Completion)
    BY DEF TypeInv, Typed
  <2>2. CASE Stop
    <3>1. Cardinality(IoThreads) \in Nat
      BY ConstantsOK, FS_CardinalityType DEF ConstantsOK
    <3>2. PICK n \in Nat : n = Cardinality(IoThreads)
      BY <3>1
    <3>3. [i \in 1 .. n |-> WakeUp] \in Seq(Completion)
      BY DEF Completion
    <3>4. completions' = completions \o [i \in 1 .. n |-> WakeUp]
      BY <2>2, <3>2 DEF Stop
    <3> QED
      BY <2>1, <3>3, <3>4
  <2>3. CASE \E e \in Events : Arrive(e)
    BY <2>1, <2>3 DEF Arrive, Completion
  <2> QED
    BY <2>1, <2>2, <2>3 DEF Hold, Reconfigure, RunJob, vars
<1>4. posted' \subseteq Events /\ lost' \subseteq Events /\ jobs' \in Seq(Events)
  <2>1. posted \subseteq Events /\ lost \subseteq Events /\ jobs \in Seq(Events)
    BY DEF TypeInv, Typed
  <2>2. CASE RunJob
    <3>1. PICK e : e = Head(jobs)
      OBVIOUS
    <3>2. e \in Events /\ Release(e) /\ jobs' = Tail(jobs) /\ Tail(jobs) \in Seq(Events)
      BY <2>1, <2>2, <3>1, SetOfTail DEF RunJob
    <3> QED
      BY <3>2, ReleaseTypes DEF TypeInv
  <2>3. CASE ~RunJob
    BY <2>1, <2>3 DEF Arrive, Hold, Reconfigure, Stop, vars, socket
  <2> QED
    BY <2>2, <2>3
<1>5. /\ window' \in Seq(Events) /\ size' \in WindowSizes /\ quiet' \in BOOLEAN
      /\ due' \in [Events -> Int] /\ stopping' \in BOOLEAN
  BY DEF TypeInv, Typed, Arrive, Hold, Reconfigure, RunJob, Stop, vars, simulator
<1> QED
  BY <1>1, <1>2, <1>3, <1>4, <1>5 DEF TypeInv, Typed

LEMMA NextTypes == TypeInv /\ [Next]_vars => TypeInv'
<1> SUFFICES ASSUME TypeInv, [Next]_vars PROVE TypeInv'
  OBVIOUS
<1>1. CASE \E t \in Threads : LoopStep(t)
  BY <1>1, LoopTypes, PumpTypes, TimeoutTypes, SkipTypes, RecvTypes, DispatchTypes,
     EndDispatchTypes DEF LoopStep, Dispatch
<1>2. CASE FlushStale
  BY <1>2, FlushTypes
<1>3. CASE ~(\E t \in Threads : LoopStep(t)) /\ ~FlushStale
  BY <1>3, OtherTypes DEF Next
<1> QED
  BY <1>1, <1>2, <1>3

-----------------------------------------------------------------------------
(* Places.                                                                 *)

\* No event is twice in s; what wakes threads up may be.
Once(s) == \A i, j \in DOMAIN s : s[i] = s[j] /\ s[i] \in Events => i = j
Apart(s, u) == \A e \in Events : ~(e \in ToSet(s) /\ e \in ToSet(u))

(* An event is once in the completion port and the batches taken from it. *)
PortOnce ==
    /\ Once(completions)
    /\ \A t \in Threads : Once(thread[t].batch) /\ Apart(completions, thread[t].batch)
    /\ \A t, u \in Threads : t # u => Apart(thread[t].batch, thread[u].batch)

PlaceInv == PortOnce /\ OnePlace

\* An event that was not there may be appended, ...
LEMMA OnceAppend ==
  ASSUME NEW s \in Seq(Completion), Once(s), NEW e \in Events, e \notin ToSet(s)
  PROVE  Once(Append(s, e))
<1>1. /\ Len(Append(s, e)) = Len(s) + 1 /\ Len(s) \in Nat /\ DOMAIN s = 1 .. Len(s)
      /\ Append(s, e)[Len(s) + 1] = e /\ \A i \in 1 .. Len(s) : Append(s, e)[i] = s[i]
      /\ DOMAIN Append(s, e) = 1 .. Len(s) + 1
  OBVIOUS
<1>2. PICK u : u = Append(s, e)
  OBVIOUS
<1>3. \A i \in 1 .. Len(s) : s[i] # e
  BY <1>1 DEF ToSet
<1>4. Once(u)
  BY <1>1, <1>2, <1>3 DEF Once
<1> QED
  BY <1>2, <1>4

\* ... taking the first one leaves the others once, ...
LEMMA OnceTail ==
  ASSUME NEW s \in Seq(Completion), Once(s), s # << >>
  PROVE  Once(Tail(s)) /\ (Head(s) \in Events => Head(s) \notin ToSet(Tail(s)))
<1>1. PICK u : u = Tail(s)
  OBVIOUS
<1>2. /\ Head(s) = s[1] /\ Len(s) \in Nat \ {0} /\ DOMAIN s = 1 .. Len(s)
      /\ DOMAIN u = 1 .. Len(s) - 1 /\ \A i \in 1 .. Len(s) - 1 : u[i] = s[i + 1]
  BY <1>1
<1>3. Once(u)
  <2> SUFFICES ASSUME NEW i \in DOMAIN u, NEW j \in DOMAIN u, u[i] = u[j], u[i] \in Events
               PROVE  i = j
    BY DEF Once
  <2>1. i + 1 \in DOMAIN s /\ j + 1 \in DOMAIN s /\ s[i + 1] = s[j + 1] /\ s[i + 1] \in Events
    BY <1>2
  <2>2. i + 1 = j + 1
    BY <2>1 DEF Once
  <2> QED
    BY <1>2, <2>2
<1>4. ASSUME Head(s) \in Events, Head(s) \in ToSet(u) PROVE FALSE
  <2>1. PICK i \in DOMAIN u : u[i] = Head(s)
    BY <1>4 DEF ToSet
  <2>2. i + 1 \in DOMAIN s /\ 1 \in DOMAIN s /\ s[i + 1] = s[1] /\ s[1] \in Events
    BY <1>2, <1>4, <2>1
  <2>3. i + 1 = 1
    BY <2>2 DEF Once
  <2> QED
    BY <1>2, <2>1, <2>3
<1> QED
  BY <1>1, <1>3, <1>4

\* A batch and what is left in the port.
LEMMA SplitAt ==
  ASSUME NEW s \in Seq(Completion), NEW n \in 1 .. Len(s)
  PROVE  s = SubSeq(s, 1, n) \o SubSeq(s, n + 1, Len(s))
<1>1. PICK l \in Nat : l = Len(s)
  OBVIOUS
<1>2. PICK a, b : a = SubSeq(s, 1, n) /\ b = SubSeq(s, n + 1, l)
  OBVIOUS
<1>3. /\ a \in Seq(Completion) /\ Len(a) = n /\ \A i \in 1 .. n : a[i] = s[i]
      /\ b \in Seq(Completion) /\ Len(b) = l - n /\ \A i \in 1 .. l - n : b[i] = s[n + i]
  BY <1>1, <1>2
<1>4. PICK u : u = a \o b
  OBVIOUS
<1>5. n \in 1 .. l
  BY <1>1
<1>6. u \in Seq(Completion) /\ Len(u) = l
  <2>1. u \in Seq(Completion) /\ Len(u) = Len(a) + Len(b)
    BY <1>3, <1>4
  <2>2. n + (l - n) = l
    BY <1>5
  <2> QED
    BY <1>3, <2>1, <2>2
<1>7. ASSUME NEW i \in 1 .. l PROVE u[i] = s[i]
  <2>1. CASE i <= n
    BY <1>3, <1>4, <1>5, <2>1
  <2>2. CASE ~(i <= n)
    <3>1. i - n \in 1 .. l - n /\ n + (i - n) = i
      BY <1>5, <2>2
    <3>2. u[i] = b[i - n]
      BY <1>3, <1>4, <1>5, <2>2
    <3> QED
      BY <1>3, <3>1, <3>2
  <2> QED
    BY <2>1, <2>2
<1>8. u = s
  BY <1>1, <1>6, <1>7
<1> QED
  BY <1>1, <1>2, <1>4, <1>8

\* ... and so does cutting the sequence in two, which share none.
LEMMA OnceSplit ==
  ASSUME NEW a \in Seq(Completion), NEW b \in Seq(Completion), Once(a \o b)
  PROVE  Once(a) /\ Once(b) /\ Apart(b, a)
<1>1. PICK s : s = a \o b
  OBVIOUS
<1>2. PICK n \in Nat : n = Len(a)
  OBVIOUS
<1>3. PICK m \in Nat : m = Len(b)
  OBVIOUS
<1>4. /\ DOMAIN a = 1 .. n /\ DOMAIN b = 1 .. m /\ DOMAIN s = 1 .. n + m
      /\ \A i \in 1 .. n : s[i] = a[i]
  BY <1>1, <1>2, <1>3
<1>5. \A i \in 1 .. m : s[n + i] = b[i]
  BY <1>1, <1>2, <1>3
<1>6. Once(s)
  BY <1>1
<1>7. \A i \in 1 .. n : i \in 1 .. n + m
  OBVIOUS
<1>8. \A j \in 1 .. m : n + j \in 1 .. n + m
  OBVIOUS
<1>9. Once(a)
  BY <1>4, <1>6, <1>7 DEF Once
<1>10. Once(b)
  <2> SUFFICES ASSUME NEW i \in 1 .. m, NEW j \in 1 .. m, b[i] = b[j], b[i] \in Events
               PROVE  i = j
    BY <1>4 DEF Once
  <2>1. n + i = n + j
    BY <1>4, <1>5, <1>6, <1>8 DEF Once
  <2> QED
    BY <2>1
<1>11. Apart(b, a)
  <2> SUFFICES ASSUME NEW e \in Events, e \in ToSet(b), e \in ToSet(a) PROVE FALSE
    BY DEF Apart
  <2>1. PICK i \in 1 .. n : a[i] = e
    BY <1>4 DEF ToSet
  <2>2. PICK j \in 1 .. m : b[j] = e
    BY <1>4 DEF ToSet
  <2>3. i = n + j
    BY <1>4, <1>5, <1>6, <1>7, <1>8, <2>1, <2>2 DEF Once
  <2> QED
    BY <2>1, <2>2, <2>3
<1> QED
  BY <1>9, <1>10, <1>11

\* What refers to event e in the hands of thread t.
HeldBy(e, t) == thread[t].event = e \/ e \in ToSet(thread[t].todo)

LEMMA ReferencedStep ==
  ASSUME NEW t \in Threads, Only(t), NEW e,
         (e \in ToSet(window') \/ e \in ToSet(jobs') \/ HeldBy(e, t)')
            <=> (e \in ToSet(window) \/ e \in ToSet(jobs) \/ HeldBy(e, t))
  PROVE  Referenced(e)' <=> Referenced(e)
BY DEF Referenced, Refers, HeldBy, Only

LEMMA CompletedStep ==
  ASSUME NEW t \in Threads, Only(t), NEW e,
         (e \in ToSet(completions') \/ e \in ToSet(thread'[t].batch))
            <=> (e \in ToSet(completions) \/ e \in ToSet(thread[t].batch))
  PROVE  Completed(e)' <=> Completed(e)
BY DEF Completed, Only

\* The port when a step of t changes its batch alone, and takes nothing in.
LEMMA PortStep ==
  ASSUME PortOnce, NEW t \in Threads, Only(t), Once(completions'), Once(thread'[t].batch),
         Apart(completions', thread'[t].batch),
         \A e \in Events : \/ e \in ToSet(completions')
                           \/ e \in ToSet(thread'[t].batch)
                           => e \in ToSet(completions) \/ e \in ToSet(thread[t].batch),
         \A e \in Events : e \in ToSet(completions') => e \in ToSet(completions)
  PROVE  PortOnce'
BY DEF PortOnce, Only, Apart

LEMMA PortKept ==
  ASSUME PortOnce, UNCHANGED completions,
         \A t \in Threads : thread'[t].batch = thread[t].batch
  PROVE  PortOnce' /\ \A e : Completed(e)' <=> Completed(e)
BY DEF PortOnce, Completed

LEMMA PlacesKept ==
  ASSUME OnePlace, UNCHANGED socket,
         \A e \in Events : (Completed(e)' <=> Completed(e)) /\ (Referenced(e)' <=> Referenced(e))
  PROVE  OnePlace'
BY DEF OnePlace, If, socket

(* An event whose last reference goes is given back, any other is kept. *)
LEMMA PlacesReleased ==
  ASSUME OnePlace, NEW e \in Events, Referenced(e), Release(e),
         \A x \in Events : Completed(x)' <=> Completed(x),
         \A x \in Events : x # e => (Referenced(x)' <=> Referenced(x))
  PROVE  OnePlace'
<1>1. e \notin posted /\ e \notin lost /\ ~Completed(e)
  BY DEF OnePlace, If
<1>2. IF ~Referenced(e)' THEN \/ posted' = posted \cup {e} /\ lost' = lost
                              \/ posted' = posted /\ lost' = lost \cup {e}
                         ELSE posted' = posted /\ lost' = lost
  BY DEF Release, IsLast, Referenced, socket
<1>3. \A x \in Events : x # e =>
         If(x \in posted)' + If(x \in lost)' + If(Completed(x))' + If(Referenced(x))' = 1
  BY <1>2 DEF OnePlace, If
<1>4. If(e \in posted)' + If(e \in lost)' + If(Completed(e))' + If(Referenced(e))' = 1
  BY <1>1, <1>2 DEF If
<1> QED
  BY <1>3, <1>4 DEF OnePlace

LEMMA InitPlaces == Init => PlaceInv
<1> SUFFICES ASSUME Init PROVE PlaceInv
  OBVIOUS
<1>1. completions = << >> /\ window = << >> /\ jobs = << >>
      /\ \A t \in Threads : /\ thread[t].batch = << >> /\ thread[t].todo = << >>
                            /\ thread[t].event = None
  BY DEF Init, Start
<1>2. PortOnce
  BY <1>1 DEF PortOnce, Once, Apart, ToSet
<1>3. ASSUME NEW e \in Events PROVE ~Completed(e) /\ ~Referenced(e)
  BY <1>1, <1>3, ConstantsOK DEF Completed, Referenced, Refers, ToSet, ConstantsOK
<1>4. OnePlace
  BY <1>3 DEF Init, OnePlace, If
<1> QED
  BY <1>2, <1>4 DEF PlaceInv

LEMMA ArrivePlaces ==
  ASSUME TypeInv, PlaceInv, NEW e \in Events, Arrive(e) PROVE PlaceInv'
<1>1. /\ UNCHANGED << lost, window, jobs, thread >> /\ posted' = posted \ {e} /\ e \in posted
      /\ completions' = Append(completions, e) /\ completions \in Seq(Completion)
      /\ e \in Completion
  BY DEF Arrive, simulator, TypeInv, Typed, Completion
<1>2. ~Completed(e) /\ ~Referenced(e)
  BY <1>1 DEF PlaceInv, OnePlace, If
<1>3. ToSet(completions') = ToSet(completions) \cup {e} /\ Once(completions')
  BY <1>1, <1>2, SetOfAppend, OnceAppend DEF PlaceInv, PortOnce, Completed
<1>4. PortOnce'
  BY <1>1, <1>2, <1>3 DEF PlaceInv, PortOnce, Apart, Completed
<1>5. \A x \in Events : (Completed(x)' <=> Completed(x) \/ x = e) /\ (Referenced(x)' <=> Referenced(x))
  BY <1>1, <1>3 DEF Completed, Referenced, Refers
<1>6. OnePlace'
  BY <1>1, <1>2, <1>5 DEF PlaceInv, OnePlace, If
<1> QED
  BY <1>4, <1>6 DEF PlaceInv

LEMMA PumpPlaces == ASSUME TypeInv, PlaceInv, NEW t \in Threads, PumpIO(t) PROVE PlaceInv'
<1>1. PICK n \in 1 .. Len(completions) :
           /\ Only(t) /\ thread[t].batch = << >>
           /\ thread'[t].batch = SubSeq(completions, 1, n)
           /\ thread'[t].todo = thread[t].todo /\ thread'[t].event = thread[t].event
           /\ completions' = SubSeq(completions, n + 1, Len(completions))
           /\ thread'[t].batch \in Seq(Completion) /\ completions' \in Seq(Completion)
  BY PumpEffect
<1>2. completions \in Seq(Completion) /\ Once(completions)
  BY DEF TypeInv, Typed, PlaceInv, PortOnce
<1>3. /\ Once(thread'[t].batch) /\ Once(completions') /\ Apart(completions', thread'[t].batch)
      /\ ToSet(completions) = ToSet(thread'[t].batch) \cup ToSet(completions')
  <2>1. PICK a, b : a = thread'[t].batch /\ b = completions'
    OBVIOUS
  <2>2. completions = a \o b
    BY <1>1, <1>2, <2>1, SplitAt
  <2>3. a \in Seq(Completion) /\ b \in Seq(Completion)
    BY <1>1, <2>1
  <2>4. Once(a) /\ Once(b) /\ Apart(b, a) /\ ToSet(completions) = ToSet(a) \cup ToSet(b)
    BY <1>2, <2>2, <2>3, OnceSplit, SetOfConcat
  <2> QED
    BY <2>1, <2>4
<1>4. PortOnce'
  BY <1>1, <1>3, PortStep DEF PlaceInv
<1>5. \A e : e \notin ToSet(thread[t].batch)
  BY <1>1 DEF ToSet
<1>6. UNCHANGED << window, jobs, socket >>
  BY DEF PumpIO, simulator
<1>7. \A e \in Events : (Completed(e)' <=> Completed(e)) /\ (Referenced(e)' <=> Referenced(e))
  BY <1>1, <1>3, <1>5, <1>6, CompletedStep, ReferencedStep DEF HeldBy
<1> QED
  BY <1>4, <1>6, <1>7, PlacesKept DEF PlaceInv

LEMMA SkipPlaces == ASSUME TypeInv, PlaceInv, NEW t \in Threads, SkipEntry(t) PROVE PlaceInv'
<1>1. /\ Only(t) /\ thread[t].batch # << >> /\ Head(thread[t].batch) = WakeUp
      /\ thread[t].batch \in Seq(Completion) /\ thread'[t].batch = Tail(thread[t].batch)
      /\ thread'[t].todo = thread[t].todo /\ thread'[t].event = thread[t].event
  BY SkipEffect
<1>2. /\ Once(thread'[t].batch) /\ ToSet(thread[t].batch) = ToSet(thread'[t].batch) \cup {WakeUp}
      /\ WakeUp \notin Events
  BY <1>1, OnceTail, SetOfTail, ConstantsOK DEF PlaceInv, PortOnce, ConstantsOK
<1>3. UNCHANGED << completions, window, jobs, socket >>
  BY DEF SkipEntry, simulator
<1>4. PortOnce'
  BY <1>1, <1>2, <1>3, PortStep DEF PlaceInv, PortOnce, Apart
<1>5. \A e \in Events : (Completed(e)' <=> Completed(e)) /\ (Referenced(e)' <=> Referenced(e))
  BY <1>1, <1>2, <1>3, CompletedStep, ReferencedStep DEF HeldBy
<1> QED
  BY <1>3, <1>4, <1>5, PlacesKept DEF PlaceInv

\* Where the simulator leaves the copies of e and of the events in its window.
LEMMA SimulatorPlaces ==
  ASSUME TypeInv, NEW e \in Events, NEW todo \in Seq(Events),
         \/ Dropped(todo)
         \/ \E copies \in Copies(e) : PassedOn(e, copies, todo) \/ Queued(e, copies, todo)
  PROVE  \A x \in Events : x # e =>
            ((x \in ToSet(window') \/ x \in ToSet(todo)) <=> x \in ToSet(window))
<1>1. window \in Seq(Events)
  BY DEF TypeInv, Typed
<1>2. CASE Dropped(todo)
  BY <1>2 DEF Dropped, ToSet
<1>3. ASSUME NEW copies \in Copies(e), PassedOn(e, copies, todo) \/ Queued(e, copies, todo),
             NEW x \in Events, x # e
      PROVE  (x \in ToSet(window') \/ x \in ToSet(todo)) <=> x \in ToSet(window)
  <2>1. copies \in Seq(Events) /\ x \notin ToSet(copies)
    BY <1>3, CopiesType DEF ToSet
  <2>2. PICK filled : filled = window \o copies
    OBVIOUS
  <2>3. filled \in Seq(Events) /\ (x \in ToSet(filled) <=> x \in ToSet(window))
    BY <1>1, <2>1, <2>2, SetOfConcat
  <2>4. CASE PassedOn(e, copies, todo)
    BY <2>1, <2>4 DEF PassedOn
  <2>5. CASE window' = filled /\ todo = << >>
    BY <2>3, <2>5 DEF ToSet
  <2>6. ASSUME NEW i \in DOMAIN filled, window' = RemoveAt(filled, i), todo = << filled[i] >>
        PROVE  (x \in ToSet(window') \/ x \in ToSet(todo)) <=> x \in ToSet(window)
    <3>1. ToSet(filled) = ToSet(window') \cup {filled[i]}
      BY <2>3, <2>6, SetOfRemoveAt
    <3>2. PICK y : y = filled[i]
      OBVIOUS
    <3>3. ToSet(<< y >>) = {y}
      BY DEF ToSet
    <3> QED
      BY <2>3, <2>6, <3>1, <3>2, <3>3
  <2> QED
    BY <1>3, <2>2, <2>4, <2>5, <2>6 DEF Queued
<1> QED
  BY <1>2, <1>3

(* The event taken from the port has no reader; from now on the thread refers to it. *)
LEMMA RecvPlaces ==
  ASSUME TypeInv, PlaceInv, NEW t \in Threads, RecvCompletionEvent(t) PROVE PlaceInv'
<1>1. PICK e \in Events, todo \in Seq(Events) :
            /\ Takes(t, e, todo)
            /\ \/ Dropped(todo)
               \/ \E copies \in Copies(e) : PassedOn(e, copies, todo) \/ Queued(e, copies, todo)
  BY RecvEffect
<1>2. UNCHANGED << posted, lost, completions, jobs >>
  BY DEF RecvCompletionEvent, socket
<1>3. /\ Only(t) /\ thread'[t].batch = Tail(thread[t].batch) /\ e = Head(thread[t].batch)
      /\ Once(thread'[t].batch) /\ e \notin ToSet(thread'[t].batch)
      /\ ToSet(thread[t].batch) = ToSet(thread'[t].batch) \cup {e}
  BY <1>1, OnceTail, SetOfTail DEF Takes, PlaceInv, PortOnce
<1>4. PortOnce'
  BY <1>2, <1>3, PortStep DEF PlaceInv, PortOnce, Apart
<1>5. Completed(e) /\ ~Completed(e)'
  BY <1>2, <1>3 DEF Completed, PlaceInv, PortOnce, Apart, Only
<1>6. \A x \in Events : x # e => (Completed(x)' <=> Completed(x))
  BY <1>2, <1>3, CompletedStep
<1>7. e \notin posted /\ e \notin lost /\ ~Referenced(e)
  BY <1>5 DEF PlaceInv, OnePlace, If
<1>8. Referenced(e)'
  BY <1>1 DEF Takes, Referenced, Refers
<1>9. ASSUME NEW x \in Events, x # e PROVE Referenced(x)' <=> Referenced(x)
  <2>1. (x \in ToSet(window') \/ x \in ToSet(todo)) <=> x \in ToSet(window)
    BY <1>1, <1>9, SimulatorPlaces
  <2>2. ~HeldBy(x, t) /\ (HeldBy(x, t)' <=> x \in ToSet(todo))
    BY <1>1, <1>9, ConstantsOK DEF Takes, HeldBy, ToSet, ConstantsOK
  <2> QED
    BY <1>2, <1>3, <2>1, <2>2, ReferencedStep
<1>10. OnePlace'
  BY <1>2, <1>5, <1>6, <1>7, <1>8, <1>9 DEF PlaceInv, OnePlace, If
<1> QED
  BY <1>4, <1>10 DEF PlaceInv

LEMMA FlushPlaces == ASSUME TypeInv, PlaceInv, FlushStale PROVE PlaceInv'
<1>1. UNCHANGED << socket, completions, jobs >>
  BY DEF FlushStale
<1>2. \A t \in Threads : thread'[t].batch = thread[t].batch
  BY FlushEffect DEF Only
<1>3. PortOnce' /\ \A x : Completed(x)' <=> Completed(x)
  BY <1>1, <1>2, PortKept DEF PlaceInv
<1>4. ASSUME NEW x \in Events PROVE Referenced(x)' <=> Referenced(x)
  <2>1. (x \in ToSet(window') \/ HeldBy(x, Tick)') <=> (x \in ToSet(window) \/ HeldBy(x, Tick))
    BY FlushEffect DEF HeldBy, ToSet
  <2> QED
    BY <1>1, <2>1, FlushEffect, ReferencedStep
<1> QED
  BY <1>1, <1>3, <1>4, PlacesKept DEF PlaceInv

LEMMA DispatchPlaces ==
  ASSUME TypeInv, PlaceInv, NEW t \in Threads, DispatchToConnection(t) \/ ProcessConnectionless(t)
  PROVE  PlaceInv'
<1>1. PICK e : /\ Dispatches(t, e)
               /\ \/ jobs' = Append(jobs, e) /\ UNCHANGED socket
                  \/ Release(e) /\ UNCHANGED jobs
  BY DispatchEffect
<1>2. UNCHANGED << completions, window >>
  BY DEF DispatchToConnection, ProcessConnectionless
<1>3. \A u \in Threads : thread'[u].batch = thread[u].batch
  BY <1>1 DEF Dispatches, Only
<1>4. PortOnce' /\ \A x : Completed(x)' <=> Completed(x)
  BY <1>2, <1>3, PortKept DEF PlaceInv
<1>5. /\ Only(t) /\ e \in Events /\ thread'[t].event = thread[t].event
      /\ ToSet(thread[t].todo) = ToSet(thread'[t].todo) \cup {e}
  BY <1>1, SetOfTail DEF Dispatches
<1>6. Referenced(e)
  BY <1>5 DEF Referenced, Refers
<1>7. CASE jobs' = Append(jobs, e) /\ UNCHANGED socket
  <2>1. ToSet(jobs') = ToSet(jobs) \cup {e}
    BY <1>5, <1>7, SetOfAppend DEF TypeInv, Typed
  <2>2. \A x : Referenced(x)' <=> Referenced(x)
    BY <1>2, <1>5, <2>1, ReferencedStep DEF HeldBy
  <2> QED
    BY <1>4, <1>7, <2>2, PlacesKept DEF PlaceInv
<1>8. CASE Release(e) /\ UNCHANGED jobs
  <2>1. \A x : x # e => (Referenced(x)' <=> Referenced(x))
    BY <1>2, <1>5, <1>8, ReferencedStep DEF HeldBy
  <2> QED
    BY <1>4, <1>5, <1>6, <1>8, <2>1, PlacesReleased DEF PlaceInv
<1> QED
  BY <1>1, <1>7, <1>8

LEMMA EndDispatchPlaces ==
  ASSUME TypeInv, PlaceInv, NEW t \in Threads, EndDispatch(t) PROVE PlaceInv'
<1>1. UNCHANGED << completions, window, jobs >>
  BY DEF EndDispatch, simulator
<1>2. /\ Only(t) /\ thread'[t].todo = thread[t].todo /\ thread'[t].event = None
      /\ thread'[t].batch = thread[t].batch
  BY EndDispatchEffect
<1>3. PortOnce' /\ \A x : Completed(x)' <=> Completed(x)
  BY <1>1, <1>2, PortKept DEF PlaceInv, Only
<1>4. ASSUME NEW x \in Events, x # thread[t].event PROVE Referenced(x)' <=> Referenced(x)
  BY <1>1, <1>2, <1>4, ConstantsOK, ReferencedStep DEF HeldBy, ConstantsOK
<1>5. CASE t = Tick
  BY <1>3, <1>4, <1>5, EndDispatchEffect, ConstantsOK, PlacesKept DEF PlaceInv, ConstantsOK
<1>6. CASE t # Tick
  <2>1. PICK e \in Events : e = thread[t].event /\ Release(e)
    BY <1>6, EndDispatchEffect
  <2>2. Referenced(e)
    BY <2>1 DEF Referenced, Refers
  <2> QED
    BY <1>3, <1>4, <2>1, <2>2, PlacesReleased DEF PlaceInv
<1> QED
  BY <1>5, <1>6

LEMMA JobPlaces == ASSUME TypeInv, PlaceInv, RunJob PROVE PlaceInv'
<1>1. UNCHANGED << completions, window, thread >> /\ jobs # << >> /\ jobs \in Seq(Events)
  BY DEF RunJob, simulator, TypeInv, Typed
<1>2. PortOnce' /\ \A x : Completed(x)' <=> Completed(x)
  BY <1>1, PortKept DEF PlaceInv
<1>3. PICK e : e = Head(jobs)
  OBVIOUS
<1>4. e \in Events /\ ToSet(jobs) = ToSet(jobs') \cup {e} /\ Release(e)
  BY <1>1, <1>3, SetOfTail DEF RunJob
<1>5. Referenced(e) /\ \A x : x # e => (Referenced(x)' <=> Referenced(x))
  BY <1>1, <1>4 DEF Referenced, Refers
<1> QED
  BY <1>2, <1>4, <1>5, PlacesReleased DEF PlaceInv

LEMMA StopPlaces == ASSUME TypeInv, PlaceInv, Stop PROVE PlaceInv'
<1>1. UNCHANGED << posted, lost, window, jobs, thread >>
  BY DEF Stop, socket, simulator
<1>2. PICK s : s = [i \in 1 .. Cardinality(IoThreads) |-> WakeUp]
  OBVIOUS
<1>3. Cardinality(IoThreads) \in Nat
  BY ConstantsOK, FS_CardinalityType DEF ConstantsOK
<1>4. s \in Seq({WakeUp}) /\ \A e \in Events : e \notin ToSet(s)
  BY <1>2, <1>3, ConstantsOK DEF ToSet, ConstantsOK
<1>5. completions \in Seq(Completion) /\ s \in Seq(Completion)
  BY <1>4 DEF TypeInv, Typed, Completion
<1>6. completions' = completions \o s
  BY <1>2 DEF Stop
<1>7. \A e \in Events : e \in ToSet(completions') <=> e \in ToSet(completions)
  BY <1>4, <1>5, <1>6, SetOfConcat
<1>8. Once(completions')
  <2>a. PICK n \in Nat : n = Len(completions)
    BY <1>5
  <2>b. PICK m \in Nat : m = Len(s)
    BY <1>5
  <2>c. PICK u : u = completions \o s
    OBVIOUS
  <2>1. /\ u = completions \o s /\ n = Len(completions) /\ m = Len(s)
        /\ n \in Nat /\ m \in Nat
    BY <2>a, <2>b, <2>c
  <2>2. /\ DOMAIN u = 1 .. n + m /\ DOMAIN completions = 1 .. n
        /\ \A i \in 1 .. n : u[i] = completions[i]
    BY <1>5, <2>1
  <2>3. \A i \in 1 .. n + m : ~(i <= n) => u[i] = WakeUp
    <3> SUFFICES ASSUME NEW i \in 1 .. n + m, ~(i <= n) PROVE u[i] = WakeUp
      OBVIOUS
    <3>1. i - n \in 1 .. m
      BY <2>1
    <3>2. u[i] = s[i - n]
      BY <1>5, <2>1
    <3>3. s[i - n] = WakeUp
      BY <1>4, <2>1, <3>1
    <3> QED
      BY <3>2, <3>3
  <2>4. Once(completions) /\ WakeUp \notin Events
    BY ConstantsOK DEF PlaceInv, PortOnce, ConstantsOK
  <2>5. \A i \in 1 .. n + m : u[i] \in Events => i \in 1 .. n
    BY <2>1, <2>3, <2>4
  <2>6. ASSUME NEW i \in 1 .. n + m, NEW j \in 1 .. n + m, u[i] = u[j], u[i] \in Events
        PROVE  i = j
    <3>1. i \in 1 .. n /\ j \in 1 .. n
      BY <2>5, <2>6
    <3>2. completions[i] = completions[j] /\ completions[i] \in Events
      BY <2>2, <2>6, <3>1
    <3> QED
      BY <2>2, <2>4, <3>1, <3>2 DEF Once
  <2>7. Once(u)
    BY <2>2, <2>6 DEF Once
  <2> QED
    BY <1>6, <2>1, <2>7
<1>9. PortOnce'
  BY <1>1, <1>7, <1>8 DEF PlaceInv, PortOnce, Apart
<1>10. \A e \in Events : (Completed(e)' <=> Completed(e)) /\ (Referenced(e)' <=> Referenced(e))
  BY <1>1, <1>7 DEF Completed, Referenced, Refers
<1> QED
  BY <1>1, <1>9, <1>10, PlacesKept DEF PlaceInv, socket

(* The other steps change no place. *)
LEMMA OtherPlaces ==
  ASSUME TypeInv, PlaceInv,
         \/ \E t \in Threads : Loop(t) \/ Timeout(t) \/ EndPump(t)
         \/ Hold \/ Reconfigure \/ UNCHANGED vars
  PROVE  PlaceInv'
<1>1. UNCHANGED << socket, completions, window, jobs >>
  BY DEF Loop, Timeout, EndPump, Hold, Reconfigure, vars, simulator
<1>2. \A t \in Threads : /\ thread'[t].batch = thread[t].batch
                         /\ thread'[t].todo = thread[t].todo /\ thread'[t].event = thread[t].event
  <2>1. CASE \E t \in Threads : Loop(t) \/ Timeout(t) \/ EndPump(t)
    <3>1. PICK t \in Threads, pc \in Locations : Goto(t, pc)
      BY <2>1 DEF Loop, Timeout, EndPump, Locations
    <3> QED
      BY <3>1, GotoEffect DEF TypeInv, Only
  <2>2. CASE UNCHANGED thread
    BY <2>2
  <2> QED
    BY <2>1, <2>2 DEF Hold, Reconfigure, vars
<1>3. PortOnce' /\ \A e : Completed(e)' <=> Completed(e)
  BY <1>1, <1>2, PortKept DEF PlaceInv
<1>4. \A e : Referenced(e)' <=> Referenced(e)
  BY <1>1, <1>2 DEF Referenced, Refers
<1> QED
  BY <1>1, <1>3, <1>4, PlacesKept DEF PlaceInv

\* Every step keeps the places.
LEMMA NextPlaces == TypeInv /\ PlaceInv /\ [Next]_vars => PlaceInv'
<1> SUFFICES ASSUME TypeInv, PlaceInv, [Next]_vars PROVE PlaceInv'
  OBVIOUS
<1>1. CASE \E t \in Threads : LoopStep(t)
  BY <1>1, OtherPlaces, PumpPlaces, SkipPlaces, RecvPlaces, DispatchPlaces, EndDispatchPlaces
     DEF LoopStep, Dispatch
<1>2. CASE ~ \E t \in Threads : LoopStep(t)
  BY <1>2, ArrivePlaces, FlushPlaces, JobPlaces, StopPlaces, OtherPlaces DEF Next
<1> QED
  BY <1>1, <1>2

LEMMA Places == Spec => [](TypeInv /\ PlaceInv)
<1>1. Init => TypeInv /\ PlaceInv
  BY InitTypes, InitPlaces
<1>2. TypeInv /\ PlaceInv /\ [Next]_vars => (TypeInv /\ PlaceInv)'
  BY NextTypes, NextPlaces
<1> QED
  BY <1>1, <1>2, PTL DEF Spec

-----------------------------------------------------------------------------
(* Copies.  They are counted by place: in sequence H[h], at index i.  The  *)
(* lemmas say what the three ways to move a copy do to the number of them. *)

Holders == Threads \cup {None}
Holdings == [Holders -> Seq(Events)]
PlacesOf(H, e) == {p \in Holders \X Nat : p[2] \in 1 .. Len(H[p[1]]) /\ H[p[1]][p[2]] = e}

\* There are n copies of e in H.
CopiesAre(H, e, n) == IsFiniteSet(PlacesOf(H, e)) /\ Cardinality(PlacesOf(H, e)) = n

LEMMA InPlaces ==
  ASSUME NEW H \in Holdings, NEW h \in Holders, NEW i, NEW e
  PROVE  << h, i >> \in PlacesOf(H, e) <=> i \in 1 .. Len(H[h]) /\ H[h][i] = e
<1>1. H[h] \in Seq(Events)
  BY DEF Holdings
<1>2. Len(H[h]) \in Nat
  BY <1>1
<1> QED
  BY <1>2 DEF PlacesOf

\* The element at j is taken out of sequence g.
LEMMA TakeOut ==
  ASSUME NEW H \in Holdings, NEW G \in Holdings, NEW g \in Holders, NEW j \in 1 .. Len(H[g]),
         \A h \in Holders : h # g => G[h] = H[h],
         Len(G[g]) = Len(H[g]) - 1,
         \A k \in 1 .. Len(H[g]) - 1 : G[g][k] = H[g][IF k < j THEN k ELSE k + 1],
         NEW e, NEW n \in Int, CopiesAre(H, e, n)
  PROVE  CopiesAre(G, e, n - If(H[g][j] = e))
<1> DEFINE A == PlacesOf(H, e) \ {<< g, j >>}
           B == PlacesOf(G, e)
           F == [p \in A |-> IF p[1] = g /\ ~(p[2] < j) THEN << g, p[2] - 1 >> ELSE p]
<1>1. PICK l \in Nat : l = Len(H[g])
  BY DEF Holdings
<1>2. j \in 1 .. l /\ Len(G[g]) = l - 1
  BY <1>1
<1>3. ASSUME NEW p \in A PROVE F[p] \in B
  <2>1. PICK h \in Holders, i \in Nat : p = << h, i >>
    BY DEF PlacesOf
  <2>2. i \in 1 .. Len(H[h]) /\ H[h][i] = e /\ (h = g => i # j)
    BY <2>1, InPlaces
  <2>3. CASE h # g
    BY <2>1, <2>2, <2>3, InPlaces
  <2>4. CASE h = g /\ i < j
    <3>1. i \in 1 .. l - 1
      BY <1>1, <1>2, <2>2, <2>4
    <3>2. G[g][i] = e
      BY <1>1, <2>2, <2>4, <3>1
    <3>3. F[p] = << g, i >>
      BY <2>1, <2>4
    <3> QED
      BY <1>2, <3>1, <3>2, <3>3, InPlaces
  <2>5. CASE h = g /\ ~(i < j)
    <3>1. i - 1 \in 1 .. l - 1 /\ ~(i - 1 < j) /\ (i - 1) + 1 = i
      BY <1>1, <1>2, <2>2, <2>5
    <3>2. G[g][i - 1] = e
      BY <1>1, <2>2, <2>5, <3>1
    <3>3. F[p] = << g, i - 1 >>
      BY <2>1, <2>5
    <3> QED
      BY <1>2, <3>1, <3>2, <3>3, InPlaces
  <2> QED
    BY <2>3, <2>4, <2>5
<1>4. ASSUME NEW p \in A, NEW q \in A, F[p] = F[q] PROVE p = q
  <2>1. PICK h \in Holders, i \in Nat : p = << h, i >>
    BY DEF PlacesOf
  <2>2. PICK f \in Holders, k \in Nat : q = << f, k >>
    BY DEF PlacesOf
  <2>3. (h = g => i # j) /\ (f = g => k # j)
    BY <2>1, <2>2
  <2>4. /\ F[p] = IF h = g /\ ~(i < j) THEN << g, i - 1 >> ELSE << h, i >>
        /\ F[q] = IF f = g /\ ~(k < j) THEN << g, k - 1 >> ELSE << f, k >>
    BY <2>1, <2>2
  <2>5. h = f /\ (IF h = g /\ ~(i < j) THEN i - 1 ELSE i) = (IF f = g /\ ~(k < j) THEN k - 1 ELSE k)
    BY <1>4, <2>4
  <2>6. i = k
    BY <1>2, <2>3, <2>5
  <2> QED
    BY <2>1, <2>2, <2>5, <2>6
<1>5. ASSUME NEW q \in B PROVE \E p \in A : F[p] = q
  <2>1. PICK h \in Holders, i \in Nat : q = << h, i >>
    BY DEF PlacesOf
  <2>2. i \in 1 .. Len(G[h]) /\ G[h][i] = e
    BY <2>1, InPlaces
  <2>3. CASE h # g
    <3>1. q \in A
      BY <2>1, <2>2, <2>3, InPlaces
    <3>2. F[q] = q
      BY <2>1, <2>3, <3>1
    <3> QED
      BY <3>1, <3>2
  <2>4. CASE h = g /\ i < j
    <3>1. i \in 1 .. l - 1 /\ i \in 1 .. l /\ i # j
      BY <1>2, <2>2, <2>4
    <3>2. H[g][i] = e
      BY <1>1, <2>2, <2>4, <3>1
    <3>3. << g, i >> \in A
      BY <1>1, <3>1, <3>2, InPlaces
    <3>4. F[<< g, i >>] = << g, i >>
      BY <2>4, <3>3
    <3> QED
      BY <2>1, <2>4, <3>3, <3>4
  <2>5. CASE h = g /\ ~(i < j)
    <3>1. i \in 1 .. l - 1 /\ i + 1 \in 1 .. l /\ i + 1 # j /\ ~(i + 1 < j) /\ (i + 1) - 1 = i
      BY <1>2, <2>2, <2>5
    <3>2. H[g][i + 1] = e
      BY <1>1, <2>2, <2>5, <3>1
    <3>3. << g, i + 1 >> \in A
      BY <1>1, <3>1, <3>2, InPlaces
    <3>4. F[<< g, i + 1 >>] = << g, i >>
      BY <3>1, <3>3
    <3> QED
      BY <2>1, <2>5, <3>3, <3>4
  <2> QED
    BY <2>3, <2>4, <2>5
<1>6. ExistsBijection(A, B)
  <2> HIDE DEF A, B
  <2>1. F \in [A -> B]
    BY <1>3
  <2> HIDE DEF F
  <2>2. F \in Bijection(A, B)
    BY <1>4, <1>5, <2>1, Fun_IsBij
  <2> QED
    BY <2>2 DEF ExistsBijection
<1>7. IsFiniteSet(A) /\ Cardinality(A) = n - If(H[g][j] = e)
  <2>1. << g, j >> \in PlacesOf(H, e) <=> H[g][j] = e
    BY InPlaces
  <2>2. IsFiniteSet(PlacesOf(H, e)) /\ Cardinality(PlacesOf(H, e)) = n
    BY DEF CopiesAre
  <2>3. /\ IsFiniteSet(PlacesOf(H, e) \ {<< g, j >>})
        /\ Cardinality(PlacesOf(H, e) \ {<< g, j >>})
             = IF << g, j >> \in PlacesOf(H, e) THEN n - 1 ELSE n
    BY <2>2, FS_RemoveElement
  <2> QED
    BY <2>1, <2>3 DEF If
<1> QED
  BY <1>6, <1>7, FS_Bijection DEF CopiesAre

\* An event is appended to sequence g.
LEMMA PutIn ==
  ASSUME NEW H \in Holdings, NEW G \in Holdings, NEW g \in Holders, NEW x \in Events,
         \A h \in Holders : h # g => G[h] = H[h],
         G[g] = Append(H[g], x),
         NEW e, NEW n \in Int, CopiesAre(H, e, n)
  PROVE  CopiesAre(G, e, n + If(x = e))
<1>1. PICK l \in Nat : l = Len(H[g])
  BY DEF Holdings
<1>2. PICK u : u = G[g]
  OBVIOUS
<1>3. Len(u) = l + 1 /\ u[l + 1] = x /\ \A i \in 1 .. l : u[i] = H[g][i]
  BY <1>1, <1>2 DEF Holdings
<1>4. ASSUME NEW p PROVE p \in PlacesOf(G, e) <=> p \in PlacesOf(H, e) \/ (x = e /\ p = << g, l + 1 >>)
  <2>1. CASE ~(p \in Holders \X Nat)
    BY <2>1 DEF PlacesOf
  <2>2. CASE p \in Holders \X Nat
    <3>1. PICK h \in Holders, i \in Nat : p = << h, i >>
      BY <2>2
    <3>2. CASE h # g
      BY <3>1, <3>2, InPlaces
    <3>3. CASE h = g
      <4>1. p \in PlacesOf(G, e) <=> i \in 1 .. l + 1 /\ u[i] = e
        BY SMTT(30), <1>2, <1>3, <3>1, <3>3, InPlaces
      <4>2. p \in PlacesOf(H, e) <=> i \in 1 .. l /\ H[g][i] = e
        BY <1>1, <3>1, <3>3, InPlaces
      <4>3. i \in 1 .. l + 1 <=> i \in 1 .. l \/ i = l + 1
        OBVIOUS
      <4>4. l + 1 \notin 1 .. l
        OBVIOUS
      <4> QED
        BY <1>3, <3>1, <3>3, <4>1, <4>2, <4>3, <4>4
    <3> QED
      BY <3>2, <3>3
  <2> QED
    BY <2>1, <2>2
<1>5. << g, l + 1 >> \notin PlacesOf(H, e)
  BY <1>1, InPlaces
<1>6. IsFiniteSet(PlacesOf(H, e)) /\ Cardinality(PlacesOf(H, e)) = n
  BY DEF CopiesAre
<1>7. CASE x = e
  <2>1. PlacesOf(G, e) = PlacesOf(H, e) \cup {<< g, l + 1 >>}
    BY <1>4, <1>7
  <2> QED
    BY <1>5, <1>6, <1>7, <2>1, FS_AddElement DEF CopiesAre, If
<1>8. CASE x # e
  <2>1. PlacesOf(G, e) = PlacesOf(H, e)
    BY <1>4, <1>8
  <2> QED
    BY <1>6, <1>8, <2>1 DEF CopiesAre, If
<1> QED
  BY <1>7, <1>8

\* The copies of a thread are as many as those that it takes from the window.
LEMMA MoveAll ==
  ASSUME NEW H \in Holdings, NEW G \in Holdings, NEW g \in Holders, NEW f \in Holders, g # f,
         \A h \in Holders : h # g /\ h # f => G[h] = H[h],
         H[f] = << >>, G[f] = H[g], G[g] = << >>,
         NEW e, NEW n \in Int, CopiesAre(H, e, n)
  PROVE  CopiesAre(G, e, n)
<1> DEFINE A == PlacesOf(H, e)
           B == PlacesOf(G, e)
           F == [p \in A |-> IF p[1] = g THEN << f, p[2] >> ELSE p]
<1>0. Len(H[f]) = 0 /\ Len(G[g]) = 0
  OBVIOUS
<1>1. ASSUME NEW p \in A PROVE F[p] \in B /\ p[1] # f
  <2>1. PICK h \in Holders, i \in Nat : p = << h, i >>
    BY DEF PlacesOf
  <2>2. i \in 1 .. Len(H[h]) /\ H[h][i] = e
    BY <2>1, InPlaces
  <2>3. h # f
    BY <1>0, <2>2
  <2>4. CASE h = g
    <3>1. << f, i >> \in B
      BY <2>2, <2>4, InPlaces
    <3> QED
      BY <2>1, <2>3, <2>4, <3>1
  <2>5. CASE h # g
    <3>1. << h, i >> \in B
      BY <2>2, <2>3, <2>5, InPlaces
    <3> QED
      BY <2>1, <2>3, <2>5, <3>1
  <2> QED
    BY <2>4, <2>5
<1>2. ASSUME NEW p \in A, NEW q \in A, F[p] = F[q] PROVE p = q
  <2>1. PICK h \in Holders, i \in Nat : p = << h, i >>
    BY DEF PlacesOf
  <2>2. PICK k \in Holders, j \in Nat : q = << k, j >>
    BY DEF PlacesOf
  <2>3. h # f /\ k # f
    BY <1>1, <2>1, <2>2
  <2>4. F[p] = (IF h = g THEN << f, i >> ELSE << h, i >>)
        /\ F[q] = (IF k = g THEN << f, j >> ELSE << k, j >>)
    BY <2>1, <2>2
  <2>5. i = j /\ (IF h = g THEN f ELSE h) = (IF k = g THEN f ELSE k)
    BY <1>2, <2>4
  <2> QED
    BY <2>1, <2>2, <2>3, <2>5
<1>3. ASSUME NEW q \in B PROVE \E p \in A : F[p] = q
  <2>1. PICK h \in Holders, i \in Nat : q = << h, i >>
    BY DEF PlacesOf
  <2>2. i \in 1 .. Len(G[h]) /\ G[h][i] = e
    BY <2>1, InPlaces
  <2>3. h # g
    BY <1>0, <2>2
  <2>4. CASE h = f
    <3>1. << g, i >> \in A
      BY <2>2, <2>4, InPlaces
    <3>2. F[<< g, i >>] = << f, i >>
      BY <3>1
    <3> QED
      BY <2>1, <2>4, <3>1, <3>2
  <2>5. CASE h # f
    <3>1. q \in A
      BY <2>1, <2>2, <2>3, <2>5, InPlaces
    <3>2. F[q] = q
      BY <2>1, <2>3, <3>1
    <3> QED
      BY <3>1, <3>2
  <2> QED
    BY <2>4, <2>5
<1>4. ExistsBijection(A, B)
  <2> HIDE DEF A, B
  <2>1. F \in [A -> B]
    BY <1>1
  <2> HIDE DEF F
  <2>2. F \in Bijection(A, B)
    BY <1>2, <1>3, <2>1, Fun_IsBij
  <2> QED
    BY <2>2 DEF ExistsBijection
<1>5. IsFiniteSet(A) /\ Cardinality(A) = n
  BY DEF CopiesAre
<1> QED
  BY <1>4, <1>5, FS_Bijection DEF CopiesAre

\* The one or two copies that the simulator makes are appended to sequence g.
LEMMA PutCopies ==
  ASSUME NEW H \in Holdings, NEW G \in Holdings, NEW g \in Holders,
         NEW e \in Events, NEW copies \in Copies(e),
         \A h \in Holders : h # g => G[h] = H[h],
         G[g] = H[g] \o copies,
         NEW y, NEW n \in Int, CopiesAre(H, y, n)
  PROVE  CopiesAre(G, y, n + (IF y = e THEN Len(copies) ELSE 0))
<1>1. PICK w \in Seq(Events) : w = H[g]
  BY DEF Holdings
<1>2. copies = << e >> \/ copies = << e, e >>
  BY DEF Copies
<1>3. CASE copies = << e >>
  <2>1. w \o << e >> = Append(w, e) /\ Len(copies) = 1
    BY <1>3
  <2>2. G[g] = Append(H[g], e)
    BY <1>1, <1>3, <2>1
  <2>3. CopiesAre(G, y, n + If(e = y))
    BY <2>2, PutIn
  <2>4. n + If(e = y) = n + (IF y = e THEN Len(copies) ELSE 0)
    BY <2>1 DEF If
  <2> QED
    BY <2>3, <2>4
<1>4. CASE copies = << e, e >>
  <2>1. w \o << e, e >> = Append(Append(w, e), e) /\ Len(copies) = 2
    BY <1>4
  <2>2. PICK M : M = [H EXCEPT ![g] = Append(w, e)]
    OBVIOUS
  <2>3. M \in Holdings /\ M[g] = Append(w, e) /\ \A h \in Holders : h # g => M[h] = H[h]
    <3>1. Append(w, e) \in Seq(Events)
      OBVIOUS
    <3> QED
      BY <2>2, <3>1 DEF Holdings
  <2>4. CopiesAre(M, y, n + If(e = y))
    BY <1>1, <2>3, PutIn
  <2>5. n + If(e = y) \in Int
    BY DEF If
  <2>6. G[g] = Append(M[g], e) /\ \A h \in Holders : h # g => G[h] = M[h]
    BY <1>1, <1>4, <2>1, <2>3
  <2>7. CopiesAre(G, y, n + If(e = y) + If(e = y))
    BY SMTT(30), <2>3, <2>4, <2>5, <2>6, PutIn
  <2>8. n + If(e = y) + If(e = y) = n + (IF y = e THEN Len(copies) ELSE 0)
    BY <2>1 DEF If
  <2> QED
    BY <2>7, <2>8
<1> QED
  BY <1>2, <1>3, <1>4

-----------------------------------------------------------------------------
(* The copies that wait are as many as were made and not dispatched, and at *)
(* most the two that the simulator makes of a datagram.                    *)

CopyInv == \A e \in Events : due[e] <= 2 /\ CopiesAre(Held, e, due[e])

LEMMA HeldType ==
  ASSUME TypeInv
  PROVE  Held \in Holdings /\ Held[None] = window /\ \A t \in Threads : Held[t] = thread[t].todo
<1>1. window \in Seq(Events) /\ \A t \in Threads : thread[t].todo \in Seq(Events) /\ t # None
  BY ConstantsOK DEF TypeInv, Typed, Hands, ConstantsOK
<1> QED
  BY <1>1 DEF Held, Holdings, Holders

LEMMA HeldTypeNext ==
  ASSUME TypeInv'
  PROVE  Held' \in Holdings /\ Held'[None] = window' /\ \A t \in Threads : Held'[t] = thread'[t].todo
<1>1. window' \in Seq(Events) /\ \A t \in Threads : thread'[t].todo \in Seq(Events) /\ t # None
  BY ConstantsOK DEF TypeInv, Typed, Hands, ConstantsOK
<1> QED
  BY <1>1 DEF Held, Holdings, Holders

LEMMA CopiedIsPlaces == ASSUME TypeInv, NEW e PROVE Copied(e) = PlacesOf(Held, e)
<1>1. PICK H : H = Held
  OBVIOUS
<1>2. H \in Holdings
  BY <1>1, HeldType
<1>3. Copied(e) = UNION {{<< h, i >> : i \in {k \in DOMAIN H[h] : H[h][k] = e}} : h \in Holders}
  BY <1>1, <1>2 DEF Copied, Holdings
<1>4. \A h \in Holders : DOMAIN H[h] = 1 .. Len(H[h]) /\ Len(H[h]) \in Nat
  BY <1>2 DEF Holdings
<1>5. Copied(e) = PlacesOf(H, e)
  BY <1>3, <1>4 DEF PlacesOf
<1> QED
  BY <1>1, <1>5

LEMMA CopiesKept ==
  ASSUME TypeInv, CopyInv, UNCHANGED << window, due >>,
         \A t \in Threads : thread'[t].todo = thread[t].todo
  PROVE  CopyInv'
<1>1. Held' = Held
  BY DEF Held
<1> QED
  BY <1>1 DEF CopyInv, CopiesAre, PlacesOf

\* An event that is not referred to has no copies.
LEMMA Unreferenced ==
  ASSUME TypeInv, CopyInv, NEW e \in Events, ~Referenced(e) PROVE CopiesAre(Held, e, 0)
<1>1. PICK H : H = Held
  OBVIOUS
<1>2. H \in Holdings /\ H[None] = window /\ \A t \in Threads : H[t] = thread[t].todo
  BY <1>1, HeldType
<1>3. \A h \in Holders : e \notin ToSet(H[h])
  BY <1>2 DEF Referenced, Refers, Holders
<1>4. \A h \in Holders : DOMAIN H[h] = 1 .. Len(H[h]) /\ Len(H[h]) \in Nat
  BY <1>2 DEF Holdings
<1>5. PlacesOf(H, e) = {}
  BY <1>3, <1>4 DEF PlacesOf, ToSet
<1> QED
  BY <1>1, <1>5, FS_EmptySet DEF CopiesAre

LEMMA InitCopies == Init => CopyInv
<1> SUFFICES ASSUME Init, NEW e \in Events PROVE due[e] <= 2 /\ CopiesAre(Held, e, due[e])
  BY DEF CopyInv
<1>1. due[e] = 0
  BY DEF Init
<1>2. PICK H : H = Held
  OBVIOUS
<1>3. \A h \in Holders : H[h] = << >>
  BY <1>2 DEF Init, Start, Held, Holders
<1>4. \A h \in Holders : Len(H[h]) = 0
  BY <1>3
<1>5. PlacesOf(H, e) = {}
  BY <1>4 DEF PlacesOf
<1> QED
  BY <1>1, <1>2, <1>5, FS_EmptySet DEF CopiesAre

\* A thread dispatches the first of its copies, which is one less to dispatch.
LEMMA DispatchCopies ==
  ASSUME TypeInv, TypeInv', CopyInv, NEW t \in Threads,
         DispatchToConnection(t) \/ ProcessConnectionless(t)
  PROVE  CopyInv'
<1>1. PICK e : Dispatches(t, e)
  BY DispatchEffect
<1>2. window' = window
  BY DEF DispatchToConnection, ProcessConnectionless
<1>3. PICK H, G : H = Held /\ G = Held'
  OBVIOUS
<1>4. H \in Holdings /\ H[None] = window /\ \A u \in Threads : H[u] = thread[u].todo
  BY <1>3, HeldType
<1>5. G \in Holdings /\ G[None] = window' /\ \A u \in Threads : G[u] = thread'[u].todo
  BY <1>3, HeldTypeNext
<1>6. \A h \in Holders : h # t => G[h] = H[h]
  BY <1>1, <1>2, <1>4, <1>5 DEF Holders, Dispatches, Only
<1>7. PICK s \in Seq(Events) : s = H[t]
  BY <1>4 DEF Holdings, Holders
<1>8. s # << >> /\ G[t] = Tail(s) /\ e = Head(s) /\ e \in Events
  BY <1>1, <1>4, <1>5, <1>7 DEF Dispatches
<1>9. /\ 1 \in 1 .. Len(s) /\ s[1] = e /\ Len(Tail(s)) = Len(s) - 1
      /\ \A k \in 1 .. Len(s) - 1 : Tail(s)[k] = s[IF k < 1 THEN k ELSE k + 1]
  BY <1>8
<1>10. t \in Holders
  BY DEF Holders
<1> SUFFICES ASSUME NEW y \in Events PROVE (due[y] <= 2 /\ CopiesAre(Held, y, due[y]))'
  BY DEF CopyInv
<1>11. due[y] <= 2 /\ CopiesAre(H, y, due[y]) /\ due[y] \in Int
  BY <1>3 DEF CopyInv, TypeInv, Typed
<1>12. CopiesAre(G, y, due[y] - If(e = y))
  <2>1. /\ 1 \in 1 .. Len(H[t]) /\ H[t][1] = e /\ Len(G[t]) = Len(H[t]) - 1
        /\ \A k \in 1 .. Len(H[t]) - 1 : G[t][k] = H[t][IF k < 1 THEN k ELSE k + 1]
    BY <1>7, <1>8, <1>9
  <2>2. PICK d \in Int : d = due[y]
    BY <1>11
  <2>3. CopiesAre(G, y, d - If(H[t][1] = y))
    BY <1>4, <1>5, <1>6, <1>10, <1>11, <2>1, <2>2, TakeOut
  <2> QED
    BY <2>1, <2>2, <2>3
<1>13. due'[y] = due[y] - If(e = y)
  <2>1. due' = [due EXCEPT ![e] = due[e] - 1] /\ e \in DOMAIN due /\ DOMAIN due = Events
    BY <1>1, <1>8 DEF Dispatches, TypeInv, Typed
  <2> QED
    BY <1>11, <2>1 DEF If
<1>14. due'[y] <= 2
  BY <1>11, <1>13 DEF If
<1> QED
  BY <1>3, <1>12, <1>13, <1>14 DEF CopiesAre, PlacesOf

\* FlushStale moves the whole window into the hands of the tick thread.
LEMMA FlushCopies == ASSUME TypeInv, TypeInv', CopyInv, FlushStale PROVE CopyInv'
<1>1. due' = due
  BY DEF FlushStale
<1>2. CASE UNCHANGED window /\ thread'[Tick].todo = << >>
  <2>1. \A t \in Threads : thread'[t].todo = thread[t].todo
    BY <1>2, FlushEffect DEF Only
  <2> QED
    BY <1>1, <1>2, <2>1, CopiesKept
<1>3. CASE thread'[Tick].todo = window /\ window' = << >>
  <2>1. PICK H, G : H = Held /\ G = Held'
    OBVIOUS
  <2>2. H \in Holdings /\ H[None] = window /\ \A u \in Threads : H[u] = thread[u].todo
    BY <2>1, HeldType
  <2>3. G \in Holdings /\ G[None] = window' /\ \A u \in Threads : G[u] = thread'[u].todo
    BY <2>1, HeldTypeNext
  <2>4. Tick \in Threads /\ thread[Tick].todo = << >> /\ Only(Tick)
    BY FlushEffect
  <2>5. None # Tick /\ None \in Holders /\ Tick \in Holders
    BY <2>4, ConstantsOK DEF ConstantsOK, Holders
  <2>6. H[Tick] = << >> /\ G[Tick] = H[None] /\ G[None] = << >>
    BY <1>3, <2>2, <2>3, <2>4
  <2>7. \A h \in Holders : h # None /\ h # Tick => G[h] = H[h]
    BY <2>2, <2>3, <2>4 DEF Holders, Only
  <2>8. ASSUME NEW y \in Events PROVE CopiesAre(G, y, due[y])
    <3>1. PICK d \in Int : d = due[y]
      BY DEF TypeInv, Typed
    <3>2. CopiesAre(H, y, d)
      BY <2>1, <3>1 DEF CopyInv
    <3>3. CopiesAre(G, y, d)
      BY <2>2, <2>3, <2>5, <2>6, <2>7, <3>2, MoveAll
    <3> QED
      BY <3>1, <3>3
  <2> QED
    BY <1>1, <2>1, <2>8 DEF CopyInv, CopiesAre, PlacesOf
<1> QED
  BY <1>2, <1>3, FlushEffect

\* The simulator makes one or two copies of an event of which there was none, and
\* takes another out of a full window.
LEMMA RecvCopies ==
  ASSUME TypeInv, TypeInv', PlaceInv, CopyInv, NEW t \in Threads, RecvCompletionEvent(t)
  PROVE  CopyInv'
<1>1. PICK e \in Events, todo \in Seq(Events) :
            /\ Takes(t, e, todo)
            /\ \/ Dropped(todo)
               \/ \E copies \in Copies(e) : PassedOn(e, copies, todo) \/ Queued(e, copies, todo)
  BY RecvEffect
<1>2. CASE Dropped(todo)
  <2>1. UNCHANGED << window, due >> /\ \A u \in Threads : thread'[u].todo = thread[u].todo
    BY <1>1, <1>2 DEF Dropped, Takes, Only
  <2> QED
    BY <2>1, CopiesKept
<1>3. ASSUME NEW copies \in Copies(e), PassedOn(e, copies, todo) \/ Queued(e, copies, todo)
      PROVE  CopyInv'
  <2>1. PICK H, G : H = Held /\ G = Held'
    OBVIOUS
  <2>2. H \in Holdings /\ H[None] = window /\ \A u \in Threads : H[u] = thread[u].todo
    BY <2>1, HeldType
  <2>3. G \in Holdings /\ G[None] = window' /\ \A u \in Threads : G[u] = thread'[u].todo
    BY <2>1, HeldTypeNext
  <2>4. t \in Holders /\ None \in Holders /\ t # None
    BY ConstantsOK DEF ConstantsOK, Holders
  <2>5. H[t] = << >> /\ G[t] = todo /\ \A h \in Holders : h # t /\ h # None => G[h] = H[h]
    BY <1>1, <2>2, <2>3 DEF Takes, Only, Holders
  <2>6. copies \in Seq(Events) /\ Len(copies) \in {1, 2}
    BY CopiesType
  <2>7. due' = [due EXCEPT ![e] = Len(copies)]
    BY <1>3 DEF PassedOn, Queued
  <2>8. ~Referenced(e)
    <3>1. Completed(e)
      <4>1. e \in ToSet(thread[t].batch)
        BY <1>1, SetOfTail DEF Takes
      <4> QED
        BY <4>1 DEF Completed
    <3> QED
      BY <3>1 DEF PlaceInv, OnePlace, If
  <2>9. \A y \in Events : CopiesAre(H, y, IF y = e THEN 0 ELSE due[y])
    BY <2>1, <2>8, Unreferenced DEF CopyInv
  <2>10. ASSUME NEW y \in Events
         PROVE CopiesAre(G, y, (IF y = e THEN 0 ELSE due[y]) + (IF y = e THEN Len(copies) ELSE 0))
    <3>0. due[y] \in Int
      BY DEF TypeInv, Typed
    <3>1. PICK n \in Int : n = IF y = e THEN 0 ELSE due[y]
      <4>1. (IF y = e THEN 0 ELSE due[y]) \in Int
        BY <3>0
      <4> QED
        BY <4>1
    <3>2. CopiesAre(H, y, n)
      BY <2>9, <3>1
    <3>3. PICK m \in Int : m = IF y = e THEN Len(copies) ELSE 0
      BY <2>6
    <3>4. CASE PassedOn(e, copies, todo)
      <4>1. G[t] = H[t] \o copies
        BY <2>5, <2>6, <3>4 DEF PassedOn
      <4>2. G[None] = H[None]
        BY <2>2, <2>3, <3>4 DEF PassedOn
      <4>3. \A h \in Holders : h # t => G[h] = H[h]
        BY <2>2, <2>3, <2>5, <4>2
      <4>4. CopiesAre(G, y, n + (IF y = e THEN Len(copies) ELSE 0))
        BY <2>2, <2>3, <2>4, <3>2, <4>1, <4>3, PutCopies, ZenonT(30)
      <4> QED
        BY <3>1, <4>4
    <3>5. CASE window' = window \o copies /\ todo = << >>
      <4>1. G[None] = H[None] \o copies /\ G[t] = H[t]
        BY <2>2, <2>3, <2>5, <3>5
      <4>2. \A h \in Holders : h # None => G[h] = H[h]
        BY <2>3, <2>5, <4>1
      <4>3. CopiesAre(G, y, n + (IF y = e THEN Len(copies) ELSE 0))
        BY <2>2, <2>3, <2>4, <3>2, <4>1, <4>2, PutCopies, ZenonT(30)
      <4> QED
        BY <3>1, <4>3
    <3>6. ASSUME NEW i \in DOMAIN (window \o copies),
                 window' = RemoveAt(window \o copies, i), todo = << (window \o copies)[i] >>
          PROVE  CopiesAre(G, y, n + m)
      <4>1. PICK f \in Seq(Events) : f = window \o copies
        BY <2>6, SetOfConcat DEF TypeInv, Typed
      <4>2. PICK l \in Nat : l = Len(f)
        BY <4>1
      <4>3. PICK r : r = RemoveAt(f, i)
        OBVIOUS
      <4>4. PICK x \in Events : x = f[i]
        BY <4>1, SetOfRemoveAt
      <4>5. /\ i \in 1 .. l /\ r \in Seq(Events) /\ Len(r) = l - 1
            /\ \A k \in 1 .. l - 1 : r[k] = f[IF k < i THEN k ELSE k + 1]
        <5>1. i \in DOMAIN f
          BY <4>1
        <5>2. /\ RemoveAt(f, i) \in Seq(Events) /\ Len(RemoveAt(f, i)) = Len(f) - 1
              /\ \A k \in 1 .. Len(f) - 1 : RemoveAt(f, i)[k] = f[IF k < i THEN k ELSE k + 1]
          BY <4>1, <5>1, SetOfRemoveAt
        <5>3. i \in 1 .. l
          BY <4>1, <4>2, <5>1
        <5> QED
          BY <4>2, <4>3, <5>2, <5>3
      <4>6. PICK M : M = [H EXCEPT ![None] = f]
        OBVIOUS
      <4>7. M \in Holdings /\ M[None] = f /\ \A h \in Holders : h # None => M[h] = H[h]
        BY <2>2, <2>4, <4>6 DEF Holdings
      <4>8. PICK N : N = [M EXCEPT ![None] = r]
        OBVIOUS
      <4>9. N \in Holdings /\ N[None] = r /\ \A h \in Holders : h # None => N[h] = M[h]
        BY <2>4, <4>5, <4>7, <4>8 DEF Holdings
      <4>10. CopiesAre(M, y, n + m)
        <5>1. M[None] = H[None] \o copies
          BY <2>2, <4>1, <4>7
        <5>2. CopiesAre(M, y, n + (IF y = e THEN Len(copies) ELSE 0))
          BY <2>2, <2>4, <3>2, <4>7, <5>1, PutCopies, ZenonT(30)
        <5> QED
          BY <3>3, <5>2
      <4>11. CopiesAre(N, y, (n + m) - If(x = y))
        <5>1. PICK c \in Int : c = n + m
          OBVIOUS
        <5>2. /\ i \in 1 .. Len(M[None]) /\ Len(N[None]) = Len(M[None]) - 1 /\ M[None][i] = x
              /\ \A k \in 1 .. Len(M[None]) - 1 : N[None][k] = M[None][IF k < i THEN k ELSE k + 1]
          BY <4>2, <4>4, <4>5, <4>7, <4>9
        <5>3. CopiesAre(N, y, c - If(M[None][i] = y))
          BY <2>4, <4>7, <4>9, <4>10, <5>1, <5>2, TakeOut
        <5> QED
          BY <5>1, <5>2, <5>3
      <4>12. CopiesAre(G, y, ((n + m) - If(x = y)) + If(x = y))
        <5>1. N[t] = << >> /\ Append(<< >>, x) = << x >>
          BY <2>4, <2>5, <4>7, <4>9
        <5>2. G[t] = << x >>
          BY <2>5, <3>6, <4>1, <4>4
        <5>3. G[t] = Append(N[t], x)
          BY <5>1, <5>2
        <5>4. \A h \in Holders : h # t => G[h] = N[h]
          BY <2>3, <2>5, <3>6, <4>1, <4>3, <4>7, <4>9
        <5>5. PICK c \in Int : c = (n + m) - If(x = y)
          <6>1. (n + m) - If(x = y) \in Int
            BY DEF If
          <6> QED
            BY <6>1
        <5>6. CopiesAre(N, y, c)
          BY <4>11, <5>5
        <5>7. CopiesAre(G, y, c + If(x = y))
          BY <2>3, <2>4, <4>9, <5>3, <5>4, <5>6, PutIn
        <5> QED
          BY <5>5, <5>7
      <4>13. ((n + m) - If(x = y)) + If(x = y) = n + m
        BY DEF If
      <4> QED
        BY <4>12, <4>13
    <3> QED
      BY <1>3, <3>1, <3>3, <3>4, <3>5, <3>6 DEF Queued
  <2>11. ASSUME NEW y \in Events
         PROVE  /\ due'[y] = (IF y = e THEN 0 ELSE due[y]) + (IF y = e THEN Len(copies) ELSE 0)
                /\ due'[y] <= 2
    <3>1. due \in [Events -> Int] /\ due[y] <= 2
      BY DEF CopyInv, TypeInv, Typed
    <3>2. PICK c \in {1, 2} : c = Len(copies)
      BY <2>6
    <3>3. due'[y] = IF y = e THEN c ELSE due[y]
      BY <2>7, <3>1, <3>2
    <3>4. CASE y = e
      BY <3>2, <3>3, <3>4
    <3>5. CASE y # e
      <4>1. PICK d \in Int : d = due[y]
        BY <3>1
      <4>2. due'[y] = d /\ d <= 2
        BY <3>1, <3>3, <3>5, <4>1
      <4> QED
        BY <3>5, <4>1, <4>2
    <3> QED
      BY <3>4, <3>5
  <2> QED
    BY <2>1, <2>10, <2>11 DEF CopyInv, CopiesAre, PlacesOf
<1> QED
  BY <1>1, <1>2, <1>3

\* Every step keeps the number of copies.
LEMMA NextCopies ==
  TypeInv /\ TypeInv' /\ PlaceInv /\ CopyInv /\ [Next]_vars => CopyInv'
<1> SUFFICES ASSUME TypeInv, TypeInv', PlaceInv, CopyInv, [Next]_vars PROVE CopyInv'
  OBVIOUS
<1>1. ASSUME NEW t \in Threads, LoopStep(t) PROVE CopyInv'
  <2>1. CASE RecvCompletionEvent(t)
    BY <2>1, RecvCopies
  <2>2. CASE DispatchToConnection(t) \/ ProcessConnectionless(t)
    BY <2>2, DispatchCopies
  <2>3. CASE PumpIO(t) \/ SkipEntry(t) \/ EndDispatch(t)
    <3>1. Only(t) /\ thread'[t].todo = thread[t].todo
      BY <2>3, PumpEffect, SkipEffect, EndDispatchEffect
    <3>2. UNCHANGED << window, due >>
      BY <2>3 DEF PumpIO, SkipEntry, EndDispatch, simulator
    <3> QED
      BY <3>1, <3>2, CopiesKept DEF Only
  <2>4. CASE Loop(t) \/ Timeout(t) \/ EndPump(t)
    <3>1. PICK pc \in Locations : Goto(t, pc)
      BY <2>4 DEF Loop, Timeout, EndPump, Locations
    <3>2. Only(t) /\ thread'[t].todo = thread[t].todo
      BY <3>1, GotoEffect DEF TypeInv
    <3>3. UNCHANGED << window, due >>
      BY <2>4 DEF Loop, Timeout, EndPump, simulator
    <3> QED
      BY <3>2, <3>3, CopiesKept DEF Only
  <2> QED
    BY <1>1, <2>1, <2>2, <2>3, <2>4 DEF LoopStep, Dispatch
<1>2. CASE FlushStale
  BY <1>2, FlushCopies
<1>3. CASE \/ \E e \in Events : Arrive(e)
           \/ Hold \/ Reconfigure \/ RunJob \/ Stop \/ UNCHANGED vars
  <2>1. UNCHANGED << window, due, thread >>
    BY <1>3 DEF Arrive, Hold, Reconfigure, RunJob, Stop, vars, simulator
  <2> QED
    BY <2>1, CopiesKept
<1> QED
  BY <1>1, <1>2, <1>3 DEF Next

\* The whole invariant.
LEMMA Invariants == Spec => [](TypeInv /\ PlaceInv /\ CopyInv)
<1>1. Init => CopyInv
  BY InitCopies
<1>2. TypeInv /\ PlaceInv /\ CopyInv /\ [Next]_vars /\ TypeInv' => CopyInv'
  BY NextCopies
<1> QED
  BY <1>1, <1>2, Places, PTL DEF Spec

-----------------------------------------------------------------------------
(* For any number of I/O threads and events, with the simulator dropping,
   doubling and holding back datagrams and with the settings changed at any
   moment: the last reference to a receive event gives it back to the socket
   and no other does, so no buffer is filled again while it is read, and none
   is lost but by an error of WSARecvFrom (IpNetDriver.cpp:649-655). *)
THEOREM OneAtATime == Spec => []OnePlace
<1>1. PlaceInv => OnePlace
  BY DEF PlaceInv
<1> QED
  BY <1>1, Places, PTL

(* The copies that the simulator lets pass are conserved: what was made of a
   datagram and not dispatched is in the window or in the hands of a thread,
   also when the window gives up another datagram than the one that came, when
   it is flushed as a whole and when its size is changed meanwhile
   (PacketSimulator::Process and FlushStale). *)
THEOREM NoCopyLost == Spec => []CopiesConserved
<1>1. TypeInv /\ CopyInv => CopiesConserved
  BY CopiedIsPlaces DEF CopyInv, CopiesAre, CopiesConserved
<1> QED
  BY <1>1, Invariants, PTL

(* Type correctness; that no event has more than two copies on their way is a
   consequence of the conservation. *)
THEOREM TypeCorrect == Spec => []TypeOK
<1>1. TypeInv /\ CopyInv => TypeOK
  <2> SUFFICES ASSUME TypeInv, CopyInv PROVE TypeOK
    OBVIOUS
  <2>1. ASSUME NEW e \in Events PROVE due[e] \in 0 .. 2
    <3>1. due[e] \in Nat
      BY FS_CardinalityType DEF CopyInv, CopiesAre
    <3> QED
      BY <3>1 DEF CopyInv
  <2>2. due \in [Events -> 0 .. 2]
    BY <2>1 DEF TypeInv, Typed
  <2> QED
    BY <2>2 DEF TypeInv, Typed, TypeOK, Hands, Completion
<1> QED
  BY <1>1, Invariants, PTL
=============================================================================
