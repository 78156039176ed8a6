-------------------------- MODULE JobSystem_proofs --------------------------
(***************************************************************************)
(* The types of JobSystem, that no wake-up is lost, that functions pinned  *)
(* to a worker run one at a time in order, and that a coroutine goes on    *)
(* only after the jobs it awaits, for all workers, posters, scripts and    *)
(* coroutine bodies.                                                       *)
(***************************************************************************)
EXTENDS JobSystem, SequenceTheorems, FiniteSetTheorems, TLAPS

-----------------------------------------------------------------------------
(* The queue.                                                              *)
Queue(S) == [push : Seq(S), pop : Seq(S)]

LEMMA ConcatAppend ==
  ASSUME NEW S, NEW s \in Seq(S), NEW t \in Seq(S), NEW x \in S
  PROVE  s \o Append(t, x) = Append(s \o t, x)
<1>1. s \o t \in Seq(S) /\ << x >> \in Seq(S)
  BY ConcatProperties
<1>2. s \o Append(t, x) = s \o (t \o << x >>)
  BY AppendIsConcat
<1>3. Append(s \o t, x) = (s \o t) \o << x >>
  BY <1>1, AppendIsConcat
<1> QED
  BY <1>1, <1>2, <1>3, ConcatAssociative

(* Head and tail of a concatenation whose first part is not empty. *)
LEMMA HeadTailConcat ==
  ASSUME NEW S, NEW s \in Seq(S), NEW t \in Seq(S), s # << >>
  PROVE  Head(s \o t) = Head(s) /\ Tail(s \o t) = Tail(s) \o t
<1>1. Head(s) \in S /\ Tail(s) \in Seq(S) /\ s = << Head(s) >> \o Tail(s)
  OBVIOUS
<1>2. << Head(s) >> \in Seq(S) /\ Tail(s) \o t \in Seq(S)
  BY <1>1
<1>3. s \o t = << Head(s) >> \o (Tail(s) \o t)
  BY <1>1, <1>2, ConcatAssociative
<1> QED
  BY <1>1, <1>2, <1>3, ConcatSimplifications

LEMMA EmptyQueueType ==
  ASSUME NEW S PROVE EmptyQueue \in Queue(S) /\ Contents(EmptyQueue) = << >>
<1>1. << >> \in Seq(S)
  BY EmptySeq
<1>2. << >> \o << >> = << >>
  OBVIOUS
<1> QED
  BY <1>1, <1>2 DEF EmptyQueue, Queue, Contents

(* PushBack adds an element behind all others. *)
LEMMA PushBackAppends ==
  ASSUME NEW S, NEW q \in Queue(S), NEW x \in S
  PROVE  /\ PushBack(q, x) \in Queue(S)
         /\ Contents(PushBack(q, x)) = Append(Contents(q), x)
         /\ Contents(q) \in Seq(S)
         /\ Len(Contents(PushBack(q, x))) = Len(Contents(q)) + 1
<1> DEFINE p == PushBack(q, x)
<1>1. q.push \in Seq(S) /\ q.pop \in Seq(S)
  BY DEF Queue
<1>2. p = [push |-> Append(q.push, x), pop |-> q.pop]
  BY DEF PushBack
<1>3. Append(q.push, x) \in Seq(S)
  BY <1>1, AppendProperties
<1>4. q.pop \o Append(q.push, x) = Append(q.pop \o q.push, x)
  <2> DEFINE a == q.pop
             b == q.push
  <2>1. a \in Seq(S) /\ b \in Seq(S)
    BY <1>1
  <2> HIDE DEF a, b
  <2>2. a \o Append(b, x) = Append(a \o b, x)
    BY <2>1, ConcatAppend
  <2> QED
    BY <2>2 DEF a, b
<1>5. q.pop \o q.push \in Seq(S)
  BY <1>1
<1>6. Len(Append(q.pop \o q.push, x)) = Len(q.pop \o q.push) + 1
  BY <1>5
<1> QED
  BY <1>1, <1>2, <1>3, <1>4, <1>5, <1>6 DEF Contents, Queue

(* TryPopFront takes the first element, if there is one. *)
LEMMA PopFrontTakesHead ==
  ASSUME NEW S, NEW q \in Queue(S)
  PROVE  /\ CanPop(q) <=> Contents(q) # << >>
         /\ CanPop(q) => /\ Front(q) \in S /\ Front(q) = Head(Contents(q))
                         /\ PopFront(q) \in Queue(S)
                         /\ Contents(PopFront(q)) = Tail(Contents(q))
                         /\ Len(Contents(PopFront(q))) = Len(Contents(q)) - 1
<1> DEFINE r == Refilled(q)
<1>1. q.push \in Seq(S) /\ q.pop \in Seq(S)
  BY DEF Queue
<1>2. r \in Queue(S) /\ r.pop \o r.push = q.pop \o q.push /\ (r.pop = << >> => r.push = << >>)
  <2>1. CASE q.pop = << >>
    <3>1. r = [push |-> << >>, pop |-> q.push \o q.pop]
      BY <2>1 DEF Refilled, Transition
    <3>2. q.push \o << >> = q.push /\ << >> \o q.push = q.push
      BY <1>1
    <3> QED
      BY <1>1, <2>1, <3>1, <3>2 DEF Queue
  <2>2. CASE q.pop # << >>
    BY <2>2 DEF Refilled
  <2> QED
    BY <2>1, <2>2
<1>3. r.pop \in Seq(S) /\ r.push \in Seq(S)
  BY <1>2 DEF Queue
<1>4. r.pop \o r.push = << >> <=> r.pop = << >>
  <2>1. << >> \in Seq(S) /\ << >> \o << >> = << >>
    BY EmptySeq
  <2>2. r.pop \o r.push = << >> => r.pop = << >>
    <3> DEFINE a == r.pop
               b == r.push
    <3>1. a \in Seq(S) /\ b \in Seq(S)
      BY <1>3
    <3> HIDE DEF a, b
    <3>2. a \o b = << >> => a = << >>
      BY <3>1, ConcatEqualIffEmpty
    <3> QED
      BY <3>2 DEF a, b
  <2> QED
    BY <1>2, <2>1, <2>2
<1>5. ASSUME r.pop # << >>
      PROVE  /\ Head(r.pop) \in S /\ Head(r.pop) = Head(r.pop \o r.push)
             /\ Tail(r.pop) \in Seq(S)
             /\ Tail(r.pop) \o r.push = Tail(r.pop \o r.push)
             /\ Len(Tail(r.pop \o r.push)) = Len(r.pop \o r.push) - 1
  <2>1. Head(r.pop) \in S /\ Tail(r.pop) \in Seq(S) /\ Len(r.pop) \in Nat \ {0}
    BY <1>3, <1>5, HeadTailProperties
  <2>2. Head(r.pop) = Head(r.pop \o r.push)
    BY <1>3, <1>5, HeadTailConcat
  <2>3. Tail(r.pop) \o r.push = Tail(r.pop \o r.push)
    BY <1>3, <1>5, HeadTailConcat
  <2>4. r.pop \o r.push \in Seq(S) /\ r.pop \o r.push # << >>
    BY <1>3, <1>4, <1>5
  <2> QED
    BY <2>1, <2>2, <2>3, <2>4, HeadTailProperties
<1>6. PopFront(q) = [push |-> r.push, pop |-> Tail(r.pop)]
  BY DEF PopFront
<1>7. Contents(q) = r.pop \o r.push
  BY <1>2 DEF Contents
<1>8. CanPop(q) <=> r.pop # << >>
  BY DEF CanPop
<1>9. ASSUME r.pop # << >>
      PROVE  /\ PopFront(q) \in Queue(S)
             /\ Contents(PopFront(q)) = Tail(r.pop) \o r.push
  <2>1. Tail(r.pop) \in Seq(S)
    BY <1>5, <1>9
  <2> DEFINE a == r.push
             b == Tail(r.pop)
             p == PopFront(q)
  <2>2. a \in Seq(S) /\ b \in Seq(S) /\ p = [push |-> a, pop |-> b]
    BY <1>3, <1>6, <2>1
  <2> HIDE DEF a, b, p
  <2>3. p \in Queue(S) /\ Contents(p) = b \o a
    BY <2>2 DEF Queue, Contents
  <2> QED
    BY <2>3 DEF a, b, p
<1> QED
  BY <1>4, <1>5, <1>7, <1>8, <1>9 DEF Front
-----------------------------------------------------------------------------
(* Types.                                                                  *)

\* A thread in the middle of a posting has it at the head of its list,
Staged == \A t \in Threads : stage[t] # "add" => todo[t] # << >>
\* a worker that runs a job has one, and the destructor notifies a worker.
Running == /\ \A w \in Workers : pc[w] = "run" => current[w] \in Jobs
           /\ stop.notifying => stop.worker < NumWorkers

TypeInv == TypeOK /\ Staged /\ Running

LEMMA HeadPosting ==
  ASSUME TypeOK, NEW t \in Threads, todo[t] # << >>
  PROVE  /\ Head(todo[t]) \in Postings /\ Tail(todo[t]) \in Seq(Postings)
         /\ Head(todo[t]).job \in Jobs /\ Head(todo[t]).root \in Roots
         /\ Head(todo[t]).count \in Nat
<1>1. todo[t] \in Seq(Postings)
  BY DEF TypeOK
<1>2. Head(todo[t]) \in Postings /\ Tail(todo[t]) \in Seq(Postings)
  BY <1>1, HeadTailProperties
<1> QED
  BY <1>2 DEF Postings

LEMMA PostingType ==
  ASSUME NEW j \in Jobs, NEW r \in Roots, NEW n \in Nat
  PROVE  Posting(j, r, n) \in Postings /\ << Posting(j, r, n) >> \in Seq(Postings)
<1>1. Posting(j, r, n) \in Postings
  BY DEF Posting, Postings
<1> QED
  BY <1>1

LEMMA FollowingType == ASSUME NEW i \in Workers PROVE Following(i) \in Workers
  BY ConstantsOK DEF ConstantsOK, Following, Workers

LEMMA QueueIndexType == ASSUME NEW j PROVE QueueIndex(j) \in 1 .. 4
<1> DEFINE a == IF pin[j] < 0 THEN 3 ELSE 1
           b == IF j \in Coroutines THEN 1 ELSE 0
<1>1. a \in {1, 3} /\ b \in {0, 1}
  OBVIOUS
<1>2. QueueIndex(j) = a + b
  BY DEF QueueIndex
<1> HIDE DEF a, b
<1> QED
  BY <1>1, <1>2

LEMMA TypeInit == Init => TypeInv
<1> SUFFICES ASSUME Init PROVE TypeInv
  OBVIOUS
<1>1. \A t \in Threads : todo[t] \in Seq(Postings)
  <2> SUFFICES ASSUME NEW t \in Threads PROVE todo[t] \in Seq(Postings)
    OBVIOUS
  <2>1. CASE t \in Posters
    <3>1. Script[t] \in Seq(Jobs)
      BY <2>1, ConstantsOK DEF ConstantsOK
    <3>2. todo[t] = [i \in 1 .. Len(Script[t]) |-> Posting(Script[t][i], NoJob, 1)]
      BY <2>1 DEF Init
    <3>3. \A i \in 1 .. Len(Script[t]) : Posting(Script[t][i], NoJob, 1) \in Postings
      <4>1. \A i \in 1 .. Len(Script[t]) : Script[t][i] \in Jobs
        BY <3>1, ElementOfSeq
      <4> QED
        BY <4>1, PostingType DEF Roots
    <3> QED
      BY <3>1, <3>2, <3>3, IsASeq, LenProperties
  <2>2. CASE t \notin Posters
    BY <2>2, EmptySeq DEF Init
  <2> QED
    BY <2>1, <2>2
<1>2. todo \in [Threads -> Seq(Postings)]
  <2>1. todo = [t \in Threads |-> todo[t]]
    BY DEF Init
  <2> QED
    BY <1>1, <2>1
<1>3. queue \in [Workers -> [1 .. 4 -> Queue(Jobs)]]
  BY EmptyQueueType DEF Init
<1>4. 0 \in Workers
  BY ConstantsOK DEF ConstantsOK, Workers
<1>5. TypeOK
  BY <1>2, <1>3, <1>4, ConstantsOK DEF Init, TypeOK, ConstantsOK, Roots, Queue
<1> QED
  BY <1>5 DEF Init, TypeInv, Staged, Running

(* The four steps of posting. *)
LEMMA TypePost == ASSUME TypeInv, NEW t \in Threads, Post(t) PROVE TypeInv'
<1> USE DEF TypeInv
<1> DEFINE r == Head(todo[t])
<1>0. /\ TypeOK /\ Staged /\ Running
      /\ stage[t] # "add" => todo[t] # << >>
      /\ todo[t] # << >> =>
            r \in Postings /\ Tail(todo[t]) \in Seq(Postings)
            /\ r.job \in Jobs /\ r.root \in Roots /\ r.count \in Nat
  BY HeadPosting DEF Staged
<1>1. CASE AddToRoot(t)
  <2>1. todo[t] # << >>
    BY <1>1 DEF AddToRoot
  <2>2. root' \in [Jobs -> Roots] /\ children' \in [Jobs -> Int]
    <3>1. root' = [root EXCEPT ![r.job] = r.root]
      BY <1>1 DEF AddToRoot
    <3>2. children' = IF r.root = NoJob THEN children
                      ELSE [children EXCEPT ![r.root] = children[r.root] + r.count]
      BY <1>1 DEF AddToRoot
    <3>3. root \in [Jobs -> Roots] /\ children \in [Jobs -> Int]
      BY <1>0 DEF TypeOK
    <3>4. root' \in [Jobs -> Roots]
      BY <1>0, <2>1, <3>1, <3>3
    <3>5. CASE r.root = NoJob
      BY <3>2, <3>3, <3>4, <3>5
    <3>6. CASE r.root # NoJob
      <4>1. r.root \in Jobs /\ r.count \in Nat
        BY <1>0, <2>1, <3>6 DEF Roots
      <4>2. children[r.root] + r.count \in Int
        BY <3>3, <4>1
      <4> QED
        BY <3>2, <3>3, <3>4, <3>6, <4>2
    <3> QED
      BY <3>5, <3>6
  <2>3. target' \in [Threads -> Workers] /\ nextIndex' \in Workers
    <3>1. pin[r.job] \in Workers \cup {-1}
      BY <1>0, <2>1 DEF TypeOK
    <3>2. CASE pin[r.job] < 0
      BY <1>0, <1>1, <3>2, FollowingType DEF AddToRoot, TypeOK
    <3>3. CASE ~(pin[r.job] < 0)
      <4>1. pin[r.job] \in Workers
        BY <3>1, <3>3
      <4> QED
        BY <1>0, <1>1, <3>3, <4>1 DEF AddToRoot, TypeOK
    <3> QED
      BY <3>2, <3>3
  <2>4. TypeOK'
    BY <1>0, <1>1, <2>2, <2>3 DEF AddToRoot, TypeOK
  <2>5. Staged' /\ Running'
    BY <1>0, <1>1, <2>1 DEF AddToRoot, Staged, Running, TypeOK
  <2> QED
    BY <2>4, <2>5
<1>2. CASE Push(t)
  <2>1. todo[t] # << >> /\ target[t] \in Workers /\ QueueIndex(r.job) \in 1 .. 4
    <3>1. todo[t] # << >> /\ target[t] \in Workers
      BY <1>0, <1>2 DEF Push, TypeOK
    <3> QED
      BY <3>1, QueueIndexType
  <2>2. queue' \in [Workers -> [1 .. 4 -> Queue(Jobs)]]
    <3>1. queue[target[t]][QueueIndex(r.job)] \in Queue(Jobs)
      <4>1. queue \in [Workers -> [1 .. 4 -> Queue(Jobs)]]
        BY <1>0 DEF TypeOK, Queue
      <4> QED
        BY <2>1, <4>1
    <3>2. PushBack(queue[target[t]][QueueIndex(r.job)], r.job) \in Queue(Jobs)
      BY <1>0, <2>1, <3>1, PushBackAppends
    <3> QED
      BY <1>0, <1>2, <2>1, <3>2 DEF Push, TypeOK, Queue
  <2>3. children' \in [Jobs -> Int]
    <3> DEFINE n == IF r.job \in Functions THEN 1 ELSE 0
    <3>1. children \in [Jobs -> Int] /\ n \in Int
      BY <1>0 DEF TypeOK
    <3>2. children' = [children EXCEPT ![r.job] = n]
      BY <1>2 DEF Push
    <3> HIDE DEF n
    <3> QED
      BY <3>1, <3>2
  <2>4. TypeOK'
    BY <1>0, <1>2, <2>2, <2>3 DEF Push, TypeOK, Queue
  <2>5. Staged' /\ Running'
    BY <1>0, <1>2, <2>1 DEF Push, Staged, Running, TypeOK
  <2> QED
    BY <2>4, <2>5
<1>3. CASE CountPending(t)
  <2>1. pending' \in [Workers -> Int]
    <3>1. pending \in [Workers -> Int] /\ target[t] \in Workers
      BY <1>0 DEF TypeOK
    <3>2. pending[target[t]] + 1 \in Int
      BY <3>1
    <3> QED
      BY <1>3, <3>1, <3>2 DEF CountPending
  <2>3. TypeOK'
    BY <1>0, <1>3, <2>1 DEF CountPending, TypeOK, tasks
  <2>2. Staged' /\ Running'
    BY <1>0, <1>3 DEF CountPending, Staged, Running, TypeOK, tasks
  <2> QED
    BY <2>3, <2>2
<1>4. CASE Notify(t)
  <2>1. todo[t] # << >>
    BY <1>0, <1>4 DEF Notify
  <2>2. pc' \in [Workers -> {"check", "scan", "run", "lock", "decide", "block", "waiting", "exited"}]
    BY <1>0, <1>4 DEF Notify, Woken, TypeOK
  <2>3. TypeOK'
    BY <1>0, <1>4, <2>1, <2>2 DEF Notify, TypeOK, tasks
  <2>4. Staged' /\ Running'
    BY <1>0, <1>4 DEF Notify, Woken, Staged, Running, TypeOK, tasks
  <2> QED
    BY <2>3, <2>4
<1> QED
  BY <1>1, <1>2, <1>3, <1>4 DEF Post

(* A worker that is not posting has stage "add". *)
LEMMA AtType ==
  ASSUME TypeInv, NEW w \in Workers, NEW p, At(w, p)
  PROVE  /\ pc[w] = p /\ todo[w] = << >> /\ stage[w] = "add" /\ w \in Threads
         /\ TypeOK /\ Staged /\ Running
  BY DEF TypeInv, Staged, At, Threads

(* Counting a job off its parent keeps the postings of other threads. *)
LEMMA CountOffType ==
  ASSUME TypeInv, NEW w \in Workers, NEW j \in Jobs, NEW i \in Roots, CountOff(w, j, i)
  PROVE  /\ children' \in [Jobs -> Int] /\ todo' \in [Threads -> Seq(Postings)]
         /\ \A t \in Threads : t # w => todo'[t] = todo[t]
<1> DEFINE p == root[j]
           q == << Posting(p, RootOr(p, i), 0) >>
<1>1. /\ children \in [Jobs -> Int] /\ todo \in [Threads -> Seq(Postings)]
      /\ p \in Roots /\ root \in [Jobs -> Roots] /\ w \in Threads
  BY DEF TypeInv, TypeOK, Threads
<1>2. CASE p = NoJob
  BY <1>1, <1>2 DEF CountOff
<1>3. CASE p # NoJob
  <2>1. p \in Jobs
    BY <1>1, <1>3 DEF Roots
  <2>2. RootOr(p, i) \in Roots
    BY <1>1, <2>1 DEF RootOr
  <2>3. q \in Seq(Postings)
    BY <2>1, <2>2, PostingType
  <2>4. children' = [children EXCEPT ![p] = children[p] - 1] /\ children[p] - 1 \in Int
    BY <1>1, <1>3, <2>1 DEF CountOff
  <2>5. todo' = [todo EXCEPT ![w] = q] \/ todo' = todo
    BY <1>3 DEF CountOff
  <2> HIDE DEF q
  <2> QED
    BY <1>1, <2>1, <2>3, <2>4, <2>5
<1> QED
  BY <1>2, <1>3

(* A coroutine that is not at its end is before one of its suspensions. *)
LEMMA SuspensionType ==
  ASSUME TypeOK, NEW c \in Coroutines, ~Ended(c)
  PROVE  /\ Body[c][step[c]] \in Suspensions /\ step[c] \in Nat
         /\ Body[c][step[c]].kind = "await" => Body[c][step[c]].jobs \in Seq(Jobs)
         /\ Body[c][step[c]].kind = "on" => Body[c][step[c]].worker \in Workers
<1>1. Body[c] \in Seq(Suspensions) /\ step[c] \in Nat \ {0}
  BY ConstantsOK DEF ConstantsOK, TypeOK
<1>2. step[c] \in 1 .. Len(Body[c])
  BY <1>1, LenProperties DEF Ended
<1>3. Body[c][step[c]] \in Suspensions
  BY <1>1, <1>2, ElementOfSeq
<1> QED
  BY <1>1, <1>3 DEF Suspensions

LEMMA ChildPostingsType ==
  ASSUME NEW c \in Jobs, NEW jobs \in Seq(Jobs)
  PROVE  ChildPostings(c, jobs) \in Seq(Postings)
<1>1. Len(jobs) \in Nat /\ \A i \in 1 .. Len(jobs) : jobs[i] \in Jobs
  BY ElementOfSeq, LenProperties
<1>2. \A i \in 1 .. Len(jobs) :
          Posting(jobs[i], c, IF i = 1 THEN Len(jobs) ELSE 0) \in Postings
  BY <1>1, PostingType DEF Roots
<1> QED
  BY <1>1, <1>2, IsASeq DEF ChildPostings

(* The steps of a worker. *)
LEMMA TypeWorker == ASSUME TypeInv, NEW w \in Workers, WorkerStep(w) PROVE TypeInv'
<1>0. TypeOK /\ Staged /\ Running /\ w \in Threads
  BY DEF TypeInv, Threads
<1>1. CASE CheckWorking(w)
  <2>2. pc' = [pc EXCEPT ![w] = "scan"] \/ pc' = [pc EXCEPT ![w] = "exited"]
    BY <1>1 DEF CheckWorking, Go
  <2>1. TypeOK'
    <3>1. scan' = [scan EXCEPT ![w] = 1]
      BY <1>1 DEF CheckWorking
    <3>2. scan' \in [Workers -> 1 .. 4]
      BY <1>0, <3>1 DEF TypeOK
    <3> QED
      BY <1>0, <1>1, <2>2, <3>2 DEF CheckWorking, TypeOK, tasks, posting
  <2> QED
    BY <1>0, <1>1, <2>1 DEF CheckWorking, Go, TypeOK, TypeInv, Staged, Running, tasks, posting
<1>2. CASE TakeJob(w)
  <2> DEFINE q == queue[w][scan[w]]
  <2>1. q \in Queue(Jobs) /\ scan[w] \in 1 .. 4
    <3>1. queue \in [Workers -> [1 .. 4 -> Queue(Jobs)]] /\ scan \in [Workers -> 1 .. 4]
      BY <1>0 DEF TypeOK, Queue
    <3> QED
      BY <3>1
  <2>2. Front(q) \in Jobs /\ PopFront(q) \in Queue(Jobs)
    BY <1>2, <2>1, PopFrontTakesHead DEF TakeJob
  <2>3. queue' \in [Workers -> [1 .. 4 -> Queue(Jobs)]]
    BY <1>0, <1>2, <2>1, <2>2 DEF TakeJob, TypeOK, Queue
  <2>4. current' \in [Workers -> Roots] /\ current'[w] \in Jobs
    BY <1>0, <1>2, <2>2 DEF TakeJob, TypeOK, Roots
  <2>5. pending' \in [Workers -> Int]
    <3>1. pending \in [Workers -> Int]
      BY <1>0 DEF TypeOK
    <3>2. pending[w] - 1 \in Int
      BY <3>1
    <3> QED
      BY <1>2, <3>1, <3>2 DEF TakeJob
  <2>6. TypeOK'
    BY <1>0, <1>2, <2>3, <2>4, <2>5 DEF TakeJob, Go, TypeOK, tasks, posting, Queue
  <2>7. Staged' /\ Running'
    BY <1>0, <1>2, <2>4 DEF TakeJob, Go, TypeOK, Staged, Running, tasks, posting
  <2> QED
    BY <2>6, <2>7 DEF TypeInv
<1>3. CASE FindNothing(w)
  <2>1. scan' \in [Workers -> 1 .. 4]
    <3>1. scan \in [Workers -> 1 .. 4] /\ scan[w] \in 1 .. 4
      BY <1>0 DEF TypeOK
    <3>2. CASE scan[w] < 4
      <4>1. scan[w] + 1 \in 1 .. 4 /\ scan' = [scan EXCEPT ![w] = scan[w] + 1]
        BY <1>3, <3>1, <3>2 DEF FindNothing
      <4> QED
        BY <3>1, <4>1
    <3>3. CASE ~(scan[w] < 4)
      BY <1>3, <3>1, <3>3 DEF FindNothing
    <3> QED
      BY <3>2, <3>3
  <2>2. TypeOK'
    BY <1>0, <1>3, <2>1 DEF FindNothing, Go, TypeOK, tasks, posting
  <2> QED
    BY <1>0, <1>3, <2>2 DEF FindNothing, Go, TypeOK, TypeInv, Staged, Running, tasks, posting
<1>4. CASE LockSignal(w)
  <2>1. TypeOK'
    BY <1>0, <1>4 DEF LockSignal, Go, TypeOK, tasks, posting
  <2> QED
    BY <1>0, <1>4, <2>1 DEF LockSignal, Go, TypeOK, TypeInv, Staged, Running, tasks, posting
<1>5. CASE TestPredicate(w)
  <2>1. TypeOK'
    BY <1>0, <1>5 DEF TestPredicate, Go, TypeOK, tasks, posting
  <2> QED
    BY <1>0, <1>5, <2>1 DEF TestPredicate, Go, TypeOK, TypeInv, Staged, Running, tasks, posting
<1>6. CASE Block(w)
  <2>1. TypeOK'
    BY <1>0, <1>6 DEF Block, Go, TypeOK, tasks, posting
  <2> QED
    BY <1>0, <1>6, <2>1 DEF Block, Go, TypeOK, TypeInv, Staged, Running, tasks, posting
<1>7. ASSUME FinishFunction(w) \/ FinishCoroutine(w)
      PROVE  TypeInv'
  <2>1. At(w, "run") /\ current[w] \in Jobs
    BY <1>0, <1>7 DEF FinishFunction, FinishCoroutine, Running, At
  <2>2. \E i \in Roots : CountOff(w, current[w], i)
    BY <1>7, <2>1 DEF FinishFunction, FinishCoroutine, Roots
  <2>3. /\ children' \in [Jobs -> Int] /\ todo' \in [Threads -> Seq(Postings)]
        /\ \A t \in Threads : t # w => todo'[t] = todo[t]
    BY <2>1, <2>2, CountOffType
  <2>4. done' \subseteq Jobs
    BY <1>0, <1>7, <2>1 DEF FinishFunction, FinishCoroutine, TypeOK
  <2>5. TypeOK'
    BY <1>0, <1>7, <2>3, <2>4 DEF FinishFunction, FinishCoroutine, Go, TypeOK
  <2>6. stage[w] = "add" /\ UNCHANGED << stage, current, stop >> /\ pc' = [pc EXCEPT ![w] = "check"]
    BY <1>7, <2>1, AtType DEF FinishFunction, FinishCoroutine, Go
  <2>7. Staged'
    BY <1>0, <2>3, <2>6 DEF Staged
  <2>8. Running'
    BY <1>0, <2>6 DEF Running, TypeOK
  <2> QED
    BY <2>5, <2>7, <2>8 DEF TypeInv
<1>8. ASSUME GoOn(w) \/ AwaitJobs(w) \/ ResumeOn(w)
      PROVE  TypeInv'
  <2> DEFINE c == current[w]
             s == Body[c][step[c]]
  <2>1. c \in Coroutines /\ ~Ended(c) /\ At(w, "run") /\ c \in Jobs /\ c \in Roots
    BY <1>8 DEF GoOn, AwaitJobs, ResumeOn, Jobs, Roots
  <2>2. /\ s.kind = "await" => s.jobs \in Seq(Jobs)
        /\ s.kind = "on" => s.worker \in Workers
        /\ step[c] + 1 \in Nat \ {0}
    BY <1>0, <2>1, SuspensionType
  <2>3. step' = [step EXCEPT ![c] = step[c] + 1]
    BY <1>8 DEF GoOn, AwaitJobs, ResumeOn
  <2>4. step' \in [Coroutines -> Nat \ {0}]
    BY <1>0, <2>1, <2>2, <2>3 DEF TypeOK
  <2>5. /\ todo' \in [Threads -> Seq(Postings)]
        /\ \A t \in Threads : t # w => todo'[t] = todo[t]
    <3>1. CASE GoOn(w)
      BY <1>0, <3>1 DEF GoOn, posting, TypeOK
    <3>2. CASE AwaitJobs(w)
      <4>1. ChildPostings(c, s.jobs) \in Seq(Postings)
        BY <2>1, <2>2, <3>2, ChildPostingsType DEF AwaitJobs
      <4>2. todo' = [todo EXCEPT ![w] = ChildPostings(c, s.jobs)]
        BY <3>2 DEF AwaitJobs
      <4> QED
        BY <1>0, <4>1, <4>2 DEF TypeOK
    <3>3. CASE ResumeOn(w)
      <4>1. RootOr(c, c) \in Roots
        BY <1>0, <2>1 DEF RootOr, TypeOK
      <4>2. << Posting(c, RootOr(c, c), 1) >> \in Seq(Postings)
        BY <2>1, <4>1, PostingType
      <4>3. todo' = [todo EXCEPT ![w] = << Posting(c, RootOr(c, c), 1) >>]
        BY <3>3 DEF ResumeOn
      <4> QED
        BY <1>0, <4>2, <4>3 DEF TypeOK
    <3> QED
      BY <1>8, <3>1, <3>2, <3>3
  <2>6. pin' \in [Jobs -> Workers \cup {-1}]
    BY <1>0, <1>8, <2>1, <2>2 DEF GoOn, AwaitJobs, ResumeOn, TypeOK
  <2>9. /\ pc' = pc \/ pc' = [pc EXCEPT ![w] = "check"]
        /\ UNCHANGED << working, stop, queue, pending, nextIndex, stage, target, scan,
                        current, root, children, done >>
    BY <1>8 DEF GoOn, AwaitJobs, ResumeOn, Go, posting
  <2>7. TypeOK'
    BY <1>0, <2>4, <2>5, <2>6, <2>9 DEF TypeOK
  <2>8. Staged' /\ Running'
    BY <1>0, <2>1, <2>5, <2>9, AtType DEF TypeOK, Staged, Running
  <2> QED
    BY <2>7, <2>8 DEF TypeInv
<1> QED
  BY <1>1, <1>2, <1>3, <1>4, <1>5, <1>6, <1>7, <1>8 DEF WorkerStep

LEMMA TypeStep == TypeInv /\ [Next]_vars => TypeInv'
<1> SUFFICES ASSUME TypeInv, [Next]_vars PROVE TypeInv'
  OBVIOUS
<1>1. ASSUME NEW t \in Threads, Post(t) PROVE TypeInv'
  BY <1>1, TypePost
<1>2. ASSUME NEW w \in Workers, WorkerStep(w) PROVE TypeInv'
  BY <1>2, TypeWorker
<1>3. ASSUME NEW w \in Workers, WakeSpuriously(w) PROVE TypeInv'
  BY <1>3 DEF WakeSpuriously, Go, TypeInv, TypeOK, Staged, Running, tasks, posting
<1>4. CASE Shutdown
  BY <1>4 DEF Shutdown, TypeInv, TypeOK, Staged, Running, tasks, posting
<1>5. CASE PassMutex
  BY <1>5 DEF PassMutex, TypeInv, TypeOK, Staged, Running, tasks, posting
<1>7. CASE NotifyStop
  <2>1. stop' \in [worker : 0 .. NumWorkers, notifying : BOOLEAN]
    <3>1. stop.worker \in 0 .. NumWorkers /\ stop.worker < NumWorkers /\ NumWorkers \in Nat
      BY <1>7, ConstantsOK DEF NotifyStop, TypeInv, TypeOK, Running, ConstantsOK
    <3>2. stop.worker + 1 \in 0 .. NumWorkers
      BY <3>1
    <3> QED
      BY <1>7, <3>2 DEF NotifyStop
  <2>2. TypeOK'
    BY <1>7, <2>1 DEF NotifyStop, Woken, TypeInv, TypeOK, tasks, posting
  <2> QED
    BY ZenonT(30), <1>7, <2>2 DEF NotifyStop, Woken, TypeInv, TypeOK, Staged, Running, tasks, posting
<1>6. CASE UNCHANGED vars
  BY <1>6 DEF vars, TypeInv, TypeOK, Staged, Running, tasks, posting
<1> QED
  BY <1>1, <1>2, <1>3, <1>4, <1>5, <1>6, <1>7 DEF Next

(* Every variable keeps its type, whatever the scripts and bodies are. *)
THEOREM TypeCorrect == Spec => []TypeOK
<1>1. TypeInv => TypeOK
  BY DEF TypeInv
<1> QED
  BY <1>1, TypeInit, TypeStep, PTL DEF Spec
-----------------------------------------------------------------------------
(* The counter of a worker and the wake-ups.                               *)

\* A worker decided to wait while nothing was counted for it; what has been
\* counted since is about to be notified.
Asleep ==
    \A w \in Workers :
        /\ pc[w] = "block" => pending[w] = 0
        /\ pc[w] = "waiting" /\ pending[w] # 0 =>
               \E t \in Threads : target[t] = w /\ stage[t] = "notify"

\* Once the destructor has passed a worker's mutex it does not start to wait.
Closing ==
    /\ working => stop.worker = 0 /\ ~stop.notifying
    /\ stop.notifying => pc[stop.worker] # "block"
    /\ ~working => \A w \in Workers : pc[w] \in {"block", "waiting"} => stop.worker <= w

LEMMA ThreadsFinite == IsFiniteSet(Threads)
<1>1. IsFiniteSet(Workers)
  BY ConstantsOK, FS_Interval DEF ConstantsOK, Workers
<1>2. IsFiniteSet(Posters)
  BY ConstantsOK DEF ConstantsOK
<1> QED
  BY <1>1, <1>2, FS_Union DEF Threads

LEMMA UncountedFinite ==
  ASSUME NEW w \in Workers
  PROVE  IsFiniteSet(Uncounted(w)) /\ Cardinality(Uncounted(w)) \in Nat
<1>1. Uncounted(w) \subseteq Threads
  BY DEF Uncounted
<1> QED
  BY <1>1, ThreadsFinite, FS_Subset, FS_CardinalityType

LEMMA QueueTypes ==
  ASSUME TypeOK, NEW w \in Workers
  PROVE  /\ queue[w] \in [1 .. 4 -> Queue(Jobs)]
         /\ \A k \in 1 .. 4 : queue[w][k] \in Queue(Jobs) /\ Len(Contents(queue[w][k])) \in Nat
         /\ QueueLength(w) \in Nat
<1>1. queue[w] \in [1 .. 4 -> Queue(Jobs)]
  BY DEF TypeOK, Queue
<1>2. ASSUME NEW q \in Queue(Jobs) PROVE Len(Contents(q)) \in Nat
  BY ConcatProperties, LenProperties DEF Queue, Contents
<1>3. \A k \in 1 .. 4 : queue[w][k] \in Queue(Jobs) /\ Len(Contents(queue[w][k])) \in Nat
  BY <1>1, <1>2
<1> QED
  BY <1>1, <1>3 DEF QueueLength

(* One queue of worker v changes its length by d. *)
LEMMA QueueChange ==
  ASSUME TypeOK, NEW v \in Workers, NEW k \in 1 .. 4, NEW d \in Int,
         \A w \in Workers : w # v => queue'[w] = queue[w],
         \A i \in 1 .. 4 : i # k => queue'[v][i] = queue[v][i],
         Len(Contents(queue'[v][k])) = Len(Contents(queue[v][k])) + d
  PROVE  \A w \in Workers : /\ w = v => QueueLength(w)' = QueueLength(w) + d
                            /\ w # v => QueueLength(w)' = QueueLength(w)
<1>1. /\ queue \in [Workers -> [1 .. 4 -> Queue(Jobs)]]
      /\ \A i \in 1 .. 4 : Len(Contents(queue[v][i])) \in Nat
  BY QueueTypes DEF TypeOK, Queue
<1>2. ASSUME NEW w \in Workers, w # v PROVE QueueLength(w)' = QueueLength(w)
  <2>1. queue'[w] = queue[w]
    BY <1>1, <1>2
  <2> QED
    BY <2>1 DEF QueueLength
<1>3. ASSUME NEW w \in Workers, w = v PROVE QueueLength(w)' = QueueLength(w) + d
  <2> DEFINE a(i) == Len(Contents(queue[w][i]))
             b(i) == Len(Contents(queue'[w][i]))
  <2>1. b(k) = a(k) + d /\ \A i \in 1 .. 4 : a(i) \in Nat /\ (i # k => b(i) = a(i))
    BY <1>1, <1>3
  <2>2. QueueLength(w) = a(1) + a(2) + a(3) + a(4)
    BY DEF QueueLength
  <2>3. QueueLength(w)' = b(1) + b(2) + b(3) + b(4)
    BY DEF QueueLength
  <2> HIDE DEF a, b
  <2>4. CASE k = 1
    BY <2>1, <2>2, <2>3, <2>4
  <2>5. CASE k = 2
    BY <2>1, <2>2, <2>3, <2>5
  <2>6. CASE k = 3
    BY <2>1, <2>2, <2>3, <2>6
  <2>7. CASE k = 4
    BY <2>1, <2>2, <2>3, <2>7
  <2> QED
    BY <2>4, <2>5, <2>6, <2>7
<1> QED
  BY <1>2, <1>3

(* Threads keep their postings, as far as the counter is concerned. *)
LEMMA SameUncounted ==
  ASSUME \A t \in Threads : /\ stage'[t] = "count" <=> stage[t] = "count"
                            /\ stage[t] = "count" => target'[t] = target[t]
  PROVE  \A w \in Workers : Uncounted(w)' = Uncounted(w)
  BY DEF Uncounted

LEMMA CounterInit == Init => PendingIsQueued
<1> SUFFICES ASSUME Init, NEW w \in Workers
             PROVE  pending[w] = QueueLength(w) - Cardinality(Uncounted(w))
  BY DEF PendingIsQueued
<1>1. \A k \in 1 .. 4 : queue[w][k] = EmptyQueue
  BY DEF Init
<1>2. Contents(EmptyQueue) = << >> /\ Len(<< >>) = 0
  BY EmptyQueueType, EmptySeq
<1>3. QueueLength(w) = 0
  BY <1>1, <1>2 DEF QueueLength
<1>4. Uncounted(w) = {}
  BY DEF Init, Uncounted
<1> QED
  BY <1>3, <1>4, FS_EmptySet DEF Init

(* A job pushed is a job uncounted, a job taken is counted off at once. *)
LEMMA CounterStep ==
  ASSUME TypeInv, PendingIsQueued, [Next]_vars PROVE PendingIsQueued'
<1>0. TypeOK /\ Staged
  BY DEF TypeInv
<1>1. ASSUME NEW t \in Threads, Push(t) PROVE PendingIsQueued'
  <2> DEFINE v == target[t]
             j == Head(todo[t]).job
             k == QueueIndex(j)
             q == PushBack(queue[v][k], j)
  <2>1. v \in Workers /\ j \in Jobs /\ k \in 1 .. 4
    BY <1>0, <1>1, HeadPosting, QueueIndexType DEF Push, Staged, TypeOK
  <2>2. queue[v][k] \in Queue(Jobs)
    BY <1>0, <2>1, QueueTypes
  <2>3. queue' = [queue EXCEPT ![v][k] = q]
    BY <1>1 DEF Push
  <2>4. Len(Contents(q)) = Len(Contents(queue[v][k])) + 1
    BY <2>1, <2>2, PushBackAppends
  <2>5. \A w \in Workers : /\ w = v => QueueLength(w)' = QueueLength(w) + 1
                           /\ w # v => QueueLength(w)' = QueueLength(w)
    <3> HIDE DEF v, k, q
    <3>1. queue \in [Workers -> [1 .. 4 -> Queue(Jobs)]]
      BY <1>0 DEF TypeOK, Queue
    <3>2. /\ \A w \in Workers : w # v => queue'[w] = queue[w]
          /\ \A i \in 1 .. 4 : i # k => queue'[v][i] = queue[v][i]
          /\ queue'[v][k] = q
      BY <2>1, <2>3, <3>1
    <3> QED
      BY <1>0, <2>1, <2>4, <3>2, QueueChange
  <2>6. \A w \in Workers :
            /\ w = v => Uncounted(w)' = Uncounted(w) \cup {t} /\ t \notin Uncounted(w)
            /\ w # v => Uncounted(w)' = Uncounted(w)
    BY <1>0, <1>1 DEF Push, Uncounted, TypeOK
  <2>7. \A w \in Workers :
            w = v => Cardinality(Uncounted(w)') = Cardinality(Uncounted(w)) + 1
    BY <2>6, UncountedFinite, FS_AddElement
  <2>8. pending' = pending
    BY <1>1 DEF Push
  <2>9. \A w \in Workers : QueueLength(w) \in Nat /\ Cardinality(Uncounted(w)) \in Nat
    BY <1>0, QueueTypes, UncountedFinite
  <2> HIDE DEF v
  <2> QED
    <3> SUFFICES ASSUME NEW w \in Workers
                 PROVE  pending'[w] = QueueLength(w)' - Cardinality(Uncounted(w)')
      BY DEF PendingIsQueued
    <3>1. pending[w] = QueueLength(w) - Cardinality(Uncounted(w))
      BY DEF PendingIsQueued
    <3>2. CASE w = v
      BY <2>5, <2>7, <2>8, <2>9, <3>1, <3>2
    <3>3. CASE w # v
      BY <2>5, <2>6, <2>8, <3>1, <3>3
    <3> QED
      BY <3>2, <3>3
<1>2. ASSUME NEW t \in Threads, CountPending(t) PROVE PendingIsQueued'
  <2> DEFINE v == target[t]
  <2>1. v \in Workers /\ t \in Uncounted(v)
    BY <1>0, <1>2 DEF CountPending, Uncounted, TypeOK
  <2>2. \A w \in Workers :
            /\ w = v => Uncounted(w)' = Uncounted(w) \ {t} /\ t \in Uncounted(w)
            /\ w # v => Uncounted(w)' = Uncounted(w)
    BY <1>0, <1>2 DEF CountPending, Uncounted, TypeOK
  <2>3. \A w \in Workers :
            w = v => Cardinality(Uncounted(w)') = Cardinality(Uncounted(w)) - 1
    BY <2>2, UncountedFinite, FS_RemoveElement
  <2>4. \A w \in Workers : QueueLength(w)' = QueueLength(w)
    BY <1>2 DEF CountPending, QueueLength
  <2>5. \A w \in Workers : /\ w = v => pending'[w] = pending[w] + 1
                           /\ w # v => pending'[w] = pending[w]
    BY <1>0, <1>2, <2>1 DEF CountPending, TypeOK
  <2>6. \A w \in Workers : /\ QueueLength(w) \in Nat /\ Cardinality(Uncounted(w)) \in Nat
                           /\ pending[w] \in Int
    BY <1>0, QueueTypes, UncountedFinite DEF TypeOK
  <2> HIDE DEF v
  <2> QED
    <3> SUFFICES ASSUME NEW w \in Workers
                 PROVE  pending'[w] = QueueLength(w)' - Cardinality(Uncounted(w)')
      BY DEF PendingIsQueued
    <3>1. pending[w] = QueueLength(w) - Cardinality(Uncounted(w))
      BY DEF PendingIsQueued
    <3>2. CASE w = v
      BY <2>3, <2>4, <2>5, <2>6, <3>1, <3>2
    <3>3. CASE w # v
      BY <2>2, <2>4, <2>5, <3>1, <3>3
    <3> QED
      BY <3>2, <3>3
<1>3. ASSUME NEW w0 \in Workers, TakeJob(w0) PROVE PendingIsQueued'
  <2> DEFINE k == scan[w0]
             q == PopFront(queue[w0][k])
  <2>1. k \in 1 .. 4
    BY <1>0 DEF TypeOK
  <2>2. queue[w0][k] \in Queue(Jobs)
    BY <1>0, <2>1, QueueTypes
  <2>3. queue' = [queue EXCEPT ![w0][k] = q] /\ CanPop(queue[w0][k])
    BY <1>3 DEF TakeJob
  <2>4. Len(Contents(q)) = Len(Contents(queue[w0][k])) + (-1)
    <3>1. Len(Contents(queue[w0][k])) \in Nat
      BY <1>0, <2>1, QueueTypes
    <3> QED
      BY <2>2, <2>3, <3>1, PopFrontTakesHead
  <2>5. \A w \in Workers : /\ w = w0 => QueueLength(w)' = QueueLength(w) + (-1)
                           /\ w # w0 => QueueLength(w)' = QueueLength(w)
    <3> DEFINE d == -1
    <3>0. d \in Int /\ Len(Contents(q)) = Len(Contents(queue[w0][k])) + d
      BY <2>4
    <3> HIDE DEF k, q, d
    <3>1. queue \in [Workers -> [1 .. 4 -> Queue(Jobs)]]
      BY <1>0 DEF TypeOK, Queue
    <3>2. /\ \A w \in Workers : w # w0 => queue'[w] = queue[w]
          /\ \A i \in 1 .. 4 : i # k => queue'[w0][i] = queue[w0][i]
          /\ queue'[w0][k] = q
      BY <2>1, <2>3, <3>1
    <3>3. \A w \in Workers : /\ w = w0 => QueueLength(w)' = QueueLength(w) + d
                             /\ w # w0 => QueueLength(w)' = QueueLength(w)
      BY <1>0, <2>1, <3>0, <3>2, QueueChange
    <3> QED
      BY <3>3 DEF d
  <2>6. \A w \in Workers : Uncounted(w)' = Uncounted(w)
    BY <1>3 DEF TakeJob, Uncounted, posting
  <2>7. \A w \in Workers : /\ w = w0 => pending'[w] = pending[w] - 1
                           /\ w # w0 => pending'[w] = pending[w]
    BY <1>0, <1>3 DEF TakeJob, TypeOK
  <2>8. \A w \in Workers : /\ QueueLength(w) \in Nat /\ Cardinality(Uncounted(w)) \in Nat
                           /\ pending[w] \in Int
    BY <1>0, QueueTypes, UncountedFinite DEF TypeOK
  <2> QED
    BY <2>5, <2>6, <2>7, <2>8 DEF PendingIsQueued
<1>4. ASSUME UNCHANGED << queue, pending >>,
             \A t \in Threads : /\ stage'[t] = "count" <=> stage[t] = "count"
                                /\ stage[t] = "count" => target'[t] = target[t]
      PROVE  PendingIsQueued'
  <2>1. \A w \in Workers : Uncounted(w)' = Uncounted(w)
    BY <1>4, SameUncounted
  <2>2. \A w \in Workers : QueueLength(w)' = QueueLength(w)
    BY <1>4 DEF QueueLength
  <2> QED
    BY <1>4, <2>1, <2>2 DEF PendingIsQueued
<1>5. ASSUME NEW t \in Threads, AddToRoot(t) \/ Notify(t) PROVE PendingIsQueued'
  <2>1. UNCHANGED << queue, pending >>
    BY <1>5 DEF AddToRoot, Notify
  <2>2. \A u \in Threads : /\ stage'[u] = "count" <=> stage[u] = "count"
                           /\ stage[u] = "count" => target'[u] = target[u]
    BY <1>0, <1>5 DEF AddToRoot, Notify, TypeOK
  <2> QED
    BY <1>4, <2>1, <2>2
<1>6. ASSUME UNCHANGED << queue, pending, stage, target >> PROVE PendingIsQueued'
  BY <1>4, <1>6
<1>7. ASSUME NEW w \in Workers, WorkerStep(w) \/ WakeSpuriously(w), ~TakeJob(w)
      PROVE  UNCHANGED << queue, pending, stage, target >>
  BY <1>7 DEF WorkerStep, WakeSpuriously, CheckWorking, FindNothing, LockSignal, TestPredicate,
     Block, FinishFunction, FinishCoroutine, GoOn, AwaitJobs, ResumeOn, posting
<1>8. ASSUME Shutdown \/ PassMutex \/ NotifyStop \/ UNCHANGED vars
      PROVE  UNCHANGED << queue, pending, stage, target >>
  BY <1>8 DEF Shutdown, PassMutex, NotifyStop, vars, posting
<1> QED
  BY <1>1, <1>2, <1>3, <1>5, <1>6, <1>7, <1>8 DEF Next, Post

(* pending_task_count counts the queued jobs, less those just pushed. *)
THEOREM PendingCounts == Spec => []PendingIsQueued
<1>1. Init => TypeInv /\ PendingIsQueued
  BY TypeInit, CounterInit
<1>2. TypeInv /\ PendingIsQueued /\ [Next]_vars => (TypeInv /\ PendingIsQueued)'
  BY TypeStep, CounterStep
<1> QED
  BY <1>1, <1>2, PTL DEF Spec

(* Only a worker's own steps make it lock, decide or block. *)
LEMMA AsleepStep == ASSUME TypeInv, Asleep, [Next]_vars PROVE Asleep'
<1>0. TypeOK /\ Workers \subseteq Threads
  BY DEF TypeInv, Threads
<1> SUFFICES ASSUME NEW w \in Workers
             PROVE  /\ pc'[w] = "block" => pending'[w] = 0
                    /\ pc'[w] = "waiting" /\ pending'[w] # 0 =>
                           \E t \in Threads : target'[t] = w /\ stage'[t] = "notify"
  BY DEF Asleep
<1>1. /\ pc[w] = "block" => pending[w] = 0
      /\ pc[w] = "waiting" /\ pending[w] # 0 =>
             \E t \in Threads : target[t] = w /\ stage[t] = "notify"
  BY DEF Asleep
<1>2. ASSUME NEW t \in Threads, AddToRoot(t) \/ Push(t)
      PROVE  /\ UNCHANGED << pc, pending >>
             /\ \A u \in Threads : stage[u] = "notify" =>
                    stage'[u] = "notify" /\ target'[u] = target[u]
  BY <1>0, <1>2 DEF AddToRoot, Push, TypeOK
<1>3. CASE \E t \in Threads : AddToRoot(t) \/ Push(t)
  BY <1>1, <1>2, <1>3
<1>4. ASSUME NEW t \in Threads, CountPending(t)
      PROVE  /\ pc'[w] = "block" => pending'[w] = 0
             /\ pc'[w] = "waiting" /\ pending'[w] # 0 =>
                    \E u \in Threads : target'[u] = w /\ stage'[u] = "notify"
  <2>1. pc' = pc /\ target' = target /\ stage' = [stage EXCEPT ![t] = "notify"]
        /\ pending' = [pending EXCEPT ![target[t]] = pending[target[t]] + 1]
        /\ ~Locked(target[t])
    BY <1>4 DEF CountPending
  <2>2. CASE target[t] = w
    <3>1. pc'[w] # "block" /\ target'[t] = w /\ stage'[t] = "notify"
      BY <1>0, <2>1, <2>2 DEF Locked, TypeOK
    <3> QED
      BY <3>1
  <2>3. CASE target[t] # w
    <3>1. pending'[w] = pending[w]
      BY <1>0, <2>1, <2>3 DEF TypeOK
    <3>2. \A u \in Threads : stage[u] = "notify" => stage'[u] = "notify"
      BY <1>0, <2>1 DEF TypeOK
    <3> QED
      BY <1>1, <2>1, <3>1, <3>2
  <2> QED
    BY <2>2, <2>3
<1>5. ASSUME NEW t \in Threads, Notify(t)
      PROVE  /\ pc'[w] = "block" => pending'[w] = 0
             /\ pc'[w] = "waiting" /\ pending'[w] # 0 =>
                    \E u \in Threads : target'[u] = w /\ stage'[u] = "notify"
  <2>1. /\ pending' = pending /\ target' = target /\ stage' = [stage EXCEPT ![t] = "add"]
        /\ pc' = Woken(target[t])
    BY <1>5 DEF Notify
  <2>2. CASE target[t] = w
    <3>1. pc'[w] # "waiting" /\ (pc'[w] = "block" => pc[w] = "block")
      BY <1>0, <2>1, <2>2 DEF Woken, TypeOK
    <3> QED
      BY <1>1, <2>1, <3>1
  <2>3. CASE target[t] # w
    <3>1. pc'[w] = pc[w]
      BY <1>0, <2>1, <2>3 DEF Woken, TypeOK
    <3>2. \A u \in Threads : u # t => stage'[u] = stage[u]
      BY <1>0, <2>1 DEF TypeOK
    <3> QED
      BY <1>1, <2>1, <2>3, <3>1, <3>2
  <2> QED
    BY <2>2, <2>3
<1>6. ASSUME NEW v \in Workers, WorkerStep(v) \/ WakeSpuriously(v)
      PROVE  /\ pc'[w] = "block" => pending'[w] = 0
             /\ pc'[w] = "waiting" /\ pending'[w] # 0 =>
                    \E u \in Threads : target'[u] = w /\ stage'[u] = "notify"
  <2>1. stage' = stage /\ target' = target
    BY <1>6 DEF WorkerStep, WakeSpuriously, CheckWorking, TakeJob, FindNothing, LockSignal,
       TestPredicate, Block, FinishFunction, FinishCoroutine, GoOn, AwaitJobs, ResumeOn, posting
  <2>2. CASE v # w
    <3>1. pc'[w] = pc[w]
      BY <1>0, <1>6, <2>2 DEF TypeOK, WorkerStep, WakeSpuriously, CheckWorking, TakeJob,
         FindNothing, LockSignal, TestPredicate, Block, FinishFunction, FinishCoroutine, GoOn,
         AwaitJobs, ResumeOn, Go
    <3>2. pending'[w] = pending[w]
      BY <1>0, <1>6, <2>2 DEF TypeOK, WorkerStep, WakeSpuriously, CheckWorking, TakeJob,
         FindNothing, LockSignal, TestPredicate, Block, FinishFunction, FinishCoroutine, GoOn,
         AwaitJobs, ResumeOn
    <3> QED
      BY <1>1, <2>1, <3>1, <3>2
  <2>3. CASE v = w
    <3>1. CASE TestPredicate(w)
      <4>1. pc'[w] # "waiting" /\ pending' = pending
        BY <1>0, <3>1 DEF TestPredicate, Go, TypeOK
      <4>2. pc'[w] = "block" => ~HasReason(w)
        BY <1>0, <3>1 DEF TestPredicate, Go, TypeOK
      <4> QED
        BY <4>1, <4>2 DEF HasReason
    <3>2. CASE Block(w)
      <4>1. pc[w] = "block" /\ pc'[w] = "waiting" /\ pending' = pending
        BY <1>0, <3>2 DEF Block, At, Go, TypeOK
      <4> QED
        BY <1>1, <4>1
    <3>3. CASE ~TestPredicate(w) /\ ~Block(w)
      <4>1. \/ pc'[w] \in {"scan", "exited", "run", "lock", "decide", "check"}
            \/ UNCHANGED pc /\ pc[w] \in {"scan", "run"}
        BY <1>0, <1>6, <2>3, <3>3 DEF TypeOK, WorkerStep, WakeSpuriously, CheckWorking, TakeJob,
           FindNothing, LockSignal, FinishFunction, FinishCoroutine, GoOn, AwaitJobs, ResumeOn,
           At, Go
      <4> QED
        BY <4>1
    <3> QED
      BY <3>1, <3>2, <3>3
  <2> QED
    BY <2>2, <2>3
<1>7. CASE NotifyStop
  <2>1. UNCHANGED << pending, stage, target >>
    BY <1>7 DEF NotifyStop, posting
  <2>2. pc'[w] = pc[w] \/ pc'[w] = "lock"
    BY <1>0, <1>7 DEF NotifyStop, Woken, TypeOK
  <2> QED
    BY <1>1, <2>1, <2>2
<1>8. CASE Shutdown \/ PassMutex \/ UNCHANGED vars
  <2>1. UNCHANGED << pc, pending, stage, target >>
    BY <1>8 DEF Shutdown, PassMutex, vars, posting
  <2> QED
    BY <1>1, <2>1
<1> QED
  BY <1>3, <1>4, <1>5, <1>6, <1>7, <1>8 DEF Next, Post

LEMMA ClosingStep == ASSUME TypeInv, Closing, [Next]_vars PROVE Closing'
<1>0. TypeOK /\ Running /\ stop.worker \in 0 .. NumWorkers /\ NumWorkers \in Nat
  BY ConstantsOK DEF TypeInv, TypeOK, ConstantsOK
<1>1. ASSUME UNCHANGED << working, stop >>,
             \A w \in Workers : /\ pc'[w] = "block" => pc[w] = "block" \/ working
                                /\ pc'[w] = "waiting" => pc[w] \in {"block", "waiting"}
      PROVE  Closing'
  <2>1. stop.notifying => stop.worker \in Workers
    BY <1>0 DEF Running, Workers
  <2> QED
    BY <1>1, <2>1 DEF Closing
<1>2. ASSUME NEW t \in Threads, Post(t) PROVE Closing'
  <2>1. UNCHANGED << working, stop >>
    BY <1>2 DEF Post, AddToRoot, Push, CountPending, Notify
  <2>2. \A w \in Workers : pc'[w] = pc[w] \/ pc'[w] = "lock"
    BY <1>0, <1>2 DEF Post, AddToRoot, Push, CountPending, Notify, Woken, TypeOK
  <2> QED
    BY <1>1, <2>1, <2>2
<1>3. ASSUME NEW v \in Workers, WorkerStep(v) \/ WakeSpuriously(v) PROVE Closing'
  <2>1. UNCHANGED << working, stop >>
    BY <1>3 DEF WorkerStep, WakeSpuriously, CheckWorking, TakeJob, FindNothing, LockSignal,
       TestPredicate, Block, FinishFunction, FinishCoroutine, GoOn, AwaitJobs, ResumeOn
  <2>2. ASSUME NEW w \in Workers
        PROVE  /\ pc'[w] = "block" => pc[w] = "block" \/ working
               /\ pc'[w] = "waiting" => pc[w] \in {"block", "waiting"}
    <3>1. CASE TestPredicate(v)
      BY <1>0, <3>1 DEF TestPredicate, HasReason, Go, TypeOK
    <3>2. CASE Block(v)
      BY <1>0, <3>2 DEF Block, At, Go, TypeOK
    <3>3. CASE ~TestPredicate(v) /\ ~Block(v)
      <4>1. pc' = pc \/ \E p \in {"scan", "exited", "run", "lock", "decide", "check"} :
                            pc' = [pc EXCEPT ![v] = p]
        BY <1>3, <3>3 DEF WorkerStep, WakeSpuriously, CheckWorking, TakeJob, FindNothing,
           LockSignal, FinishFunction, FinishCoroutine, GoOn, AwaitJobs, ResumeOn, Go
      <4> QED
        BY <1>0, <4>1 DEF TypeOK
    <3> QED
      BY <3>1, <3>2, <3>3
  <2> QED
    BY <1>1, <2>1, <2>2
<1>4. CASE Shutdown
  BY <1>0, <1>4 DEF Shutdown, Closing, Workers
<1>5. CASE PassMutex
  <2>1. stop' = [stop EXCEPT !.notifying = TRUE] /\ ~working /\ ~Locked(stop.worker)
        /\ UNCHANGED << working, pc >>
    BY <1>5 DEF PassMutex
  <2>2. stop'.worker = stop.worker
    BY <1>0, <2>1 DEF TypeOK
  <2> QED
    BY <2>1, <2>2 DEF Closing, Locked
<1>6. CASE NotifyStop
  <2> DEFINE v == stop.worker
  <2>1. /\ stop' = [worker |-> v + 1, notifying |-> FALSE] /\ UNCHANGED working
        /\ pc' = Woken(v) /\ stop.notifying
    BY <1>6 DEF NotifyStop
  <2>2. v \in Workers /\ pc[v] # "block" /\ ~working
    BY <1>0, <2>1 DEF Running, Workers, Closing
  <2>3. /\ pc'[v] \notin {"block", "waiting"}
        /\ \A w \in Workers : w # v => pc'[w] = pc[w]
    BY <1>0, <2>1, <2>2 DEF Woken, TypeOK
  <2>4. \A w \in Workers : pc'[w] \in {"block", "waiting"} => v + 1 <= w
    <3> SUFFICES ASSUME NEW w \in Workers, pc'[w] \in {"block", "waiting"} PROVE v + 1 <= w
      OBVIOUS
    <3>1. w # v /\ v <= w
      BY <2>2, <2>3 DEF Closing
    <3> QED
      BY <1>0, <3>1 DEF Workers
  <2> QED
    BY <2>1, <2>2, <2>4 DEF Closing
<1>7. CASE UNCHANGED vars
  BY <1>1, <1>7 DEF vars
<1> QED
  BY <1>2, <1>3, <1>4, <1>5, <1>6, <1>7 DEF Next

LEMMA WakeupInv == TypeInv /\ PendingIsQueued /\ Asleep /\ Closing => NoLostWakeup
<1> SUFFICES ASSUME TypeInv, PendingIsQueued, Asleep, Closing,
                    NEW w \in Workers, pc[w] \in {"block", "waiting"}
             PROVE  /\ QueueLength(w) > 0 =>
                           \E t \in Threads : target[t] = w /\ stage[t] \in {"count", "notify"}
                    /\ ~working => stop.worker <= w
  BY DEF NoLostWakeup
<1>1. ASSUME QueueLength(w) > 0
      PROVE  \E t \in Threads : target[t] = w /\ stage[t] \in {"count", "notify"}
  <2>1. CASE Uncounted(w) # {}
    BY <2>1 DEF Uncounted
  <2>2. CASE Uncounted(w) = {}
    <3>1. pending[w] = QueueLength(w) /\ QueueLength(w) \in Nat
      <4>1. Cardinality(Uncounted(w)) = 0
        BY <2>2, FS_EmptySet
      <4>2. QueueLength(w) \in Nat
        BY QueueTypes DEF TypeInv
      <4> QED
        BY <4>1, <4>2 DEF PendingIsQueued
    <3>2. pending[w] # 0
      BY <1>1, <3>1
    <3> QED
      BY <3>2 DEF Asleep
  <2> QED
    BY <2>1, <2>2
<1> QED
  BY <1>1 DEF Closing

(* The notification for a job, or of the destructor, reaches a worker that *)
(* waits or has already decided to.                                        *)
THEOREM Wakeups == Spec => []NoLostWakeup
<1> DEFINE Inv == TypeInv /\ PendingIsQueued /\ Asleep /\ Closing
<1>1. Init => Inv
  <2>1. Init => Asleep /\ Closing
    BY DEF Init, Asleep, Closing
  <2> QED
    BY <2>1, TypeInit, CounterInit
<1>2. Inv /\ [Next]_vars => Inv'
  BY TypeStep, CounterStep, AsleepStep, ClosingStep
<1>3. Inv => NoLostWakeup
  BY WakeupInv
<1> QED
  BY <1>1, <1>2, <1>3, PTL DEF Spec
-----------------------------------------------------------------------------
(* The functions pinned to a worker, as the abstract executor sees them.   *)
Waiting == [w \in Workers |-> Contents(queue[w][1])]
Active == [w \in Workers |-> IF pc[w] = "run" /\ scan[w] = 1 THEN current[w] ELSE NoJob]

\* The two are the mapping of the refinement.
SerialStep == Serial!Next \/ UNCHANGED << Waiting, Active >>

LEMMA ActiveOf ==
  ASSUME TypeInv, NEW w \in Workers
  PROVE  /\ Active[w] = IF pc[w] = "run" /\ scan[w] = 1 THEN current[w] ELSE NoJob
         /\ Waiting[w] = Contents(queue[w][1])
  BY DEF Active, Waiting

(* A step that keeps the first queues and leaves the running functions     *)
(* alone stutters.                                                         *)
LEMMA SerialStutter ==
  ASSUME \A w \in Workers : queue'[w][1] = queue[w][1],
         \A w \in Workers :
             \/ (pc'[w] = pc[w] /\ scan'[w] = scan[w] /\ current'[w] = current[w])
             \/ ~(pc[w] = "run" /\ scan[w] = 1) /\ ~(pc'[w] = "run" /\ scan'[w] = 1)
  PROVE  SerialStep
<1>1. Waiting' = Waiting
  BY DEF Waiting
<1>2. Active' = Active
  BY DEF Active
<1> QED
  BY <1>1, <1>2 DEF SerialStep

(* A push to a first queue is the abstract Post.                           *)
LEMMA SerialPush == ASSUME TypeInv, NEW t \in Threads, Push(t) PROVE SerialStep
<1> DEFINE r == Head(todo[t])
<1>1. /\ TypeOK /\ r.job \in Jobs /\ QueueIndex(r.job) \in 1 .. 4
      /\ UNCHANGED << pc, scan, current >>
  BY HeadPosting, QueueIndexType DEF Push, TypeInv, Staged
<1>2. PICK w \in Workers : w = target[t]
  BY <1>1 DEF TypeOK
<1>3. PICK j \in Jobs : j = r.job
  BY <1>1
<1>4. PICK k \in 1 .. 4 : k = QueueIndex(r.job)
  BY <1>1
<1>5. queue' = [queue EXCEPT ![w][k] = PushBack(queue[w][k], j)]
  BY <1>2, <1>3, <1>4 DEF Push
<1>6. queue \in [Workers -> [1 .. 4 -> Queue(Jobs)]]
  BY <1>1 DEF TypeOK, Queue
<1>7. CASE k = 1
  <2>1. Contents(queue'[w][1]) = Append(Contents(queue[w][1]), j)
    <3>1. queue'[w][1] = PushBack(queue[w][1], j) /\ queue[w][1] \in Queue(Jobs)
      BY <1>5, <1>6, <1>7
    <3> QED
      BY <3>1, PushBackAppends
  <2>2. \A v \in Workers : v # w => queue'[v] = queue[v]
    BY <1>5, <1>6
  <2>3. Waiting' = [Waiting EXCEPT ![w] = Append(Waiting[w], j)]
    BY <2>1, <2>2 DEF Waiting
  <2>4. Active' = Active
    BY <1>1 DEF Active
  <2>5. Serial!Post(w, j)
    BY <2>3, <2>4 DEF Serial!Post, Waiting, Active
  <2> QED
    BY <2>5 DEF SerialStep, Serial!Next
<1>8. CASE k # 1
  <2>1. \A v \in Workers : queue'[v][1] = queue[v][1]
    BY <1>5, <1>6, <1>8
  <2> QED
    BY <1>1, <2>1, SerialStutter
<1> QED
  BY <1>7, <1>8

(* Taking a job from the first queue is the abstract Start.                *)
LEMMA SerialTake == ASSUME TypeInv, NEW w \in Workers, TakeJob(w) PROVE SerialStep
<1>1. /\ TypeOK /\ pc[w] = "scan" /\ CanPop(queue[w][scan[w]])
      /\ current' = [current EXCEPT ![w] = Front(queue[w][scan[w]])]
      /\ pc' = [pc EXCEPT ![w] = "run"] /\ scan' = scan
  BY DEF TypeInv, TakeJob, At, Go
<1>2. PICK k \in 1 .. 4 : k = scan[w]
  BY <1>1 DEF TypeOK
<1>3. queue' = [queue EXCEPT ![w][k] = PopFront(queue[w][k])]
  BY <1>2 DEF TakeJob
<1>4. queue \in [Workers -> [1 .. 4 -> Queue(Jobs)]]
  BY <1>1 DEF TypeOK, Queue
<1>5. /\ pc'[w] = "run" /\ \A v \in Workers : v # w => pc'[v] = pc[v] /\ current'[v] = current[v]
      /\ current'[w] = Front(queue[w][k])
  BY <1>1, <1>2 DEF TypeOK
<1>6. CASE k = 1
  <2>1. /\ Contents(queue[w][1]) # << >> /\ Front(queue[w][1]) = Head(Contents(queue[w][1]))
        /\ Contents(PopFront(queue[w][1])) = Tail(Contents(queue[w][1]))
    <3>1. queue[w][1] \in Queue(Jobs) /\ CanPop(queue[w][1])
      BY <1>1, <1>2, <1>4, <1>6
    <3> QED
      BY <3>1, PopFrontTakesHead
  <2>2. queue'[w][1] = PopFront(queue[w][1]) /\ \A v \in Workers : v # w => queue'[v] = queue[v]
    BY <1>3, <1>4, <1>6
  <2>3. Waiting' = [Waiting EXCEPT ![w] = Tail(Waiting[w])]
    BY <2>1, <2>2 DEF Waiting
  <2>4. Active' = [Active EXCEPT ![w] = Head(Waiting[w])]
    BY ZenonT(30), <1>1, <1>2, <1>5, <1>6, <2>1 DEF Waiting, Active
  <2>5. Active[w] = NoJob /\ Waiting[w] # << >>
    BY <1>1, <2>1 DEF Waiting, Active
  <2>6. Serial!Start(w)
    BY <2>3, <2>4, <2>5 DEF Serial!Start, Waiting, Active
  <2> QED
    BY <2>6 DEF SerialStep, Serial!Next
<1>7. CASE k # 1
  <2>1. \A v \in Workers : queue'[v][1] = queue[v][1]
    BY <1>3, <1>4, <1>7
  <2>2. \A v \in Workers :
           \/ (pc'[v] = pc[v] /\ scan'[v] = scan[v] /\ current'[v] = current[v])
           \/ ~(pc[v] = "run" /\ scan[v] = 1) /\ ~(pc'[v] = "run" /\ scan'[v] = 1)
    BY <1>1, <1>2, <1>5, <1>7
  <2> QED
    BY <2>1, <2>2, SerialStutter
<1> QED
  BY <1>6, <1>7

(* A worker that leaves its job finishes the function it was running.      *)
LEMMA SerialLeave ==
  ASSUME TypeInv, NEW w \in Workers, pc[w] = "run", pc' = [pc EXCEPT ![w] = "check"],
         UNCHANGED << queue, scan, current >>
  PROVE  SerialStep
<1>1. /\ TypeOK /\ current[w] \in Jobs /\ current[w] # NoJob
      /\ pc'[w] = "check" /\ \A v \in Workers : v # w => pc'[v] = pc[v]
  BY ConstantsOK DEF TypeInv, TypeOK, Running, ConstantsOK
<1>2. CASE scan[w] = 1
  <2>1. Active[w] # NoJob
    BY <1>1, <1>2 DEF Active
  <2>2. Active' = [Active EXCEPT ![w] = NoJob]
    BY <1>1 DEF Active
  <2>3. Waiting' = Waiting
    BY DEF Waiting
  <2>4. Serial!Finish(w)
    BY <2>1, <2>2, <2>3 DEF Serial!Finish, Waiting, Active
  <2> QED
    BY <2>4 DEF SerialStep, Serial!Next
<1>3. CASE scan[w] # 1
  BY <1>1, <1>3, SerialStutter
<1> QED
  BY <1>2, <1>3

LEMMA SerialWorker == ASSUME TypeInv, NEW w \in Workers, WorkerStep(w) PROVE SerialStep
<1>0. TypeOK
  BY DEF TypeInv
<1>1. CASE CheckWorking(w)
  <2>1. /\ pc[w] = "check" /\ pc'[w] \in {"scan", "exited"} /\ UNCHANGED << queue, current >>
        /\ \A v \in Workers : v # w => pc'[v] = pc[v] /\ scan'[v] = scan[v]
    BY <1>0, <1>1 DEF CheckWorking, At, Go, TypeOK
  <2> QED
    BY <2>1, SerialStutter
<1>2. CASE TakeJob(w)
  BY <1>2, SerialTake
<1>3. CASE FindNothing(w)
  <2>1. /\ pc[w] = "scan" /\ pc'[w] \in {"scan", "lock"} /\ UNCHANGED << queue, current >>
        /\ \A v \in Workers : v # w => pc'[v] = pc[v] /\ scan'[v] = scan[v]
    BY <1>0, <1>3 DEF FindNothing, At, Go, TypeOK
  <2> QED
    BY <2>1, SerialStutter
<1>4. ASSUME LockSignal(w) \/ TestPredicate(w) \/ Block(w)
      PROVE  SerialStep
  <2>1. /\ pc[w] # "run" /\ pc'[w] # "run" /\ UNCHANGED << queue, current, scan >>
        /\ \A v \in Workers : v # w => pc'[v] = pc[v]
    BY <1>0, <1>4 DEF LockSignal, TestPredicate, Block, At, Go, TypeOK
  <2> QED
    BY <2>1, SerialStutter
<1>5. CASE GoOn(w)
  <2>1. UNCHANGED << queue, current, scan, pc >>
    BY <1>5 DEF GoOn
  <2> QED
    BY <2>1, SerialStutter
<1>6. ASSUME FinishFunction(w) \/ FinishCoroutine(w) \/ AwaitJobs(w) \/ ResumeOn(w)
      PROVE  SerialStep
  <2>1. pc[w] = "run" /\ pc' = [pc EXCEPT ![w] = "check"] /\ UNCHANGED << queue, scan, current >>
    BY <1>6 DEF FinishFunction, FinishCoroutine, AwaitJobs, ResumeOn, At, Go
  <2> QED
    BY <2>1, SerialLeave
<1> QED
  BY <1>1, <1>2, <1>3, <1>4, <1>5, <1>6 DEF WorkerStep

LEMMA SerialNext == ASSUME TypeInv, [Next]_vars PROVE SerialStep
<1>0. TypeOK
  BY DEF TypeInv
<1>1. ASSUME NEW t \in Threads, AddToRoot(t) \/ CountPending(t)
      PROVE  SerialStep
  <2>1. UNCHANGED << queue, current, scan, pc >>
    BY <1>1 DEF AddToRoot, CountPending
  <2> QED
    BY <2>1, SerialStutter
<1>2. ASSUME NEW v \in Workers, pc' = Woken(v), UNCHANGED << queue, current, scan >>
      PROVE  SerialStep
  <2>1. \A w \in Workers : pc'[w] = pc[w] \/ (pc[w] = "waiting" /\ pc'[w] = "lock")
    BY <1>0, <1>2 DEF Woken, TypeOK
  <2> QED
    BY <1>2, <2>1, SerialStutter
<1>3. ASSUME NEW t \in Threads, Notify(t) PROVE SerialStep
  <2>1. PICK v \in Workers : v = target[t]
    BY <1>0 DEF TypeOK
  <2>2. pc' = Woken(v) /\ UNCHANGED << queue, current, scan >>
    BY <1>3, <2>1 DEF Notify
  <2> QED
    BY <1>2, <2>2
<1>4. CASE NotifyStop
  <2>1. stop.worker \in Workers
    BY <1>4, ConstantsOK DEF NotifyStop, TypeInv, TypeOK, Running, ConstantsOK, Workers
  <2>2. PICK v \in Workers : v = stop.worker
    BY <2>1
  <2>3. pc' = Woken(v) /\ UNCHANGED << queue, current, scan >>
    BY <1>4, <2>2 DEF NotifyStop
  <2> QED
    BY <1>2, <2>3
<1>5. ASSUME NEW w \in Workers, WakeSpuriously(w) PROVE SerialStep
  <2>1. \A v \in Workers : pc'[v] = pc[v] \/ (pc[v] = "waiting" /\ pc'[v] = "lock")
    BY <1>0, <1>5 DEF WakeSpuriously, At, Go, TypeOK
  <2>2. UNCHANGED << queue, current, scan >>
    BY <1>5 DEF WakeSpuriously
  <2> QED
    BY <2>1, <2>2, SerialStutter
<1>6. ASSUME Shutdown \/ PassMutex \/ UNCHANGED vars PROVE SerialStep
  <2>1. UNCHANGED << queue, current, scan, pc >>
    BY <1>6 DEF Shutdown, PassMutex, vars
  <2> QED
    BY <2>1, SerialStutter
<1>7. ASSUME NEW t \in Threads, Post(t) PROVE SerialStep
  BY <1>1, <1>3, <1>7, SerialPush DEF Post
<1> QED
  BY <1>4, <1>5, <1>6, <1>7, SerialWorker DEF Next

(* JobSystem implements SerialExecutor: the functions pinned to a worker   *)
(* are run one at a time and in the order of their pushes.                 *)
THEOREM Serialized == Spec => SerialExecution
<1>1. Init => Serial!Init
  <2>1. Contents(EmptyQueue) = << >>
    BY EmptyQueueType
  <2>2. Init => \A w \in Workers : Contents(queue[w][1]) = << >> /\ pc[w] # "run"
    BY <2>1 DEF Init
  <2> QED
    BY <2>2 DEF Serial!Init
<1>2. TypeInv /\ [Next]_vars => [Serial!Next]_<< Waiting, Active >>
  BY SerialNext DEF SerialStep
<1>3. Waiting = [w \in Workers |-> Contents(queue[w][1])]
  BY DEF Waiting
<1>4. Active = [w \in Workers |->
                  IF pc[w] = "run" /\ scan[w] = 1 THEN current[w] ELSE NoJob]
  BY DEF Active
<1> QED
  BY <1>1, <1>2, <1>3, <1>4, TypeInit, TypeStep, PTL
  DEF Spec, SerialExecution, Serial!Spec, Waiting, Active
-----------------------------------------------------------------------------
(* Where a job is: the lines of jobs that threads have yet to push, that    *)
(* queues hold and that workers run.                                       *)
Kinds == 0 .. 5
JobsOf(s) == [i \in 1 .. Len(s) |-> s[i].job]

\* The jobs thread t has yet to push.
Left(t) == JobsOf(IF stage[t] \in {"count", "notify"} THEN Tail(todo[t]) ELSE todo[t])

\* The lines of a thread: 0 to be pushed, 1 .. 4 queued, 5 the job it runs.
Line(x, s) ==
    IF s = 0 THEN Left(x)
    ELSE IF x \notin Workers THEN << >>
    ELSE IF s = 5 THEN (IF pc[x] = "run" THEN << current[x] >> ELSE << >>)
    ELSE Contents(queue[x][s])
Lines == [x \in Threads |-> [s \in Kinds |-> Line(x, s)]]

Tables == [Threads -> [Kinds -> Seq(Jobs)]]
Within(L, j) == \E x \in Threads, s \in Kinds : Occurs(j, L[x][s])
Beyond(L, j) == \E x \in Threads, s \in 1 .. 5 : Occurs(j, L[x][s])

\* No job outside D is in two places.
OnePlace(L, D) ==
    \A x, y \in Threads, s, u \in Kinds :
        \A i \in 1 .. Len(L[x][s]), k \in 1 .. Len(L[y][u]) :
            L[x][s][i] = L[y][u][k] /\ L[x][s][i] \notin D => x = y /\ s = u /\ i = k

\* M is L without the first job of a line, or with a job more behind it.
Dropped(L, M, x, s) == L[x][s] # << >> /\ M = [L EXCEPT ![x][s] = Tail(L[x][s])]
Added(L, M, x, s, j) == M = [L EXCEPT ![x][s] = Append(L[x][s], j)]
Filled(L, M, x, s, q) == L[x][s] = << >> /\ M = [L EXCEPT ![x][s] = q]

LEMMA OccursType ==
  ASSUME NEW S, NEW s \in Seq(S), NEW j, Occurs(j, s)
  PROVE  j \in S /\ s # << >>
<1>1. PICK i \in 1 .. Len(s) : s[i] = j
  BY DEF Occurs
<1>2. s # << >>
  BY <1>1
<1> QED
  BY <1>1, <1>2, ElementOfSeq

LEMMA OccursTail ==
  ASSUME NEW S, NEW s \in Seq(S), s # << >>, NEW j
  PROVE  /\ Tail(s) \in Seq(S) /\ Head(s) \in S /\ Occurs(Head(s), s)
         /\ Occurs(j, s) <=> j = Head(s) \/ Occurs(j, Tail(s))
         /\ Len(Tail(s)) = Len(s) - 1 /\ Len(s) \in Nat
         /\ \A i \in 1 .. Len(s) - 1 : Tail(s)[i] = s[i + 1]
<1>1. /\ Tail(s) \in Seq(S) /\ Head(s) \in S /\ Head(s) = s[1] /\ Len(s) \in Nat \ {0}
      /\ Len(Tail(s)) = Len(s) - 1
  BY HeadTailProperties
<1>2. \A i \in 1 .. Len(s) - 1 : Tail(s)[i] = s[i + 1]
  BY <1>1, HeadTailProperties
<1>3. ASSUME Occurs(j, s), j # Head(s) PROVE Occurs(j, Tail(s))
  <2>1. PICK i \in 1 .. Len(s) : s[i] = j
    BY <1>3 DEF Occurs
  <2>2. i # 1
    BY <1>1, <1>3, <2>1
  <2>3. PICK k \in 1 .. Len(s) - 1 : i = k + 1
    <3>1. i - 1 \in 1 .. Len(s) - 1 /\ i = (i - 1) + 1
      BY <1>1, <2>1, <2>2
    <3> QED
      BY <3>1
  <2>4. Tail(s)[k] = j
    BY <1>2, <2>1, <2>3
  <2> QED
    BY <1>1, <2>4 DEF Occurs
<1>4. ASSUME Occurs(j, Tail(s)) PROVE Occurs(j, s)
  <2>1. PICK i \in 1 .. Len(s) - 1 : Tail(s)[i] = j
    BY <1>1, <1>4 DEF Occurs
  <2>2. PICK k \in 1 .. Len(s) : k = i + 1
    BY <1>1
  <2>3. s[k] = j
    BY <1>2, <2>1, <2>2
  <2> QED
    BY <2>3 DEF Occurs
<1>5. Occurs(Head(s), s)
  BY <1>1 DEF Occurs
<1> QED
  BY <1>1, <1>2, <1>3, <1>4, <1>5

LEMMA OccursAppend ==
  ASSUME NEW S, NEW s \in Seq(S), NEW e \in S, NEW j
  PROVE  /\ Append(s, e) \in Seq(S) /\ Len(Append(s, e)) = Len(s) + 1 /\ Len(s) \in Nat
         /\ Occurs(j, Append(s, e)) <=> Occurs(j, s) \/ j = e
         /\ \A i \in 1 .. Len(s) : Append(s, e)[i] = s[i]
         /\ Append(s, e)[Len(s) + 1] = e
<1>1. /\ Append(s, e) \in Seq(S) /\ Len(Append(s, e)) = Len(s) + 1 /\ Len(s) \in Nat
      /\ Append(s, e)[Len(s) + 1] = e
  BY AppendProperties
<1>2. \A i \in 1 .. Len(s) : Append(s, e)[i] = s[i]
  BY AppendProperties
<1> QED
  BY <1>1, <1>2 DEF Occurs

LEMMA OccursNone == ASSUME NEW j PROVE ~Occurs(j, << >>)
  BY DEF Occurs

(* Taking the first job off a line.                                        *)
LEMMA DroppedEntries ==
  ASSUME NEW L \in Tables, NEW x \in Threads, NEW s \in Kinds, NEW M, Dropped(L, M, x, s)
  PROVE  /\ M \in Tables
         /\ \A y \in Threads, u \in Kinds :
                M[y][u] = IF y = x /\ u = s THEN Tail(L[x][s]) ELSE L[y][u]
         /\ L[x][s] \in Seq(Jobs) /\ L[x][s] # << >> /\ Head(L[x][s]) = L[x][s][1]
         /\ Head(L[x][s]) \in Jobs /\ Len(L[x][s]) \in Nat \ {0}
<1>1. L[x][s] \in Seq(Jobs) /\ L[x][s] # << >> /\ M = [L EXCEPT ![x][s] = Tail(L[x][s])]
  BY DEF Tables, Dropped
<1>2. /\ Tail(L[x][s]) \in Seq(Jobs) /\ Head(L[x][s]) \in Jobs
      /\ Head(L[x][s]) = L[x][s][1] /\ Len(L[x][s]) \in Nat \ {0}
  BY <1>1, HeadTailProperties
<1> QED
  BY <1>1, <1>2 DEF Tables

LEMMA DropPlaces ==
  ASSUME NEW L \in Tables, NEW x \in Threads, NEW s \in Kinds,
         NEW M, Dropped(L, M, x, s), NEW D, OnePlace(L, D)
  PROVE  /\ M \in Tables /\ OnePlace(M, D)
         /\ \A y \in Threads, u \in Kinds, j \in Jobs :
                /\ Occurs(j, M[y][u]) => Occurs(j, L[y][u])
                /\ Occurs(j, L[y][u]) /\ j # Head(L[x][s]) => Occurs(j, M[y][u])
         /\ Head(L[x][s]) \notin D => ~Within(M, Head(L[x][s]))
         /\ Head(L[x][s]) \in Jobs /\ Occurs(Head(L[x][s]), L[x][s])
<1> DEFINE h == Head(L[x][s])
           at(y, u, i) == IF y = x /\ u = s THEN i + 1 ELSE i
<1>1. /\ M \in Tables
      /\ \A y \in Threads, u \in Kinds :
             M[y][u] = IF y = x /\ u = s THEN Tail(L[x][s]) ELSE L[y][u]
      /\ L[x][s] \in Seq(Jobs) /\ L[x][s] # << >> /\ h = L[x][s][1]
      /\ h \in Jobs /\ Len(L[x][s]) \in Nat \ {0}
  BY DroppedEntries
<1>2. Occurs(h, L[x][s]) /\ Len(Tail(L[x][s])) = Len(L[x][s]) - 1
  BY <1>1, OccursTail
<1>4. ASSUME NEW y \in Threads, NEW u \in Kinds, NEW i \in 1 .. Len(M[y][u])
      PROVE  at(y, u, i) \in 1 .. Len(L[y][u]) /\ L[y][u][at(y, u, i)] = M[y][u][i]
  <2>1. CASE y = x /\ u = s
    <3>1. i \in 1 .. Len(L[x][s]) - 1 /\ M[y][u][i] = Tail(L[x][s])[i]
      BY <1>1, <1>2, <2>1
    <3>2. Tail(L[x][s])[i] = L[x][s][i + 1] /\ i + 1 \in 1 .. Len(L[x][s])
      BY <1>1, <3>1, OccursTail
    <3> QED
      BY <2>1, <3>1, <3>2
  <2>2. CASE ~(y = x /\ u = s)
    <3>1. M[y][u] = L[y][u]
      BY <1>1, <2>2
    <3> QED
      BY <2>2, <3>1
  <2> QED
    BY <2>1, <2>2
<1>5. OnePlace(M, D)
  <2>1. ASSUME NEW y \in Threads, NEW z \in Threads, NEW u \in Kinds, NEW v \in Kinds,
               NEW i \in 1 .. Len(M[y][u]), NEW k \in 1 .. Len(M[z][v]),
               M[y][u][i] = M[z][v][k], M[y][u][i] \notin D
        PROVE  y = z /\ u = v /\ i = k
    <3>1. PICK n \in 1 .. Len(L[y][u]) : L[y][u][n] = M[y][u][i] /\ n = at(y, u, i)
      BY <1>4
    <3>2. PICK m \in 1 .. Len(L[z][v]) : L[z][v][m] = M[z][v][k] /\ m = at(z, v, k)
      BY <1>4
    <3>4. L[y][u][n] = L[z][v][m] /\ L[y][u][n] \notin D
      BY <2>1, <3>1, <3>2
    <3>3. y = z /\ u = v /\ n = m
      BY <3>4 DEF OnePlace
    <3> QED
      BY <3>1, <3>2, <3>3
  <2> QED
    BY <2>1 DEF OnePlace
<1>6. ASSUME NEW y \in Threads, NEW u \in Kinds, NEW j \in Jobs
      PROVE  /\ Occurs(j, M[y][u]) => Occurs(j, L[y][u])
             /\ Occurs(j, L[y][u]) /\ j # h => Occurs(j, M[y][u])
  <2>1. CASE y = x /\ u = s
    <3>1. Occurs(j, L[x][s]) <=> j = h \/ Occurs(j, Tail(L[x][s]))
      BY <1>1, OccursTail
    <3> QED
      BY <1>1, <2>1, <3>1
  <2>2. CASE ~(y = x /\ u = s)
    BY <1>1, <2>2
  <2> QED
    BY <2>1, <2>2
<1>7. ASSUME h \notin D, Within(M, h) PROVE FALSE
  <2>1. PICK y \in Threads, u \in Kinds : Occurs(h, M[y][u])
    BY <1>7 DEF Within
  <2>2. PICK i \in 1 .. Len(M[y][u]) : M[y][u][i] = h
    BY <2>1 DEF Occurs
  <2>3. PICK n \in 1 .. Len(L[y][u]) : L[y][u][n] = M[y][u][i] /\ n = at(y, u, i)
    BY <1>4
  <2>4. PICK one \in 1 .. Len(L[x][s]) : one = 1
    BY <1>1
  <2>5. y = x /\ u = s /\ n = one
    BY <1>1, <1>7, <2>2, <2>3, <2>4 DEF OnePlace
  <2> QED
    BY <2>2, <2>3, <2>4, <2>5
<1> QED
  BY <1>1, <1>2, <1>5, <1>6, <1>7

LEMMA AddedEntries ==
  ASSUME NEW L \in Tables, NEW x \in Threads, NEW s \in Kinds, NEW j \in Jobs,
         NEW M, Added(L, M, x, s, j)
  PROVE  /\ M \in Tables
         /\ \A y \in Threads, u \in Kinds :
                M[y][u] = IF y = x /\ u = s THEN Append(L[x][s], j) ELSE L[y][u]
<1>1. /\ L[x][s] \in Seq(Jobs) /\ M = [L EXCEPT ![x][s] = Append(L[x][s], j)]
  BY DEF Tables, Added
<1>2. Append(L[x][s], j) \in Seq(Jobs)
  BY <1>1, AppendProperties
<1> QED
  BY <1>1, <1>2 DEF Tables

(* Adding a job behind a line, when it has no place.                       *)
LEMMA AddPlaces ==
  ASSUME NEW L \in Tables, NEW x \in Threads, NEW s \in Kinds, NEW j \in Jobs,
         NEW M, Added(L, M, x, s, j), NEW D, OnePlace(L, D), j \in D \/ ~Within(L, j)
  PROVE  /\ M \in Tables /\ OnePlace(M, D)
         /\ \A y \in Threads, u \in Kinds, i \in Jobs :
                Occurs(i, M[y][u]) <=> Occurs(i, L[y][u]) \/ (i = j /\ y = x /\ u = s)
<1>1. /\ L[x][s] \in Seq(Jobs) /\ M = [L EXCEPT ![x][s] = Append(L[x][s], j)]
  BY DEF Tables, Added
<1>2. /\ Append(L[x][s], j) \in Seq(Jobs) /\ Len(L[x][s]) \in Nat
      /\ Len(Append(L[x][s], j)) = Len(L[x][s]) + 1
      /\ \A i \in 1 .. Len(L[x][s]) : Append(L[x][s], j)[i] = L[x][s][i]
      /\ Append(L[x][s], j)[Len(L[x][s]) + 1] = j
  BY <1>1, OccursAppend
<1>3. M \in Tables
  BY <1>1, <1>2 DEF Tables
<1>4. \A y \in Threads, u \in Kinds :
          M[y][u] = IF y = x /\ u = s THEN Append(L[x][s], j) ELSE L[y][u]
  BY <1>1, <1>2 DEF Tables
<1>5. ASSUME NEW y \in Threads, NEW u \in Kinds, NEW i \in Jobs
      PROVE  Occurs(i, M[y][u]) <=> Occurs(i, L[y][u]) \/ (i = j /\ y = x /\ u = s)
  <2>1. CASE y = x /\ u = s
    BY <1>1, <1>4, <2>1, OccursAppend
  <2>2. CASE ~(y = x /\ u = s)
    BY <1>4, <2>2
  <2> QED
    BY <2>1, <2>2
<1>6. ASSUME NEW y \in Threads, NEW u \in Kinds, NEW i \in 1 .. Len(M[y][u])
      PROVE  \/ i \in 1 .. Len(L[y][u]) /\ L[y][u][i] = M[y][u][i]
             \/ y = x /\ u = s /\ i = Len(L[x][s]) + 1 /\ M[y][u][i] = j
  <2>1. CASE y = x /\ u = s
    <3>1. M[y][u] = Append(L[x][s], j)
      BY <1>4, <2>1
    <3>2. i \in 1 .. Len(L[x][s]) \/ i = Len(L[x][s]) + 1
      BY <1>2, <3>1
    <3> QED
      BY <1>2, <2>1, <3>1, <3>2
  <2>2. CASE ~(y = x /\ u = s)
    BY <1>4, <2>2
  <2> QED
    BY <2>1, <2>2
<1>7. ASSUME NEW y \in Threads, NEW u \in Kinds, NEW i \in 1 .. Len(L[y][u]),
             L[y][u][i] = j
      PROVE  j \in D
  BY <1>7 DEF Within, Occurs
<1>8. OnePlace(M, D)
  <2>1. ASSUME NEW y \in Threads, NEW z \in Threads, NEW u \in Kinds, NEW v \in Kinds,
               NEW i \in 1 .. Len(M[y][u]), NEW k \in 1 .. Len(M[z][v]),
               M[y][u][i] = M[z][v][k], M[y][u][i] \notin D
        PROVE  y = z /\ u = v /\ i = k
    <3>1. CASE M[y][u][i] = j
      <4>1. y = x /\ u = s /\ i = Len(L[x][s]) + 1
        BY <1>6, <1>7, <2>1, <3>1
      <4>3. M[z][v][k] = j /\ j \notin D
        BY <2>1, <3>1
      <4>2. z = x /\ v = s /\ k = Len(L[x][s]) + 1
        BY <1>6, <1>7, <4>3
      <4> QED
        BY <4>1, <4>2
    <3>2. CASE M[y][u][i] # j
      <4>1. i \in 1 .. Len(L[y][u]) /\ L[y][u][i] = M[y][u][i]
        BY <1>6, <3>2
      <4>2. k \in 1 .. Len(L[z][v]) /\ L[z][v][k] = M[z][v][k]
        BY <1>6, <2>1, <3>2
      <4>3. L[y][u][i] = L[z][v][k] /\ L[y][u][i] \notin D
        BY <2>1, <4>1, <4>2
      <4> QED
        BY <4>1, <4>2, <4>3 DEF OnePlace
    <3> QED
      BY <3>1, <3>2
  <2> QED
    BY <2>1 DEF OnePlace
<1> QED
  BY <1>3, <1>5, <1>8

(* Putting several jobs, all new, in an empty line.                        *)
LEMMA FillPlaces ==
  ASSUME NEW L \in Tables, NEW x \in Threads, NEW s \in Kinds, NEW q \in Seq(Jobs),
         NEW M, Filled(L, M, x, s, q), NEW D, OnePlace(L, D), Distinct(q),
         \A j \in Jobs : Occurs(j, q) => ~Within(L, j)
  PROVE  /\ M \in Tables /\ OnePlace(M, D)
         /\ \A y \in Threads, u \in Kinds, i \in Jobs :
                Occurs(i, M[y][u]) <=> Occurs(i, L[y][u]) \/ (Occurs(i, q) /\ y = x /\ u = s)
<1>1. M \in Tables /\ L[x][s] = << >>
  BY DEF Tables, Filled
<1>2. \A y \in Threads, u \in Kinds : M[y][u] = IF y = x /\ u = s THEN q ELSE L[y][u]
  BY DEF Tables, Filled
<1>3. ASSUME NEW y \in Threads, NEW u \in Kinds, NEW i \in Jobs
      PROVE  Occurs(i, M[y][u]) <=> Occurs(i, L[y][u]) \/ (Occurs(i, q) /\ y = x /\ u = s)
  BY <1>1, <1>2, OccursNone
<1>4. ASSUME NEW y \in Threads, NEW u \in Kinds, NEW i \in 1 .. Len(L[y][u])
      PROVE  ~Occurs(L[y][u][i], q)
  <2>1. L[y][u] \in Seq(Jobs) /\ Occurs(L[y][u][i], L[y][u])
    BY DEF Tables, Occurs
  <2>2. PICK j \in Jobs : j = L[y][u][i]
    BY <2>1, ElementOfSeq
  <2> QED
    BY <2>1, <2>2 DEF Within
<1>5. OnePlace(M, D)
  <2>1. ASSUME NEW y \in Threads, NEW z \in Threads, NEW u \in Kinds, NEW v \in Kinds,
               NEW i \in 1 .. Len(M[y][u]), NEW k \in 1 .. Len(M[z][v]),
               M[y][u][i] = M[z][v][k], M[y][u][i] \notin D
        PROVE  y = z /\ u = v /\ i = k
    <3>1. CASE y = x /\ u = s
      <4>1. M[y][u] = q /\ Occurs(M[y][u][i], q)
        BY <1>2, <3>1 DEF Occurs
      <4>2. z = x /\ v = s
        BY <1>2, <1>4, <2>1, <4>1
      <4>3. M[z][v] = q
        BY <1>2, <4>2
      <4> QED
        BY <2>1, <3>1, <4>1, <4>2, <4>3 DEF Distinct
    <3>2. CASE z = x /\ v = s
      <4>1. M[z][v] = q /\ Occurs(M[z][v][k], q)
        BY <1>2, <3>2 DEF Occurs
      <4>2. y = x /\ u = s
        BY <1>2, <1>4, <2>1, <4>1
      <4> QED
        BY <3>1, <4>2
    <3>3. CASE ~(y = x /\ u = s) /\ ~(z = x /\ v = s)
      <4>1. M[y][u] = L[y][u] /\ M[z][v] = L[z][v]
        BY <1>2, <3>3
      <4> QED
        BY <2>1, <4>1 DEF OnePlace
    <3> QED
      BY <3>1, <3>2, <3>3
  <2> QED
    BY <2>1 DEF OnePlace
<1> QED
  BY <1>1, <1>3, <1>5

LEMMA MoreDone ==
  ASSUME NEW L, NEW D, NEW E, D \subseteq E, OnePlace(L, D) PROVE OnePlace(L, E)
  BY DEF OnePlace

(* A job that leaves one line for the end of another.                      *)
LEMMA MovePlaces ==
  ASSUME NEW L \in Tables, NEW x \in Threads, NEW s \in Kinds, NEW y \in Threads, NEW u \in Kinds,
         NEW M, Dropped(L, M, x, s), NEW N, Added(M, N, y, u, Head(L[x][s])),
         NEW D, OnePlace(L, D)
  PROVE  /\ N \in Tables /\ OnePlace(N, D)
         /\ \A i \in Jobs : Within(N, i) <=> Within(L, i)
         /\ \A z \in Threads, v \in Kinds, i \in Jobs :
                Occurs(i, N[z][v]) => \/ Occurs(i, L[z][v])
                                      \/ i = Head(L[x][s]) /\ z = y /\ v = u
<1> DEFINE h == Head(L[x][s])
<1>1. /\ M \in Tables /\ OnePlace(M, D)
      /\ \A z \in Threads, v \in Kinds, i \in Jobs :
             /\ Occurs(i, M[z][v]) => Occurs(i, L[z][v])
             /\ Occurs(i, L[z][v]) /\ i # h => Occurs(i, M[z][v])
      /\ h \notin D => ~Within(M, h)
      /\ h \in Jobs /\ Occurs(h, L[x][s])
  BY DropPlaces
<1>2. /\ N \in Tables /\ OnePlace(N, D)
      /\ \A z \in Threads, v \in Kinds, i \in Jobs :
             Occurs(i, N[z][v]) <=> Occurs(i, M[z][v]) \/ (i = h /\ z = y /\ v = u)
  <2> HIDE DEF h
  <2>1. Added(M, N, y, u, h)
    BY DEF h
  <2> QED
    BY <1>1, <2>1, AddPlaces
<1>3. ASSUME NEW i \in Jobs PROVE Within(N, i) <=> Within(L, i)
  <2>1. CASE i = h
    BY <1>1, <1>2, <2>1 DEF Within
  <2>2. CASE i # h
    BY <1>1, <1>2, <2>2 DEF Within
  <2> QED
    BY <2>1, <2>2
<1> QED
  BY <1>1, <1>2, <1>3
-----------------------------------------------------------------------------
(* How the steps change the lines.                                         *)
LEMMA LeftType ==
  ASSUME TypeInv, NEW t \in Threads
  PROVE  /\ Left(t) \in Seq(Jobs)
         /\ stage[t] \notin {"count", "notify"} =>
                /\ Len(Left(t)) = Len(todo[t]) /\ Len(todo[t]) \in Nat
                /\ \A i \in 1 .. Len(todo[t]) : Left(t)[i] = todo[t][i].job
<1> DEFINE s == IF stage[t] \in {"count", "notify"} THEN Tail(todo[t]) ELSE todo[t]
<1>1. s \in Seq(Postings)
  BY HeadPosting DEF TypeInv, TypeOK, Staged
<1>2. Left(t) = JobsOf(s)
  BY DEF Left
<1>3. JobsOf(s) \in Seq(Jobs) /\ Len(JobsOf(s)) = Len(s)
      /\ \A i \in 1 .. Len(s) : JobsOf(s)[i] = s[i].job
  <2> HIDE DEF s
  <2>1. \A i \in 1 .. Len(s) : s[i].job \in Jobs
    <3>1. \A i \in 1 .. Len(s) : s[i] \in Postings
      BY <1>1, ElementOfSeq
    <3> QED
      BY <3>1 DEF Postings
  <2>2. Len(s) \in Nat
    BY <1>1, LenProperties
  <2> QED
    BY <2>1, <2>2, IsASeq DEF JobsOf
<1>4. stage[t] \notin {"count", "notify"} => s = todo[t]
  OBVIOUS
<1>5. Len(s) \in Nat
  BY <1>1, LenProperties
<1> HIDE DEF s
<1> QED
  BY <1>2, <1>3, <1>4, <1>5

LEMMA JobsOfTail ==
  ASSUME NEW s \in Seq(Postings), s # << >>
  PROVE  /\ JobsOf(s) # << >> /\ Head(JobsOf(s)) = Head(s).job
         /\ JobsOf(Tail(s)) = Tail(JobsOf(s))
<1>1. /\ Len(s) \in Nat \ {0} /\ Head(s) = s[1] /\ Tail(s) \in Seq(Postings)
      /\ Len(Tail(s)) = Len(s) - 1
  BY HeadTailProperties
<1>2. ASSUME NEW q \in Seq(Postings)
      PROVE  /\ JobsOf(q) \in Seq(Jobs) /\ Len(JobsOf(q)) = Len(q)
             /\ \A i \in 1 .. Len(q) : JobsOf(q)[i] = q[i].job
  <2>1. \A i \in 1 .. Len(q) : q[i] \in Postings
    BY ElementOfSeq
  <2>2. \A i \in 1 .. Len(q) : q[i].job \in Jobs
    BY <2>1 DEF Postings
  <2>3. Len(q) \in Nat
    BY LenProperties
  <2> QED
    BY <2>2, <2>3, IsASeq DEF JobsOf
<1>3. PICK a \in Seq(Jobs) : a = JobsOf(s)
  BY <1>2
<1>4. PICK b \in Seq(Jobs) : b = JobsOf(Tail(s))
  BY <1>1, <1>2
<1>5. Len(a) = Len(s) /\ a # << >> /\ Head(a) = s[1].job
  <2>1. Len(a) = Len(s) /\ a[1] = s[1].job
    BY <1>1, <1>2, <1>3
  <2>2. a # << >>
    BY <1>1, <2>1
  <2> QED
    BY <2>1, <2>2, HeadTailProperties
<1>6. b = Tail(a)
  <2>1. /\ Tail(a) \in Seq(Jobs) /\ Len(Tail(a)) = Len(s) - 1
        /\ \A i \in 1 .. Len(s) - 1 : Tail(a)[i] = a[i + 1]
    BY <1>5, OccursTail
  <2>2. Len(b) = Len(s) - 1 /\ \A i \in 1 .. Len(s) - 1 : b[i] = Tail(s)[i].job
    BY <1>1, <1>2, <1>4
  <2>3. ASSUME NEW i \in 1 .. Len(s) - 1 PROVE b[i] = Tail(a)[i]
    <3>1. PICK n \in 1 .. Len(s) : n = i + 1
      BY <1>1
    <3>2. Tail(s)[i] = s[n]
      BY <1>1, <3>1, OccursTail
    <3>3. a[n] = s[n].job
      BY <1>2, <1>3
    <3> QED
      BY <2>1, <2>2, <3>1, <3>2, <3>3
  <2> QED
    BY <2>1, <2>2, <2>3, SeqEqual
<1> QED
  BY <1>1, <1>3, <1>4, <1>5, <1>6

LinesAre ==
    /\ Lines \in Tables
    /\ \A x \in Threads, s \in Kinds : Lines[x][s] = Line(x, s)

LEMMA LinesType == TypeInv => LinesAre
<1> SUFFICES ASSUME TypeInv PROVE LinesAre
  OBVIOUS
<1>1. ASSUME NEW x \in Threads, NEW s \in Kinds PROVE Line(x, s) \in Seq(Jobs)
  <2>1. CASE s = 0
    BY <2>1, LeftType DEF Line
  <2>2. CASE s # 0 /\ x \notin Workers
    BY <2>2, EmptySeq DEF Line
  <2>3. CASE s = 5 /\ x \in Workers
    <3>1. pc[x] = "run" => current[x] \in Jobs
      BY <2>3 DEF TypeInv, Running
    <3>2. CASE pc[x] = "run"
      <4>1. << current[x] >> \in Seq(Jobs)
        BY <3>1, <3>2
      <4> QED
        BY <2>3, <3>2, <4>1 DEF Line
    <3>3. CASE pc[x] # "run"
      BY <2>3, <3>3, EmptySeq DEF Line
    <3> QED
      BY <3>2, <3>3
  <2>4. CASE s # 0 /\ s # 5 /\ x \in Workers
    <3>1. s \in 1 .. 4
      BY <2>4 DEF Kinds
    <3>2. queue[x][s] \in Queue(Jobs)
      BY <2>4, <3>1, QueueTypes DEF TypeInv
    <3>3. Contents(queue[x][s]) \in Seq(Jobs)
      BY <3>2, ConcatProperties DEF Contents, Queue
    <3> QED
      BY <2>4, <3>3 DEF Line
  <2> QED
    BY <2>1, <2>2, <2>3, <2>4
<1>2. Lines = [x \in Threads |-> [s \in Kinds |-> Line(x, s)]]
  BY DEF Lines, Kinds
<1> HIDE DEF Lines
<1> QED
  BY <1>1, <1>2 DEF Tables, LinesAre

LEMMA LinesAfter == ASSUME TypeInv' PROVE LinesAre'
<1>1. TypeInv' => LinesAre'
  BY LinesType, PTL
<1> QED
  BY <1>1

LEMMA TablesEqual ==
  ASSUME NEW L \in Tables, NEW M \in Tables,
         \A x \in Threads, s \in Kinds : L[x][s] = M[x][s]
  PROVE  L = M
<1>1. ASSUME NEW x \in Threads PROVE L[x] = M[x]
  <2>1. L[x] \in [Kinds -> Seq(Jobs)] /\ M[x] \in [Kinds -> Seq(Jobs)]
    BY DEF Tables
  <2> QED
    BY <2>1
<1>2. L \in [Threads -> [Kinds -> Seq(Jobs)]] /\ M \in [Threads -> [Kinds -> Seq(Jobs)]]
  BY DEF Tables
<1> QED
  BY <1>1, <1>2

(* Most steps move no job.                                                 *)
LEMMA SameLines ==
  ASSUME TypeInv, TypeInv', queue' = queue, \A t \in Threads : Left(t)' = Left(t),
         \A w \in Workers : /\ pc'[w] = "run" <=> pc[w] = "run"
                            /\ pc[w] = "run" => current'[w] = current[w]
  PROVE  Lines' = Lines
<1>1. LinesAre /\ LinesAre'
  BY LinesType, LinesAfter
<1>2. ASSUME NEW x \in Threads, NEW s \in Kinds PROVE Line(x, s)' = Line(x, s)
  BY DEF Line
<1> QED
  BY <1>1, <1>2, TablesEqual DEF LinesAre

(* A push moves the first job a thread has to push to a queue.             *)
LEMMA PushLines ==
  ASSUME TypeInv, TypeInv', NEW t \in Threads, Push(t)
  PROVE  \E y \in Threads, u \in 1 .. 4, M \in Tables :
             /\ Dropped(Lines, M, t, 0) /\ Head(Lines[t][0]) = Head(todo[t]).job
             /\ Added(M, Lines', y, u, Head(Lines[t][0]))
<1>1. LinesAre /\ LinesAre' /\ TypeOK /\ 0 \in Kinds
  BY LinesType, LinesAfter DEF TypeInv, Kinds
<1>2. PICK y \in Workers : y = target[t]
  BY <1>1 DEF TypeOK
<1>3. PICK u \in 1 .. 4 : u = QueueIndex(Head(todo[t]).job)
  BY QueueIndexType
<1>4. PICK j \in Jobs : j = Head(todo[t]).job
  BY HeadPosting DEF TypeInv, Staged, Push
<1>5. /\ stage[t] = "push" /\ stage' = [stage EXCEPT ![t] = "count"]
      /\ queue' = [queue EXCEPT ![y][u] = PushBack(queue[y][u], j)]
      /\ UNCHANGED << todo, pc, current >>
  BY <1>2, <1>3, <1>4 DEF Push
<1>6. todo[t] \in Seq(Postings) /\ todo[t] # << >>
  BY <1>1, <1>5 DEF TypeInv, Staged, TypeOK
<1>7. Lines[t][0] = JobsOf(todo[t]) /\ Lines'[t][0] = JobsOf(Tail(todo[t]))
  <2>1. Lines[t][0] = Line(t, 0) /\ Lines'[t][0] = Line(t, 0)'
    BY <1>1 DEF LinesAre
  <2>2. stage'[t] = "count" /\ todo' = todo
    BY <1>1, <1>5 DEF TypeOK
  <2> QED
    BY <1>5, <2>1, <2>2 DEF Line, Left
<1>8. /\ JobsOf(todo[t]) # << >> /\ Head(JobsOf(todo[t])) = j
      /\ JobsOf(Tail(todo[t])) = Tail(JobsOf(todo[t]))
  BY <1>4, <1>6, JobsOfTail
<1> DEFINE M == [Lines EXCEPT ![t][0] = Tail(Lines[t][0])]
           N == [M EXCEPT ![y][u] = Append(M[y][u], j)]
<1>9. Dropped(Lines, M, t, 0) /\ Added(M, N, y, u, j) /\ Head(Lines[t][0]) = j
  BY <1>7, <1>8 DEF Dropped, Added
<1>10. y \in Threads /\ u \in Kinds /\ u # 0
  BY DEF Threads, Kinds
<1>11. M \in Tables
  BY <1>1, <1>9, DroppedEntries DEF LinesAre
<1>12. N \in Tables /\ \A x \in Threads, s \in Kinds : Lines'[x][s] = N[x][s]
  <2> HIDE DEF M, N
  <2>1. \A x \in Threads, s \in Kinds :
            M[x][s] = IF x = t /\ s = 0 THEN Tail(Lines[t][0]) ELSE Lines[x][s]
    BY <1>1, <1>9, DroppedEntries DEF LinesAre
  <2>2. /\ N \in Tables
        /\ \A x \in Threads, s \in Kinds :
               N[x][s] = IF x = y /\ s = u THEN Append(M[y][u], j) ELSE M[x][s]
    BY <1>9, <1>10, <1>11, AddedEntries
  <2>3. ASSUME NEW x \in Threads, NEW s \in Kinds PROVE Lines'[x][s] = N[x][s]
    <3>1. Lines'[x][s] = Line(x, s)' /\ Lines[x][s] = Line(x, s)
      BY <1>1 DEF LinesAre
    <3>2. CASE s = 0
      <4>1. CASE x = t
        BY <1>7, <1>8, <1>10, <2>1, <2>2, <3>2, <4>1
      <4>2. CASE x # t
        <5>1. stage'[x] = stage[x] /\ todo'[x] = todo[x]
          BY <1>1, <1>5, <4>2 DEF TypeOK
        <5>2. Line(x, s)' = Line(x, s)
          BY <3>2, <5>1 DEF Line, Left
        <5> QED
          BY <1>10, <2>1, <2>2, <3>1, <3>2, <4>2, <5>2
      <4> QED
        BY <4>1, <4>2
    <3>3. CASE x = y /\ s = u
      <4>1. queue[y][u] \in Queue(Jobs)
        BY <1>1, QueueTypes
      <4>2. queue'[y][u] = PushBack(queue[y][u], j)
        <5>1. queue \in [Workers -> [1 .. 4 -> Queue(Jobs)]]
          BY <1>1 DEF TypeOK, Queue
        <5> QED
          BY <1>5, <5>1
      <4>3. Contents(queue'[y][u]) = Append(Contents(queue[y][u]), j)
        BY <4>1, <4>2, PushBackAppends
      <4>4. Line(x, s)' = Append(Line(x, s), j)
        BY <1>10, <3>3, <4>3 DEF Line
      <4>5. M[y][u] = Line(x, s)
        BY <1>10, <2>1, <3>1, <3>3
      <4> QED
        BY <2>2, <3>1, <3>3, <4>4, <4>5
    <3>4. CASE s # 0 /\ ~(x = y /\ s = u)
      <4>1. x \in Workers /\ s \in 1 .. 4 => queue'[x][s] = queue[x][s]
        <5>1. queue \in [Workers -> [1 .. 4 -> Queue(Jobs)]]
          BY <1>1 DEF TypeOK, Queue
        <5> QED
          BY <1>5, <3>4, <5>1
      <4>2. s = 5 \/ s \in 1 .. 4
        BY <3>4 DEF Kinds
      <4>3. Line(x, s)' = Line(x, s)
        BY <1>5, <3>4, <4>1, <4>2 DEF Line
      <4> QED
        BY <2>1, <2>2, <3>1, <3>4, <4>3
    <3> QED
      BY <3>2, <3>3, <3>4
  <2> QED
    BY <2>2, <2>3
<1>13. Lines' = N
  <2> HIDE DEF M, N
  <2> QED
    BY <1>1, <1>12, TablesEqual DEF LinesAre
<1>14. Added(M, Lines', y, u, Head(Lines[t][0]))
  BY <1>9, <1>13
<1> HIDE DEF M, N
<1> QED
  BY <1>4, <1>9, <1>10, <1>11, <1>14

(* A worker that takes a job moves it from a queue to itself.              *)
LEMMA TakeLines ==
  ASSUME TypeInv, TypeInv', NEW w \in Workers, TakeJob(w)
  PROVE  \E k \in 1 .. 4, M \in Tables :
             /\ Dropped(Lines, M, w, k)
             /\ Added(M, Lines', w, 5, Head(Lines[w][k]))
<1>1. LinesAre /\ LinesAre' /\ TypeOK /\ 5 \in Kinds /\ w \in Threads
  BY LinesType, LinesAfter DEF TypeInv, Kinds, Threads
<1>2. PICK k \in 1 .. 4 : k = scan[w]
  BY <1>1 DEF TypeOK
<1>3. k \in Kinds /\ k # 5 /\ k # 0
  BY DEF Kinds
<1>4. /\ pc[w] = "scan" /\ CanPop(queue[w][k]) /\ queue[w][k] \in Queue(Jobs)
      /\ current' = [current EXCEPT ![w] = Front(queue[w][k])]
      /\ queue' = [queue EXCEPT ![w][k] = PopFront(queue[w][k])]
      /\ pc' = [pc EXCEPT ![w] = "run"] /\ UNCHANGED << todo, stage >>
  BY <1>1, <1>2, QueueTypes DEF TakeJob, At, Go, posting
<1>5. PICK j \in Jobs : j = Front(queue[w][k])
  BY <1>4, PopFrontTakesHead
<1>6. /\ Lines[w][k] = Contents(queue[w][k]) /\ Contents(queue[w][k]) # << >>
      /\ j = Head(Lines[w][k]) /\ Contents(PopFront(queue[w][k])) = Tail(Lines[w][k])
  <2>1. Lines[w][k] = Contents(queue[w][k])
    BY <1>1, <1>3 DEF LinesAre, Line
  <2> QED
    BY <1>4, <1>5, <2>1, PopFrontTakesHead
<1>7. /\ pc'[w] = "run" /\ current'[w] = j /\ queue'[w][k] = PopFront(queue[w][k])
      /\ \A x \in Workers, s \in 1 .. 4 : ~(x = w /\ s = k) => queue'[x][s] = queue[x][s]
      /\ \A x \in Workers : x # w => pc'[x] = pc[x] /\ current'[x] = current[x]
  <2>1. queue \in [Workers -> [1 .. 4 -> Queue(Jobs)]]
    BY <1>1 DEF TypeOK, Queue
  <2>2. pc'[w] = "run" /\ current'[w] = j
    BY <1>1, <1>4, <1>5 DEF TypeOK
  <2>3. \A x \in Workers : x # w => pc'[x] = pc[x] /\ current'[x] = current[x]
    BY <1>1, <1>4 DEF TypeOK
  <2> QED
    BY <1>4, <2>1, <2>2, <2>3
<1> DEFINE M == [Lines EXCEPT ![w][k] = Tail(Lines[w][k])]
           N == [M EXCEPT ![w][5] = Append(M[w][5], j)]
<1>8. Dropped(Lines, M, w, k) /\ Added(M, N, w, 5, j)
  BY <1>6 DEF Dropped, Added
<1>9. M \in Tables
  BY <1>1, <1>3, <1>8, DroppedEntries DEF LinesAre
<1>10. N \in Tables /\ \A x \in Threads, s \in Kinds : Lines'[x][s] = N[x][s]
  <2> HIDE DEF M, N
  <2>1. \A x \in Threads, s \in Kinds :
            M[x][s] = IF x = w /\ s = k THEN Tail(Lines[w][k]) ELSE Lines[x][s]
    <3>1. Lines \in Tables
      BY <1>1 DEF LinesAre
    <3>2. PICK L \in Tables : L = Lines
      BY <3>1
    <3>3. Dropped(L, M, w, k)
      BY <1>8, <3>2
    <3>4. \A x \in Threads, s \in Kinds :
              M[x][s] = IF x = w /\ s = k THEN Tail(L[w][k]) ELSE L[x][s]
      BY <1>1, <1>3, <3>3, DroppedEntries
    <3> QED
      BY <3>2, <3>4
  <2>2. /\ N \in Tables
        /\ \A x \in Threads, s \in Kinds :
               N[x][s] = IF x = w /\ s = 5 THEN Append(M[w][5], j) ELSE M[x][s]
    BY <1>1, <1>8, <1>9, AddedEntries
  <2>3. ASSUME NEW x \in Threads, NEW s \in Kinds PROVE Lines'[x][s] = N[x][s]
    <3>1. Lines'[x][s] = Line(x, s)' /\ Lines[x][s] = Line(x, s)
      BY <1>1 DEF LinesAre
    <3>2. CASE x = w /\ s = 5
      <4>1. Line(x, s)' = << j >> /\ Line(x, s) = << >>
        BY <1>4, <1>7, <3>2 DEF Line
      <4>2. M[w][5] = << >>
        BY <1>1, <1>3, <2>1, <3>1, <3>2, <4>1
      <4>3. Append(<< >>, j) = << j >>
        OBVIOUS
      <4> QED
        BY <2>2, <3>1, <3>2, <4>1, <4>2, <4>3
    <3>3. CASE x = w /\ s = k
      <4>1. Line(x, s)' = Contents(queue'[w][k])
        BY <1>3, <3>3 DEF Line
      <4>2. M[w][k] = Tail(Lines[w][k])
        BY <1>1, <1>3, <2>1
      <4>3. N[w][k] = M[w][k]
        BY <1>1, <1>3, <2>2
      <4>4. Line(x, s)' = Tail(Lines[w][k])
        BY <1>6, <1>7, <4>1
      <4> QED
        BY <3>1, <3>3, <4>2, <4>3, <4>4
    <3>4. CASE ~(x = w /\ s = 5) /\ ~(x = w /\ s = k)
      <4>1. s = 0 \/ s = 5 \/ s \in 1 .. 4
        BY DEF Kinds
      <4>2. CASE s = 0
        BY <1>4, <2>1, <2>2, <3>1, <3>4, <4>2 DEF Line, Left
      <4>3. CASE s = 5
        <5>1. Line(x, s)' = Line(x, s)
          BY <1>7, <3>4, <4>3 DEF Line
        <5> QED
          BY <2>1, <2>2, <3>1, <3>4, <5>1
      <4>4. CASE s \in 1 .. 4
        <5>1. x \in Workers => queue'[x][s] = queue[x][s]
          BY <1>7, <3>4, <4>4
        <5>2. s # 0 /\ s # 5
          BY <4>4
        <5>3. Line(x, s)' = Line(x, s)
          BY <5>1, <5>2 DEF Line
        <5> QED
          BY <2>1, <2>2, <3>1, <3>4, <5>3
      <4> QED
        BY <4>1, <4>2, <4>3, <4>4
    <3> QED
      BY <3>2, <3>3, <3>4
  <2> QED
    BY <2>2, <2>3
<1>11. Lines' = N
  <2> HIDE DEF M, N
  <2> QED
    BY <1>1, <1>10, TablesEqual DEF LinesAre
<1>12. Added(M, Lines', w, 5, Head(Lines[w][k]))
  BY <1>6, <1>8, <1>11
<1> HIDE DEF M, N
<1> QED
  BY <1>8, <1>9, <1>12

(* A worker that leaves its job drops it, and may have jobs to post.       *)
LEMMA LeaveLines ==
  ASSUME TypeInv, TypeInv', NEW w \in Workers, At(w, "run"), pc' = [pc EXCEPT ![w] = "check"],
         UNCHANGED << queue, current, stage >>,
         NEW q \in Seq(Postings), todo' = [todo EXCEPT ![w] = q]
  PROVE  \E M \in Tables :
             /\ Dropped(Lines, M, w, 5) /\ Head(Lines[w][5]) = current[w]
             /\ Filled(M, Lines', w, 0, JobsOf(q))
<1>1. /\ LinesAre /\ LinesAre' /\ TypeOK /\ 5 \in Kinds /\ 0 \in Kinds /\ w \in Threads
      /\ pc[w] = "run" /\ todo[w] = << >> /\ stage[w] = "add"
  BY LinesType, LinesAfter, AtType DEF TypeInv, Kinds, Threads
<1>2. /\ Lines[w][5] = << current[w] >> /\ Lines[w][0] = JobsOf(<< >>)
      /\ Lines'[w][5] = << >> /\ Lines'[w][0] = JobsOf(q)
  <2>1. Lines[w][5] = Line(w, 5) /\ Lines[w][0] = Line(w, 0)
    BY <1>1 DEF LinesAre
  <2>2. Lines'[w][5] = Line(w, 5)' /\ Lines'[w][0] = Line(w, 0)'
    BY <1>1 DEF LinesAre
  <2>3. pc'[w] = "check" /\ todo'[w] = q /\ stage'[w] = "add"
    BY <1>1 DEF TypeOK
  <2>4. Line(w, 5) = << current[w] >> /\ Line(w, 0) = JobsOf(<< >>)
    BY <1>1 DEF Line, Left
  <2>5. Line(w, 5)' = << >> /\ Line(w, 0)' = JobsOf(q)
    BY <2>3 DEF Line, Left
  <2> QED
    BY <2>1, <2>2, <2>4, <2>5
<1>3. JobsOf(<< >>) = << >>
  BY DEF JobsOf
<1>4. current[w] \in Jobs /\ Head(<< current[w] >>) = current[w] /\ << current[w] >> # << >>
      /\ Tail(<< current[w] >>) = << >>
  <2>1. current[w] \in Jobs
    BY <1>1 DEF TypeInv, Running
  <2> QED
    BY <2>1
<1> DEFINE M == [Lines EXCEPT ![w][5] = Tail(Lines[w][5])]
           N == [M EXCEPT ![w][0] = JobsOf(q)]
<1>5. Dropped(Lines, M, w, 5) /\ Head(Lines[w][5]) = current[w]
  BY <1>2, <1>4 DEF Dropped
<1>6. M \in Tables
  BY <1>1, <1>5, DroppedEntries DEF LinesAre
<1>7. \A x \in Threads, s \in Kinds :
          M[x][s] = IF x = w /\ s = 5 THEN << >> ELSE Lines[x][s]
  <2> HIDE DEF M
  <2>1. \A x \in Threads, s \in Kinds :
            M[x][s] = IF x = w /\ s = 5 THEN Tail(Lines[w][5]) ELSE Lines[x][s]
    BY <1>1, <1>5, DroppedEntries DEF LinesAre
  <2> QED
    BY <1>2, <1>4, <2>1
<1>8. M[w][0] = << >>
  <2> HIDE DEF M
  <2> QED
    BY <1>1, <1>2, <1>3, <1>7
<1>9. JobsOf(q) \in Seq(Jobs)
  BY <1>1, <1>2 DEF LinesAre, Tables
<1>10. N \in Tables /\ \A x \in Threads, s \in Kinds :
                           N[x][s] = IF x = w /\ s = 0 THEN JobsOf(q) ELSE M[x][s]
  <2> HIDE DEF M
  <2> QED
    BY <1>1, <1>6, <1>9 DEF Tables
<1>11. ASSUME NEW x \in Threads, NEW s \in Kinds PROVE Lines'[x][s] = N[x][s]
  <2> HIDE DEF M, N
  <2>1. Lines'[x][s] = Line(x, s)' /\ Lines[x][s] = Line(x, s)
    BY <1>1 DEF LinesAre
  <2>2. CASE x = w /\ s = 0
    BY <1>2, <1>10, <2>2
  <2>3. CASE x = w /\ s = 5
    BY <1>2, <1>7, <1>10, <2>3
  <2>4. CASE ~(x = w /\ s = 0) /\ ~(x = w /\ s = 5)
    <3>1. x # w => todo'[x] = todo[x] /\ (x \in Workers => pc'[x] = pc[x])
      BY <1>1 DEF TypeOK
    <3>2. Line(x, s)' = Line(x, s)
      <4>1. CASE s = 0
        BY <2>4, <3>1, <4>1 DEF Line, Left
      <4>2. CASE s # 0
        BY <2>4, <3>1, <4>2 DEF Line
      <4> QED
        BY <4>1, <4>2
    <3> QED
      BY <1>7, <1>10, <2>1, <2>4, <3>2
  <2> QED
    BY <2>2, <2>3, <2>4
<1>12. Lines' = N
  <2> HIDE DEF M, N
  <2> QED
    BY <1>1, <1>10, <1>11, TablesEqual DEF LinesAre
<1>13. Filled(M, Lines', w, 0, JobsOf(q))
  BY <1>8, <1>12 DEF Filled
<1> HIDE DEF M, N
<1> QED
  BY <1>5, <1>6, <1>13
-----------------------------------------------------------------------------
(* What coroutines await.                                                  *)
AwaitedBy(c, x) == c \in Coroutines /\ \E i \in 1 .. Len(Body[c]) : Awaits(c, i, x)
First(c, i) == Body[c][i].jobs[1]
Number(c, i) == Len(Body[c][i].jobs)

LEMMA AwaitsType ==
  ASSUME NEW c \in Coroutines, NEW i \in 1 .. Len(Body[c]), Body[c][i].kind = "await"
  PROVE  /\ Body[c][i].jobs \in Seq(Jobs) /\ Number(c, i) \in Nat
         /\ \A x : Awaits(c, i, x) => x \in Jobs
         /\ Body[c][i].jobs # << >> => First(c, i) \in Jobs /\ Awaits(c, i, First(c, i))
<1>1. Body[c] \in Seq(Suspensions)
  BY ConstantsOK DEF ConstantsOK
<1>2. Body[c][i] \in Suspensions
  BY <1>1, ElementOfSeq
<1>3. PICK s \in Seq(Jobs) : s = Body[c][i].jobs
  BY <1>2 DEF Suspensions
<1>4. Number(c, i) \in Nat
  BY <1>3, LenProperties DEF Number
<1>5. ASSUME NEW x, Awaits(c, i, x) PROVE x \in Jobs
  BY <1>3, <1>5, OccursType DEF Awaits
<1>6. ASSUME s # << >> PROVE First(c, i) \in Jobs /\ Awaits(c, i, First(c, i))
  <2>1. Head(s) \in Jobs /\ Head(s) = s[1] /\ Len(s) \in Nat \ {0}
    BY <1>6, HeadTailProperties
  <2>2. Occurs(s[1], s)
    BY <2>1 DEF Occurs
  <2> QED
    BY <1>3, <2>1, <2>2 DEF Awaits, First
<1> QED
  BY <1>3, <1>4, <1>5, <1>6

LEMMA AwaitsFirst ==
  ASSUME NEW c \in Coroutines, NEW i \in 1 .. Len(Body[c]), NEW x, Awaits(c, i, x)
  PROVE  x \in Jobs /\ First(c, i) \in Jobs /\ Awaits(c, i, First(c, i))
<1>1. Body[c][i].kind = "await" /\ Occurs(x, Body[c][i].jobs)
  BY DEF Awaits
<1>2. Body[c][i].jobs \in Seq(Jobs) /\ x \in Jobs
  BY <1>1, AwaitsType
<1>3. Body[c][i].jobs # << >>
  BY <1>1, <1>2, OccursType
<1> QED
  BY <1>1, <1>2, <1>3, AwaitsType

LEMMA AwaitsOnce ==
  ASSUME EachOnce, NEW c \in Coroutines, NEW d \in Coroutines, NEW x,
         NEW i \in 1 .. Len(Body[c]), NEW k \in 1 .. Len(Body[d]),
         Awaits(c, i, x), Awaits(d, k, x)
  PROVE  c = d /\ i = k
<1>1. x \in Jobs
  BY AwaitsFirst
<1> QED
  BY <1>1 DEF EachOnce

LEMMA AwaitedByOne ==
  ASSUME EachOnce, NEW c, NEW d, NEW x, AwaitedBy(c, x), AwaitedBy(d, x)
  PROVE  c = d
  BY AwaitsOnce DEF AwaitedBy

LEMMA AwaitedBySome == ASSUME NEW x PROVE Awaited(x) <=> \E c \in Coroutines : AwaitedBy(c, x)
  BY DEF Awaited, AwaitedBy

(* There are no more awaited jobs than the await names.                    *)
LEMMA AwaitsCount ==
  ASSUME NEW c \in Coroutines, NEW i \in 1 .. Len(Body[c]), Body[c][i].kind = "await",
         NEW S, \A x \in S : Awaits(c, i, x)
  PROVE  IsFiniteSet(S) /\ Cardinality(S) \in Nat /\ Cardinality(S) <= Number(c, i)
<1> DEFINE n == Number(c, i)
           K == 1 .. n
           js == Body[c][i].jobs
           T == {js[k] : k \in K}
           f == [k \in K |-> js[k]]
<1>1. n \in Nat /\ IsFiniteSet(K) /\ Cardinality(K) = n
  <2>1. n \in Nat
    BY AwaitsType
  <2>2. PICK m \in Nat : m = n
    BY <2>1
  <2>3. IsFiniteSet(1 .. m) /\ Cardinality(1 .. m) = IF 1 > m THEN 0 ELSE m - 1 + 1
    <3>1. 1 \in Int /\ m \in Int
      OBVIOUS
    <3> QED
      BY <3>1, FS_Interval, Zenon
  <2> QED
    BY <2>2, <2>3
<1>2. f \in Surjection(K, T)
  BY DEF Surjection
<1>3. IsFiniteSet(T) /\ Cardinality(T) <= Cardinality(K)
  <2> HIDE DEF K, T, f
  <2> QED
    BY <1>1, <1>2, FS_Surjection
<1>4. S \subseteq T
  <2> SUFFICES ASSUME NEW x \in S PROVE x \in T
    OBVIOUS
  <2>1. Occurs(x, js)
    BY DEF Awaits
  <2> QED
    BY <2>1 DEF Occurs, Number
<1>5. IsFiniteSet(S) /\ Cardinality(S) <= Cardinality(T)
  <2> HIDE DEF T
  <2> QED
    BY <1>3, <1>4, FS_Subset
<1>6. Cardinality(S) \in Nat /\ Cardinality(T) \in Nat
  <2> HIDE DEF T
  <2> QED
    BY <1>3, <1>5, FS_CardinalityType
<1> HIDE DEF T, K, n
<1> QED
  BY <1>1, <1>3, <1>5, <1>6 DEF n
-----------------------------------------------------------------------------
(* The invariant behind ResumedAfterChildren.                              *)

\* A job that has run, if only to its first suspension,
Begun(x) == x \in done \/ (x \in Coroutines /\ step[x] > 1)
\* one whose await is still to come, and one whose parent has been set.
Fresh(x) == \E c \in Coroutines : \E i \in 1 .. Len(Body[c]) : i >= step[c] /\ Awaits(c, i, x)
RootSet(x) == \/ Beyond(Lines, x) \/ Begun(x)
              \/ \E t \in Threads : stage[t] # "add" /\ Head(todo[t]).job = x

Untouched ==
    \A x \in Jobs : Fresh(x) => ~Within(Lines, x) /\ ~Begun(x) /\ root[x] = NoJob

\* The parent of an awaited job is the coroutine that awaits it.
AwaitedRoots ==
    \A c \in Coroutines, x \in Jobs : AwaitedBy(c, x) =>
        /\ root[x] \in {NoJob, c} /\ (RootSet(x) => root[x] = c)
        /\ \A t \in Threads, p \in Postings :
               Occurs(p, todo[t]) /\ p.job = x => p.root = c

\* The first of the jobs awaited together counts them all, before the others.
FirstLeads ==
    \A c \in Coroutines, x \in Jobs : \A i \in 1 .. Len(Body[c]) : Awaits(c, i, x) =>
        /\ root[x] # NoJob => root[First(c, i)] # NoJob
        /\ root[First(c, i)] = NoJob =>
               \A t \in Threads, p \in Postings : Occurs(p, todo[t]) /\ p.job = x =>
                   Head(todo[t]).job = First(c, i) /\ Head(todo[t]).count = Number(c, i)

\* The parent of a job that is not awaited is itself, or is done.
GoodRoot(x, r) == r \in {NoJob, x} \/ (r \in done /\ (~Awaited(r) \/ AwaitedBy(x, r)))

OtherRoots ==
    \A x \in Jobs : ~Awaited(x) =>
        /\ GoodRoot(x, root[x])
        /\ \A t \in Threads, p \in Postings :
               Occurs(p, todo[t]) /\ p.job = x => GoodRoot(x, p.root)

DoneEnded == \A c \in Coroutines : c \in done => Ended(c)

\* A job posted again when it is done counts off nothing that matters.
DoneAgain ==
    \A x \in Jobs : x \in done /\ Within(Lines, x) /\ Awaited(x) =>
        \E c \in Coroutines : c \in done /\ AwaitedBy(c, x) /\ ~Awaited(c)

\* All that c awaits before its n-th suspension point is done.
Settled(c, n) ==
    \A i \in 1 .. Len(Body[c]), x \in Jobs : i < n /\ Awaits(c, i, x) => x \in done

GoesOn == \A c \in Coroutines : Within(Lines, c) \/ c \in done => Settled(c, step[c])

CountedUp == \A c \in Coroutines : c \notin done /\ Beyond(Lines, c) => children[c] >= 0

\* What the first awaited job has yet to add to the count.
Debt(c, i) == IF root[First(c, i)] = NoJob THEN Number(c, i) ELSE 0
Remaining(c, i) == {x \in Jobs : Awaits(c, i, x) /\ x \notin done}

Waits(c, i) ==
    /\ Body[c][i].kind = "await" /\ Body[c][i].jobs # << >> /\ Settled(c, i)
    /\ children[c] + Debt(c, i) >= Cardinality(Remaining(c, i))

\* A coroutine that is nowhere waits for the jobs it awaited last.
Suspended ==
    \A c \in Coroutines : c \notin done /\ ~Within(Lines, c) =>
        \A i \in 1 .. Len(Body[c]) : step[c] = i + 1 => Waits(c, i)

\* No coroutine is beyond its end.
StepBound == \A c \in Coroutines : step[c] <= Len(Body[c]) + 1

AwaitInv ==
    /\ TypeInv /\ OnePlace(Lines, done) /\ Untouched /\ AwaitedRoots /\ FirstLeads
    /\ OtherRoots /\ DoneEnded /\ DoneAgain /\ GoesOn /\ CountedUp /\ Suspended
    /\ StepBound

LEMMA WithinBeyond ==
  ASSUME NEW j, Beyond(Lines, j) PROVE Within(Lines, j)
  BY DEF Beyond, Within, Kinds

(* Places of the job a worker runs, and of one a thread is about to push.  *)
LEMMA RunPlace ==
  ASSUME TypeInv, NEW w \in Workers, pc[w] = "run"
  PROVE  /\ current[w] \in Jobs /\ Occurs(current[w], Lines[w][5])
         /\ Within(Lines, current[w]) /\ Beyond(Lines, current[w]) /\ RootSet(current[w])
<1>1. /\ Lines[w][5] = << current[w] >> /\ current[w] \in Jobs /\ 5 \in Kinds
      /\ w \in Threads
  <2>1. 5 \in Kinds /\ w \in Threads
    BY DEF Kinds, Threads
  <2>2. Lines[w][5] = Line(w, 5)
    BY <2>1, LinesType DEF LinesAre
  <2> QED
    BY <2>1, <2>2 DEF Line, TypeInv, Running
<1>2. Occurs(current[w], << current[w] >>)
  BY DEF Occurs
<1> QED
  BY <1>1, <1>2 DEF Within, Beyond, RootSet

LEMMA PostPlace ==
  ASSUME TypeInv, NEW t \in Threads, todo[t] # << >>, stage[t] \notin {"count", "notify"}
  PROVE  /\ Occurs(Head(todo[t]).job, Lines[t][0]) /\ Within(Lines, Head(todo[t]).job)
         /\ Head(todo[t]).job \in Jobs
<1>1. Lines[t][0] = JobsOf(todo[t]) /\ 0 \in Kinds
  <2>1. 0 \in Kinds
    BY DEF Kinds
  <2>2. Lines[t][0] = Line(t, 0)
    BY <2>1, LinesType DEF LinesAre
  <2> QED
    BY <2>1, <2>2 DEF Line, Left
<1>2. todo[t] \in Seq(Postings)
  BY DEF TypeInv, TypeOK
<1>3. JobsOf(todo[t]) # << >> /\ Head(JobsOf(todo[t])) = Head(todo[t]).job
  BY <1>2, JobsOfTail
<1>4. Lines[t][0] \in Seq(Jobs)
  BY <1>1, LinesType DEF LinesAre, Tables
<1>5. Occurs(Head(todo[t]).job, Lines[t][0])
  <2>1. Occurs(Head(Lines[t][0]), Lines[t][0])
    BY <1>1, <1>3, <1>4, OccursTail
  <2> QED
    BY <1>1, <1>3, <2>1
<1> QED
  BY <1>1, <1>5, HeadPosting DEF Within, TypeInv

LEMMA HeadOccurs ==
  ASSUME TypeInv, NEW t \in Threads, todo[t] # << >>
  PROVE  /\ Head(todo[t]) \in Postings /\ Occurs(Head(todo[t]), todo[t])
         /\ \A p \in Postings : Occurs(p, Tail(todo[t])) => Occurs(p, todo[t])
<1>1. PICK s \in Seq(Postings) : s = todo[t]
  BY DEF TypeInv, TypeOK
<1>2. /\ Head(s) \in Postings /\ Occurs(Head(s), s)
      /\ \A p \in Postings : Occurs(p, Tail(s)) => Occurs(p, s)
  BY <1>1, OccursTail
<1> QED
  BY <1>1, <1>2

(* The parts of the invariant, for the steps that touch little.            *)
LEMMA SameSettled ==
  ASSUME done \subseteq done', NEW c, NEW n, Settled(c, n) PROVE Settled(c, n)'
  BY DEF Settled

LEMMA StepsOfJobs ==
  ASSUME TypeInv, NEW c \in Coroutines
  PROVE  step[c] \in Nat \ {0} /\ c \in Jobs
  BY DEF TypeInv, TypeOK, Jobs

LEMMA RemainingFinite ==
  ASSUME NEW c \in Coroutines, NEW i \in 1 .. Len(Body[c]), Body[c][i].kind = "await"
  PROVE  /\ IsFiniteSet(Remaining(c, i)) /\ Cardinality(Remaining(c, i)) \in Nat
         /\ Cardinality(Remaining(c, i)) <= Number(c, i)
<1>1. PICK S : S = Remaining(c, i)
  OBVIOUS
<1>2. \A x \in S : Awaits(c, i, x)
  BY <1>1 DEF Remaining
<1> QED
  BY <1>1, <1>2, AwaitsCount

(* A coroutine goes on waiting while it is owed no less and awaits no more. *)
LEMMA StillWaits ==
  ASSUME TypeInv, TypeInv', NEW c \in Coroutines, NEW i \in 1 .. Len(Body[c]), Waits(c, i),
         done \subseteq done', children'[c] + Debt(c, i)' >= children[c] + Debt(c, i)
  PROVE  Waits(c, i)'
<1>1. Settled(c, i)' /\ Body[c][i].kind = "await" /\ Body[c][i].jobs # << >>
  BY SameSettled DEF Waits
<1>2. PICK S : S = Remaining(c, i)
  OBVIOUS
<1>3. PICK T : T = Remaining(c, i)'
  OBVIOUS
<1>4. T \subseteq S
  BY <1>2, <1>3 DEF Remaining
<1>5. IsFiniteSet(S) /\ Cardinality(S) \in Nat
  BY <1>1, <1>2, RemainingFinite
<1>6. IsFiniteSet(T) /\ Cardinality(T) <= Cardinality(S) /\ Cardinality(T) \in Nat
  BY <1>4, <1>5, FS_Subset, FS_CardinalityType
<1>7. Number(c, i) \in Nat /\ children[c] \in Int /\ children'[c] \in Int
  BY <1>1, AwaitsType, StepsOfJobs DEF TypeInv, TypeOK
<1>8. Debt(c, i) \in Nat /\ Debt(c, i)' \in Nat
  BY <1>7 DEF Debt
<1>9. children[c] + Debt(c, i) >= Cardinality(S)
  BY <1>2 DEF Waits
<1>10. children'[c] + Debt(c, i)' >= Cardinality(T)
  <2> HIDE DEF Debt
  <2> QED
    BY <1>5, <1>6, <1>7, <1>8, <1>9
<1> QED
  BY <1>1, <1>3, <1>10 DEF Waits

(* A step that finishes and resumes nothing.                               *)
LEMMA CalmStep ==
  ASSUME AwaitInv, TypeInv', OnePlace(Lines, done)', UNCHANGED << root, step, done >>,
         \A j \in Jobs : Within(Lines', j) <=> Within(Lines, j),
         \A j \in Jobs : RootSet(j)' => RootSet(j),
         \A c \in Coroutines :
             \/ children'[c] = children[c] /\ (Beyond(Lines', c) => Beyond(Lines, c))
             \/ Within(Lines, c) /\ children'[c] >= 0,
         \A t \in Threads, p \in Postings : Occurs(p, todo'[t]) => Occurs(p, todo[t]),
         FirstLeads'
  PROVE  AwaitInv'
<1>0. \A c \in Coroutines : c \in Jobs
  BY DEF Jobs
<1>1. Untouched'
  <2>1. \A x \in Jobs : (Fresh(x)' => Fresh(x)) /\ (Begun(x)' => Begun(x))
    BY DEF Fresh, Begun
  <2> QED
    BY <2>1 DEF AwaitInv, Untouched
<1>2. AwaitedRoots'
  BY DEF AwaitInv, AwaitedRoots
<1>3. OtherRoots'
  <2>1. \A x, r : GoodRoot(x, r)' <=> GoodRoot(x, r)
    BY DEF GoodRoot
  <2> QED
    BY <2>1 DEF AwaitInv, OtherRoots
<1>4. DoneEnded' /\ DoneAgain' /\ StepBound'
  BY DEF AwaitInv, DoneEnded, DoneAgain, StepBound, Ended
<1>5. GoesOn'
  <2>1. \A c \in Coroutines : Settled(c, step[c]) => Settled(c, step[c])'
    BY DEF Settled
  <2> QED
    BY <1>0, <2>1 DEF AwaitInv, GoesOn
<1>6. CountedUp'
  BY <1>0 DEF AwaitInv, CountedUp
<1>7. Suspended'
  <2> SUFFICES ASSUME NEW c \in Coroutines, c \notin done, ~Within(Lines', c),
                      NEW i \in 1 .. Len(Body[c]), step[c] = i + 1
               PROVE  Waits(c, i)'
    BY DEF Suspended
  <2>1. Waits(c, i) /\ children'[c] = children[c]
    BY <1>0 DEF AwaitInv, Suspended
  <2>2. Debt(c, i)' = Debt(c, i) /\ Debt(c, i) \in Nat /\ children[c] \in Int
    BY <2>1, AwaitsType, StepsOfJobs DEF Debt, Waits, AwaitInv, TypeInv, TypeOK
  <2>3. children'[c] + Debt(c, i)' >= children[c] + Debt(c, i)
    BY <2>1, <2>2
  <2> QED
    BY <2>1, <2>3, StillWaits DEF AwaitInv
<1> QED
  BY <1>1, <1>2, <1>3, <1>4, <1>5, <1>6, <1>7 DEF AwaitInv

(* While nothing is announced anew, the first of the awaited jobs leads.   *)
LEMMA SameLeads ==
  ASSUME FirstLeads, root' = root,
         \A t \in Threads, p \in Postings :
             Occurs(p, todo'[t]) => Occurs(p, todo[t]) /\ Head(todo'[t]) = Head(todo[t])
  PROVE  FirstLeads'
  BY DEF FirstLeads

(* A step that moves no job and changes no job.                            *)
LEMMA IdleStep ==
  ASSUME AwaitInv, TypeInv', Lines' = Lines, UNCHANGED << root, children, step, done, todo >>,
         \A t \in Threads : stage'[t] # "add" => stage[t] # "add"
  PROVE  AwaitInv'
<1>1. OnePlace(Lines, done)'
  BY DEF AwaitInv
<1>2. \A j \in Jobs : RootSet(j)' => RootSet(j)
  BY DEF RootSet, Begun
<1>3. FirstLeads'
  BY SameLeads DEF AwaitInv
<1> QED
  BY <1>1, <1>2, <1>3, CalmStep

LEMMA AwaitPush == ASSUME AwaitInv, TypeInv', NEW t \in Threads, Push(t) PROVE AwaitInv'
<1> DEFINE j == Head(todo[t]).job
<1>1. /\ TypeInv /\ LinesAre /\ OnePlace(Lines, done) /\ todo[t] # << >> /\ j \in Jobs
      /\ 0 \in Kinds
  BY LinesType, HeadPosting DEF AwaitInv, Push, TypeInv, Staged, Kinds
<1>2. PICK y \in Threads, u \in 1 .. 4, M \in Tables :
          /\ Dropped(Lines, M, t, 0) /\ Head(Lines[t][0]) = j
          /\ Added(M, Lines', y, u, Head(Lines[t][0]))
  BY <1>1, PushLines
<1>3. u \in Kinds /\ Lines \in Tables
  BY <1>1 DEF Kinds, LinesAre
<1>4. /\ OnePlace(Lines', done)
      /\ \A i \in Jobs : Within(Lines', i) <=> Within(Lines, i)
      /\ \A z \in Threads, v \in Kinds, i \in Jobs :
             Occurs(i, Lines'[z][v]) => Occurs(i, Lines[z][v]) \/ i = j
  <2>1. PICK L \in Tables : L = Lines
    BY <1>3
  <2>2. PICK N : N = Lines'
    OBVIOUS
  <2>3. /\ Dropped(L, M, t, 0) /\ Added(M, N, y, u, Head(L[t][0])) /\ OnePlace(L, done)
        /\ Head(L[t][0]) = j
    BY <1>1, <1>2, <2>1, <2>2
  <2>4. PICK D : D = done
    OBVIOUS
  <2>5. /\ OnePlace(N, D)
        /\ \A i \in Jobs : Within(N, i) <=> Within(L, i)
        /\ \A z \in Threads, v \in Kinds, i \in Jobs :
               Occurs(i, N[z][v]) => \/ Occurs(i, L[z][v])
                                     \/ i = Head(L[t][0]) /\ z = y /\ v = u
    BY <1>1, <1>3, <2>3, <2>4, MovePlaces
  <2> QED
    BY <2>1, <2>2, <2>3, <2>4, <2>5
<1>5. /\ UNCHANGED << root, step, done, todo >> /\ stage[t] = "push"
      /\ \A x \in Threads : x # t => stage'[x] = stage[x]
      /\ children' = [children EXCEPT ![j] = IF j \in Functions THEN 1 ELSE 0]
  BY <1>1 DEF Push, TypeInv, TypeOK
<1>6. RootSet(j) /\ Within(Lines, j)
  BY <1>1, <1>5, PostPlace DEF RootSet
<1>7. ASSUME NEW i \in Jobs, i # j
      PROVE  Beyond(Lines', i) => Beyond(Lines, i)
  <2>1. \A v \in 1 .. 5 : v \in Kinds
    BY DEF Kinds
  <2> QED
    BY <1>4, <1>7, <2>1 DEF Beyond
<1>8. \A i \in Jobs : RootSet(i)' => RootSet(i)
  <2> SUFFICES ASSUME NEW i \in Jobs, RootSet(i)', i # j PROVE RootSet(i)
    BY <1>6
  <2>1. Begun(i)' => Begun(i)
    BY <1>5 DEF Begun
  <2>2. ASSUME NEW x \in Threads, stage'[x] # "add", Head(todo'[x]).job = i
        PROVE  stage[x] # "add" /\ Head(todo[x]).job = i
    BY <1>5, <2>2
  <2> QED
    BY <1>7, <2>1, <2>2 DEF RootSet
<1>9. \A c \in Coroutines :
          \/ children'[c] = children[c] /\ (Beyond(Lines', c) => Beyond(Lines, c))
          \/ Within(Lines, c) /\ children'[c] >= 0
  <2> SUFFICES ASSUME NEW c \in Coroutines
               PROVE  \/ children'[c] = children[c] /\ (Beyond(Lines', c) => Beyond(Lines, c))
                      \/ Within(Lines, c) /\ children'[c] >= 0
    OBVIOUS
  <2>1. c \in Jobs /\ children \in [Jobs -> Int]
    BY <1>1 DEF Jobs, TypeInv, TypeOK
  <2>2. CASE c = j
    BY <1>5, <1>6, <2>1, <2>2
  <2>3. CASE c # j
    BY <1>5, <1>7, <2>1, <2>3
  <2> QED
    BY <2>2, <2>3
<1>10. FirstLeads' /\ OnePlace(Lines, done)'
  BY <1>4, <1>5, SameLeads DEF AwaitInv
<1> QED
  BY <1>4, <1>5, <1>8, <1>9, <1>10, CalmStep

LEMMA AwaitTake == ASSUME AwaitInv, TypeInv', NEW w \in Workers, TakeJob(w) PROVE AwaitInv'
<1>1. TypeInv /\ LinesAre /\ OnePlace(Lines, done) /\ 5 \in Kinds /\ w \in Threads
  BY LinesType DEF AwaitInv, Kinds, Threads
<1>2. PICK k \in 1 .. 4, M \in Tables :
          Dropped(Lines, M, w, k) /\ Added(M, Lines', w, 5, Head(Lines[w][k]))
  BY <1>1, TakeLines
<1>3. k \in Kinds /\ Lines \in Tables
  BY <1>1 DEF Kinds, LinesAre
<1>4. /\ OnePlace(Lines', done)
      /\ \A i \in Jobs : Within(Lines', i) <=> Within(Lines, i)
      /\ \A z \in Threads, v \in Kinds, i \in Jobs :
             Occurs(i, Lines'[z][v]) => Occurs(i, Lines[z][v]) \/ Occurs(i, Lines[w][k])
  <2>1. PICK L \in Tables : L = Lines
    BY <1>3
  <2>2. PICK N : N = Lines'
    OBVIOUS
  <2>3. Dropped(L, M, w, k) /\ Added(M, N, w, 5, Head(L[w][k])) /\ OnePlace(L, done)
    BY <1>1, <1>2, <2>1, <2>2
  <2>4. PICK D : D = done
    OBVIOUS
  <2>5. /\ OnePlace(N, D)
        /\ \A i \in Jobs : Within(N, i) <=> Within(L, i)
        /\ \A z \in Threads, v \in Kinds, i \in Jobs :
               Occurs(i, N[z][v]) => \/ Occurs(i, L[z][v])
                                     \/ i = Head(L[w][k]) /\ z = w /\ v = 5
    <3>1. PICK u \in Kinds : u = 5
      BY <1>1
    <3>2. PICK s \in Kinds : s = k
      BY <1>3
    <3>5. PICK y \in Threads : y = w
      BY <1>1
    <3>3. Dropped(L, M, w, s) /\ Added(M, N, y, u, Head(L[w][s])) /\ OnePlace(L, D)
      BY <2>3, <2>4, <3>1, <3>2, <3>5
    <3>4. /\ OnePlace(N, D)
          /\ \A i \in Jobs : Within(N, i) <=> Within(L, i)
          /\ \A z \in Threads, v \in Kinds, i \in Jobs :
                 Occurs(i, N[z][v]) => \/ Occurs(i, L[z][v])
                                       \/ i = Head(L[w][s]) /\ z = y /\ v = u
      <4>1. w \in Threads
        BY <1>1
      <4> QED
        BY <3>3, <4>1, MovePlaces
    <3> QED
      BY <3>1, <3>2, <3>4, <3>5
  <2>6. Occurs(Head(L[w][k]), L[w][k])
    <3>1. L[w][k] \in Seq(Jobs) /\ L[w][k] # << >>
      BY <1>1, <1>3, <2>3 DEF Tables, Dropped
    <3> QED
      BY <3>1, OccursTail
  <2> QED
    BY <2>1, <2>2, <2>4, <2>5, <2>6
<1>5. UNCHANGED << root, step, done, todo, stage, children >>
  BY DEF TakeJob, posting, tasks
<1>6. ASSUME NEW i \in Jobs, Beyond(Lines', i) PROVE Beyond(Lines, i)
  <2>1. PICK z \in Threads, v \in 1 .. 5 : Occurs(i, Lines'[z][v])
    BY <1>6 DEF Beyond
  <2>2. v \in Kinds /\ k \in 1 .. 5
    BY DEF Kinds
  <2>3. Occurs(i, Lines[z][v]) \/ Occurs(i, Lines[w][k])
    BY <1>4, <2>1, <2>2
  <2> QED
    BY <1>1, <2>2, <2>3 DEF Beyond
<1>7. \A i \in Jobs : RootSet(i)' => RootSet(i)
  BY <1>5, <1>6 DEF RootSet, Begun
<1>8. FirstLeads' /\ OnePlace(Lines, done)'
  BY <1>4, <1>5, SameLeads DEF AwaitInv
<1>9. \A c \in Coroutines : c \in Jobs
  BY DEF Jobs
<1> QED
  BY <1>4, <1>5, <1>6, <1>7, <1>8, <1>9, CalmStep

LEMMA AwaitNotify == ASSUME AwaitInv, TypeInv', NEW t \in Threads, Notify(t) PROVE AwaitInv'
<1>1. /\ TypeInv /\ TypeOK /\ OnePlace(Lines, done) /\ todo[t] # << >> /\ stage[t] = "notify"
      /\ todo' = [todo EXCEPT ![t] = Tail(todo[t])] /\ stage' = [stage EXCEPT ![t] = "add"]
      /\ pc' = Woken(target[t]) /\ UNCHANGED << queue, current, root, children, step, done >>
  BY DEF AwaitInv, Notify, TypeInv, Staged, tasks
<1>2. /\ todo'[t] = Tail(todo[t]) /\ stage'[t] = "add"
      /\ \A x \in Threads : x # t => todo'[x] = todo[x] /\ stage'[x] = stage[x]
  BY <1>1 DEF TypeOK
<1>3. Lines' = Lines
  <2>1. ASSUME NEW x \in Threads PROVE Left(x)' = Left(x)
    BY <1>1, <1>2 DEF Left
  <2>2. \A w \in Workers : pc'[w] = "run" <=> pc[w] = "run"
    BY <1>1 DEF Woken, TypeOK
  <2> QED
    BY <1>1, <2>1, <2>2, SameLines
<1>4. ASSUME NEW x \in Threads, NEW p \in Postings, Occurs(p, todo'[x])
      PROVE  Occurs(p, todo[x])
  BY <1>1, <1>2, <1>4, HeadOccurs
<1>5. \A j \in Jobs : RootSet(j)' => RootSet(j)
  <2>1. ASSUME NEW x \in Threads, stage'[x] # "add"
        PROVE  stage[x] # "add" /\ Head(todo'[x]) = Head(todo[x])
    BY <1>2, <2>1
  <2> QED
    BY <1>1, <1>3, <2>1 DEF RootSet, Begun
<1>6. FirstLeads'
  <2> SUFFICES ASSUME NEW c \in Coroutines, NEW y \in Jobs, NEW i \in 1 .. Len(Body[c]),
                      Awaits(c, i, y), root[First(c, i)] = NoJob,
                      NEW x \in Threads, NEW p \in Postings, Occurs(p, todo'[x]), p.job = y
               PROVE  /\ Head(todo'[x]).job = First(c, i)
                      /\ Head(todo'[x]).count = Number(c, i)
    <3>1. FirstLeads /\ root' = root
      BY <1>1 DEF AwaitInv
    <3> QED
      BY <3>1 DEF FirstLeads
  <2>1. Head(todo[x]).job = First(c, i) /\ Head(todo[x]).count = Number(c, i)
    BY <1>4 DEF AwaitInv, FirstLeads
  <2>2. x # t
    <3> SUFFICES ASSUME x = t PROVE FALSE
      OBVIOUS
    <3>1. First(c, i) \in Jobs /\ AwaitedBy(c, First(c, i))
      BY AwaitsFirst DEF AwaitedBy
    <3>2. RootSet(First(c, i))
      BY <1>1, <2>1 DEF RootSet
    <3>3. root[First(c, i)] = c
      BY <3>1, <3>2 DEF AwaitInv, AwaitedRoots
    <3> QED
      BY <3>3, ConstantsOK DEF ConstantsOK, Jobs
  <2> QED
    BY <1>2, <2>1, <2>2
<1>7. OnePlace(Lines, done)'
  BY <1>1, <1>3
<1> QED
  BY <1>1, <1>3, <1>4, <1>5, <1>6, <1>7, CalmStep
-----------------------------------------------------------------------------
(* Counting a posting for its parent.                                      *)
LEMMA AwaitAdd ==
  ASSUME EachOnce, AwaitInv, TypeInv', NEW t \in Threads, AddToRoot(t)
  PROVE  AwaitInv'
<1>1. /\ TypeInv /\ TypeOK /\ OnePlace(Lines, done) /\ todo[t] # << >> /\ stage[t] = "add"
      /\ stage' = [stage EXCEPT ![t] = "push"]
      /\ UNCHANGED << queue, pc, current, todo, step, done >>
  BY DEF AwaitInv, AddToRoot, TypeInv
<1>2. PICK r \in Postings : r = Head(todo[t])
  BY <1>1, HeadOccurs
<1>3. r.job \in Jobs /\ r.root \in Roots /\ r.count \in Nat /\ Occurs(r, todo[t])
  BY <1>1, <1>2, HeadOccurs DEF Postings
<1>4. /\ root' = [root EXCEPT ![r.job] = r.root]
      /\ children' = IF r.root = NoJob THEN children
                     ELSE [children EXCEPT ![r.root] = children[r.root] + r.count]
  BY <1>2 DEF AddToRoot
<1>5. /\ root'[r.job] = r.root /\ \A x \in Jobs : x # r.job => root'[x] = root[x]
      /\ \A x \in Jobs : children'[x] = IF x = r.root THEN children[x] + r.count ELSE children[x]
      /\ \A x \in Jobs : children[x] \in Int
  <2>1. root \in [Jobs -> Roots] /\ children \in [Jobs -> Int] /\ NoJob \notin Jobs
    BY <1>1, ConstantsOK DEF TypeOK, ConstantsOK
  <2>2. r.root # NoJob => r.root \in Jobs
    BY <1>3 DEF Roots
  <2>3. root'[r.job] = r.root /\ \A x \in Jobs : x # r.job => root'[x] = root[x]
    BY <1>3, <1>4, <2>1
  <2>4. ASSUME NEW x \in Jobs
        PROVE  children'[x] = IF x = r.root THEN children[x] + r.count ELSE children[x]
    <3>1. CASE r.root = NoJob
      BY <1>4, <2>1, <3>1
    <3>2. CASE r.root # NoJob
      BY <1>4, <2>1, <2>2, <3>2
    <3> QED
      BY <3>1, <3>2
  <2> QED
    BY <2>1, <2>3, <2>4
<1>6. stage'[t] = "push" /\ \A x \in Threads : x # t => stage'[x] = stage[x]
  BY <1>1 DEF TypeOK
<1>7. Lines' = Lines
  <2>1. ASSUME NEW x \in Threads PROVE Left(x)' = Left(x)
    BY <1>1, <1>6 DEF Left
  <2> QED
    BY <1>1, <2>1, SameLines
<1>8. Within(Lines, r.job) /\ ~Fresh(r.job)
  <2>1. Within(Lines, r.job)
    BY <1>1, <1>2, PostPlace
  <2> QED
    BY <1>3, <2>1 DEF AwaitInv, Untouched
<1>9. ASSUME NEW c \in Coroutines, AwaitedBy(c, r.job)
      PROVE  root'[r.job] = c /\ c # NoJob /\ c \in Jobs /\ r.root = c
  <2>1. r.root = c
    BY <1>3, <1>9 DEF AwaitInv, AwaitedRoots
  <2>2. c # NoJob /\ c \in Jobs
    BY ConstantsOK DEF ConstantsOK, Jobs
  <2> QED
    BY <1>5, <2>1, <2>2
\* A root that is not there afterwards was not there before.
<1>10. ASSUME NEW c \in Coroutines, NEW i \in 1 .. Len(Body[c]), NEW x \in Jobs,
              Awaits(c, i, x), root'[x] = NoJob
       PROVE  root[x] = NoJob /\ x # r.job
  <2>1. x # r.job
    BY <1>9, <1>10 DEF AwaitedBy
  <2> QED
    BY <1>5, <1>10, <2>1
<1>11. Untouched'
  <2>1. \A x \in Jobs : (Fresh(x)' <=> Fresh(x)) /\ (Begun(x)' <=> Begun(x))
    BY <1>1 DEF Fresh, Begun
  <2>2. \A x \in Jobs : Fresh(x) => root'[x] = root[x]
    BY <1>5, <1>8
  <2> QED
    BY <1>7, <2>1, <2>2 DEF AwaitInv, Untouched
<1>12. AwaitedRoots'
  <2> SUFFICES ASSUME NEW c \in Coroutines, NEW x \in Jobs, AwaitedBy(c, x)
               PROVE  /\ root'[x] \in {NoJob, c} /\ (RootSet(x)' => root'[x] = c)
                      /\ \A y \in Threads, p \in Postings :
                             Occurs(p, todo[y]) /\ p.job = x => p.root = c
    BY <1>1 DEF AwaitedRoots
  <2>1. CASE x = r.job
    BY <1>9, <2>1 DEF AwaitInv, AwaitedRoots
  <2>2. CASE x # r.job
    <3>1. RootSet(x)' => RootSet(x)
      <4>1. Begun(x)' => Begun(x)
        BY <1>1 DEF Begun
      <4>2. ASSUME NEW y \in Threads, stage'[y] # "add", Head(todo[y]).job = x
            PROVE  stage[y] # "add"
        BY <1>2, <1>6, <2>2, <4>2
      <4> QED
        BY <1>1, <1>7, <4>1, <4>2 DEF RootSet
    <3> QED
      BY <1>5, <2>2, <3>1 DEF AwaitInv, AwaitedRoots
  <2> QED
    BY <2>1, <2>2
<1>13. FirstLeads'
  <2> SUFFICES ASSUME NEW c \in Coroutines, NEW x \in Jobs, NEW i \in 1 .. Len(Body[c]),
                      Awaits(c, i, x)
               PROVE  /\ root'[x] # NoJob => root'[First(c, i)] # NoJob
                      /\ root'[First(c, i)] = NoJob =>
                             \A y \in Threads, p \in Postings : Occurs(p, todo[y]) /\ p.job = x =>
                                 /\ Head(todo[y]).job = First(c, i)
                                 /\ Head(todo[y]).count = Number(c, i)
    BY <1>1 DEF FirstLeads
  <2>1. First(c, i) \in Jobs /\ Awaits(c, i, First(c, i))
    BY AwaitsFirst
  <2>2. root'[First(c, i)] = NoJob => root[First(c, i)] = NoJob /\ First(c, i) # r.job
    BY <1>10, <2>1
  <2>3. ASSUME root'[First(c, i)] = NoJob PROVE root'[x] = NoJob
    <3>1. x # r.job
      <4> SUFFICES ASSUME x = r.job PROVE FALSE
        OBVIOUS
      <4>1. Head(todo[t]).job = First(c, i)
        BY <1>3, <2>2, <2>3 DEF AwaitInv, FirstLeads
      <4> QED
        BY <1>2, <2>2, <2>3, <4>1
    <3> QED
      BY <1>5, <2>2, <2>3, <3>1 DEF AwaitInv, FirstLeads
  <2> QED
    BY <2>2, <2>3 DEF AwaitInv, FirstLeads
<1>14. OtherRoots'
  <2>1. \A x, p : GoodRoot(x, p)' <=> GoodRoot(x, p)
    BY <1>1 DEF GoodRoot
  <2> SUFFICES ASSUME NEW x \in Jobs, ~Awaited(x)
               PROVE  /\ GoodRoot(x, root'[x])
                      /\ \A y \in Threads, p \in Postings :
                             Occurs(p, todo[y]) /\ p.job = x => GoodRoot(x, p.root)
    BY <1>1, <2>1 DEF OtherRoots
  <2>2. CASE x = r.job
    BY <1>3, <1>5, <2>2 DEF AwaitInv, OtherRoots
  <2>3. CASE x # r.job
    BY <1>5, <2>3 DEF AwaitInv, OtherRoots
  <2> QED
    BY <2>2, <2>3
<1>15. DoneEnded' /\ DoneAgain' /\ StepBound'
  BY <1>1, <1>7 DEF AwaitInv, DoneEnded, DoneAgain, StepBound, Ended
<1>16. GoesOn'
  BY <1>1, <1>7 DEF AwaitInv, GoesOn, Settled
<1>17. CountedUp'
  <2> SUFFICES ASSUME NEW c \in Coroutines, c \notin done, Beyond(Lines, c)
               PROVE  children'[c] >= 0
    BY <1>1, <1>7 DEF CountedUp
  <2>1. children[c] >= 0 /\ c \in Jobs
    BY DEF AwaitInv, CountedUp, Jobs
  <2>2. children[c] \in Int /\ children'[c] \in {children[c], children[c] + r.count}
    BY <1>5, <2>1
  <2> QED
    BY <1>3, <2>1, <2>2
<1>18. Suspended'
  <2> SUFFICES ASSUME NEW c \in Coroutines, c \notin done, ~Within(Lines, c),
                      NEW i \in 1 .. Len(Body[c]), step[c] = i + 1
               PROVE  Waits(c, i)'
    BY <1>1, <1>7 DEF Suspended
  <2>1. Waits(c, i) /\ c \in Jobs
    BY DEF AwaitInv, Suspended, Jobs
  <2>2. Body[c][i].kind = "await" /\ Body[c][i].jobs # << >>
    BY <2>1 DEF Waits
  <2>3. First(c, i) \in Jobs /\ Awaits(c, i, First(c, i)) /\ Number(c, i) \in Nat
    BY <2>2, AwaitsType
  <2>4. children'[c] + Debt(c, i)' >= children[c] + Debt(c, i)
    <3>1. CASE First(c, i) = r.job /\ root[First(c, i)] = NoJob
      <4>1. r.root = c /\ c # NoJob
        BY <1>9, <2>3, <3>1 DEF AwaitedBy
      <4>2. r.count = Number(c, i)
        BY <1>2, <1>3, <2>3, <3>1 DEF AwaitInv, FirstLeads
      <4>3. Debt(c, i) = Number(c, i) /\ Debt(c, i)' = 0
        BY <1>5, <3>1, <4>1 DEF Debt
      <4>4. children'[c] = children[c] + Number(c, i) /\ children[c] \in Int
        BY <1>5, <2>1, <4>1, <4>2
      <4> QED
        BY <2>3, <4>3, <4>4
    <3>2. CASE ~(First(c, i) = r.job /\ root[First(c, i)] = NoJob)
      <4>1. root'[First(c, i)] = NoJob <=> root[First(c, i)] = NoJob
        <5>1. root'[First(c, i)] = NoJob => root[First(c, i)] = NoJob
          BY <1>10, <2>3
        <5>2. root[First(c, i)] = NoJob => root'[First(c, i)] = root[First(c, i)]
          BY <1>5, <2>3, <3>2
        <5> QED
          BY <5>1, <5>2
      <4>2. Debt(c, i)' = Debt(c, i) /\ Debt(c, i) \in Nat
        BY <2>3, <4>1 DEF Debt
      <4>3. children[c] \in Int /\ children'[c] \in {children[c], children[c] + r.count}
        BY <1>5, <2>1
      <4> HIDE DEF Debt
      <4> QED
        BY <1>3, <4>2, <4>3
    <3> QED
      BY <3>1, <3>2
  <2> QED
    BY <1>1, <2>1, <2>4, StillWaits
<1>19. OnePlace(Lines, done)'
  BY <1>1, <1>7
<1> QED
  BY <1>11, <1>12, <1>13, <1>14, <1>15, <1>16, <1>17, <1>18, <1>19 DEF AwaitInv
-----------------------------------------------------------------------------
(* Running a coroutine.                                                    *)
LEMMA RunningCoroutine ==
  ASSUME AwaitInv, NEW w \in Workers, At(w, "run"), NEW c \in Coroutines, c = current[w]
  PROVE  /\ c \in Jobs /\ Within(Lines, c) /\ Beyond(Lines, c) /\ RootSet(c) /\ ~Fresh(c)
         /\ step[c] \in Nat \ {0} /\ Settled(c, step[c])
         /\ ~Ended(c) => c \notin done /\ step[c] \in 1 .. Len(Body[c])
         /\ \A d \in Coroutines : AwaitedBy(d, c) => root[c] = d /\ d # NoJob
<1>1. TypeInv /\ pc[w] = "run" /\ c \in Jobs
  BY DEF AwaitInv, At, Jobs
<1>2. Within(Lines, c) /\ Beyond(Lines, c) /\ RootSet(c)
  BY <1>1, RunPlace
<1>3. ~Fresh(c) /\ Settled(c, step[c]) /\ (~Ended(c) => c \notin done)
  BY <1>1, <1>2 DEF AwaitInv, Untouched, GoesOn, DoneEnded
<1>4. step[c] \in Nat \ {0}
  BY <1>1, StepsOfJobs
<1>5. ~Ended(c) => step[c] \in 1 .. Len(Body[c])
  <2>1. Body[c] \in Seq(Suspensions)
    BY ConstantsOK DEF ConstantsOK
  <2>2. Len(Body[c]) \in Nat
    BY <2>1, LenProperties
  <2> QED
    BY <1>4, <2>2 DEF Ended
<1>6. ASSUME NEW d \in Coroutines, AwaitedBy(d, c) PROVE root[c] = d /\ d # NoJob
  <2>1. root[c] = d
    BY <1>1, <1>2, <1>6 DEF AwaitInv, AwaitedRoots
  <2> QED
    BY <2>1, ConstantsOK DEF ConstantsOK, Jobs
<1> QED
  BY <1>1, <1>2, <1>3, <1>4, <1>5, <1>6

(* Going past a suspension point at which nothing is awaited.              *)
LEMMA PassStep ==
  ASSUME AwaitInv, TypeInv', NEW w \in Workers, At(w, "run"),
         NEW c \in Coroutines, c = current[w], ~Ended(c),
         \A x : ~Awaits(c, step[c], x),
         step' = [step EXCEPT ![c] = @ + 1], UNCHANGED << root, children, done >>,
         OnePlace(Lines, done)',
         \A j \in Jobs : /\ Within(Lines', j) <=> Within(Lines, j)
                         /\ Beyond(Lines', j) => Beyond(Lines, j),
         \A t \in Threads : stage'[t] # "add" => stage[t] # "add" /\ todo'[t] = todo[t],
         \A t \in Threads, p \in Postings : Occurs(p, todo'[t]) =>
             \/ Occurs(p, todo[t]) /\ todo'[t] = todo[t]
             \/ p.job = c /\ p.root = RootOr(c, c)
  PROVE  AwaitInv'
<1>1. /\ c \in Jobs /\ Within(Lines, c) /\ Beyond(Lines, c) /\ RootSet(c) /\ ~Fresh(c)
      /\ step[c] \in Nat \ {0} /\ Settled(c, step[c])
      /\ c \notin done /\ step[c] \in 1 .. Len(Body[c])
      /\ \A d \in Coroutines : AwaitedBy(d, c) => root[c] = d /\ d # NoJob
  BY RunningCoroutine
<1>2. /\ TypeInv /\ TypeOK /\ step'[c] = step[c] + 1
      /\ \A d \in Coroutines : step[d] \in Nat /\ (d # c => step'[d] = step[d])
      /\ \A d \in Coroutines : d \in Jobs
  BY DEF AwaitInv, TypeInv, TypeOK, Jobs
<1>3. \A x \in Jobs : Fresh(x)' => Fresh(x)
  <2> SUFFICES ASSUME NEW x \in Jobs, NEW d \in Coroutines, NEW i \in 1 .. Len(Body[d]),
                      i >= step'[d], Awaits(d, i, x)
               PROVE  Fresh(x)
    BY DEF Fresh
  <2>1. i >= step[d]
    BY <1>1, <1>2
  <2> QED
    BY <2>1 DEF Fresh
<1>4. \A x \in Jobs : (Begun(x)' /\ x # c => Begun(x)) /\ (RootSet(x)' => RootSet(x))
  <2>1. ASSUME NEW x \in Jobs, Begun(x)', x # c PROVE Begun(x)
    BY <1>2, <2>1 DEF Begun
  <2>2. ASSUME NEW x \in Jobs, RootSet(x)' PROVE RootSet(x)
    BY <1>1, <2>1, <2>2 DEF RootSet
  <2> QED
    BY <2>1, <2>2
<1>5. Untouched'
  BY <1>1, <1>3, <1>4 DEF AwaitInv, Untouched
<1>6. AwaitedRoots'
  <2> SUFFICES ASSUME NEW d \in Coroutines, NEW x \in Jobs, AwaitedBy(d, x)
               PROVE  /\ root[x] \in {NoJob, d} /\ (RootSet(x)' => root[x] = d)
                      /\ \A y \in Threads, p \in Postings :
                             Occurs(p, todo'[y]) /\ p.job = x => p.root = d
    BY DEF AwaitedRoots
  <2>1. root[x] \in {NoJob, d} /\ (RootSet(x)' => root[x] = d)
    BY <1>4 DEF AwaitInv, AwaitedRoots
  <2>2. ASSUME NEW y \in Threads, NEW p \in Postings, Occurs(p, todo'[y]), p.job = x
        PROVE  p.root = d
    <3>1. CASE Occurs(p, todo[y])
      BY <2>2, <3>1 DEF AwaitInv, AwaitedRoots
    <3>2. CASE p.job = c /\ p.root = RootOr(c, c)
      BY <1>1, <2>2, <3>2 DEF RootOr
    <3> QED
      BY <2>2, <3>1, <3>2
  <2> QED
    BY <2>1, <2>2
<1>7. FirstLeads'
  <2> SUFFICES ASSUME NEW d \in Coroutines, NEW x \in Jobs, NEW i \in 1 .. Len(Body[d]),
                      Awaits(d, i, x)
               PROVE  /\ root[x] # NoJob => root[First(d, i)] # NoJob
                      /\ root[First(d, i)] = NoJob =>
                             \A y \in Threads, p \in Postings : Occurs(p, todo'[y]) /\ p.job = x =>
                                 /\ Head(todo'[y]).job = First(d, i)
                                 /\ Head(todo'[y]).count = Number(d, i)
    BY DEF FirstLeads
  <2>1. root[x] # NoJob => root[First(d, i)] # NoJob
    BY DEF AwaitInv, FirstLeads
  <2>2. x = c => root[x] # NoJob
    BY <1>1 DEF AwaitedBy
  <2>3. ASSUME NEW y \in Threads, NEW p \in Postings, Occurs(p, todo'[y]), p.job = x,
               root[First(d, i)] = NoJob
        PROVE  Head(todo'[y]).job = First(d, i) /\ Head(todo'[y]).count = Number(d, i)
    <3>1. Occurs(p, todo[y]) /\ todo'[y] = todo[y]
      BY <2>1, <2>2, <2>3
    <3> QED
      BY <2>3, <3>1 DEF AwaitInv, FirstLeads
  <2> QED
    BY <2>1, <2>3
<1>8. OtherRoots'
  <2>1. \A x, r : GoodRoot(x, r)' <=> GoodRoot(x, r)
    BY DEF GoodRoot
  <2> SUFFICES ASSUME NEW x \in Jobs, ~Awaited(x)
               PROVE  /\ GoodRoot(x, root[x])
                      /\ \A y \in Threads, p \in Postings :
                             Occurs(p, todo'[y]) /\ p.job = x => GoodRoot(x, p.root)
    BY <2>1 DEF OtherRoots
  <2>2. GoodRoot(x, root[x])
    BY DEF AwaitInv, OtherRoots
  <2>3. GoodRoot(x, x)
    BY DEF GoodRoot
  <2>4. ASSUME NEW y \in Threads, NEW p \in Postings, Occurs(p, todo'[y]), p.job = x
        PROVE  GoodRoot(x, p.root)
    <3>1. CASE Occurs(p, todo[y])
      BY <2>4, <3>1 DEF AwaitInv, OtherRoots
    <3>2. CASE p.job = c /\ p.root = RootOr(c, c)
      BY <2>2, <2>3, <2>4, <3>2 DEF RootOr
    <3> QED
      BY <2>4, <3>1, <3>2
  <2> QED
    BY <2>2, <2>4
<1>9. DoneEnded'
  BY <1>1, <1>2 DEF AwaitInv, DoneEnded, Ended
<1>10. DoneAgain' /\ CountedUp'
  BY <1>2 DEF AwaitInv, DoneAgain, CountedUp
<1>11. GoesOn'
  <2> SUFFICES ASSUME NEW d \in Coroutines, Within(Lines, d) \/ d \in done,
                      NEW i \in 1 .. Len(Body[d]), NEW x \in Jobs, i < step'[d], Awaits(d, i, x)
               PROVE  x \in done
    BY <1>2 DEF GoesOn, Settled
  <2>1. i < step[d]
    <3>1. CASE d = c
      <4>1. i # step[c]
        BY <3>1
      <4> QED
        BY <1>1, <1>2, <3>1, <4>1
    <3>2. CASE d # c
      BY <1>2, <3>2
    <3> QED
      BY <3>1, <3>2
  <2> QED
    BY <2>1 DEF AwaitInv, GoesOn, Settled
<1>12. Suspended'
  <2> SUFFICES ASSUME NEW d \in Coroutines, d \notin done, ~Within(Lines, d),
                      NEW i \in 1 .. Len(Body[d]), step'[d] = i + 1
               PROVE  Waits(d, i)'
    BY <1>2 DEF Suspended
  <2>1. Waits(d, i)
    BY <1>1, <1>2 DEF AwaitInv, Suspended
  <2>2. Waits(d, i)' = Waits(d, i)
    BY DEF Waits, Settled, Debt, Remaining
  <2> QED
    BY <2>1, <2>2
<1>13. StepBound'
  <2>1. Body[c] \in Seq(Suspensions)
    BY ConstantsOK DEF ConstantsOK
  <2>2. Len(Body[c]) \in Nat
    BY <2>1, LenProperties
  <2> QED
    BY <1>1, <1>2, <2>2 DEF AwaitInv, StepBound
<1> QED
  BY <1>5, <1>6, <1>7, <1>8, <1>9, <1>10, <1>11, <1>12, <1>13 DEF AwaitInv

LEMMA SinglePosting ==
  ASSUME NEW p \in Postings
  PROVE  /\ << p >> \in Seq(Postings) /\ JobsOf(<< p >>) = << p.job >> /\ p.job \in Jobs
         /\ \A r : Occurs(r, << p >>) => r = p
<1>1. p.job \in Jobs
  BY DEF Postings
<1>2. JobsOf(<< p >>) = << p.job >>
  <2>1. Len(<< p >>) = 1 /\ << p >>[1] = p
    OBVIOUS
  <2>2. JobsOf(<< p >>) = [i \in 1 .. 1 |-> << p >>[i].job]
    BY <2>1 DEF JobsOf
  <2>3. \A i \in 1 .. 1 : << p >>[i].job = p.job
    OBVIOUS
  <2>4. << p.job >> = [i \in 1 .. 1 |-> p.job]
    OBVIOUS
  <2> QED
    BY <2>2, <2>3, <2>4
<1> QED
  BY <1>1, <1>2 DEF Occurs

(* A worker that posts one job in place of the one it leaves.              *)
LEMMA RepostLines ==
  ASSUME TypeInv, TypeInv', NEW w \in Workers, At(w, "run"), pc' = [pc EXCEPT ![w] = "check"],
         UNCHANGED << queue, current, stage >>,
         NEW p \in Postings, todo' = [todo EXCEPT ![w] = << p >>]
  PROVE  /\ \E M \in Tables :
                /\ Dropped(Lines, M, w, 5) /\ Head(Lines[w][5]) = current[w]
                /\ Added(M, Lines', w, 0, p.job)
         /\ \A t \in Threads, r \in Postings : Occurs(r, todo'[t]) =>
                \/ Occurs(r, todo[t]) /\ todo'[t] = todo[t]
                \/ r = p
         /\ \A t \in Threads : stage'[t] # "add" => stage[t] # "add" /\ todo'[t] = todo[t]
<1>1. PICK q \in Seq(Postings) : q = << p >>
  BY SinglePosting
<1>2. todo' = [todo EXCEPT ![w] = q]
  BY <1>1
<1>3. PICK M \in Tables :
          /\ Dropped(Lines, M, w, 5) /\ Head(Lines[w][5]) = current[w]
          /\ Filled(M, Lines', w, 0, JobsOf(q))
  BY <1>2, LeaveLines
<1>4. JobsOf(q) = << p.job >> /\ Append(<< >>, p.job) = << p.job >>
  BY <1>1, SinglePosting
<1>5. M[w][0] = << >> /\ Lines' = [M EXCEPT ![w][0] = << p.job >>]
  BY <1>3, <1>4 DEF Filled
<1>6. Added(M, Lines', w, 0, p.job)
  BY <1>4, <1>5 DEF Added
<1>7. /\ stage[w] = "add" /\ w \in Threads /\ todo'[w] = << p >>
      /\ \A t \in Threads : t # w => todo'[t] = todo[t]
  BY AtType DEF TypeOK
<1>8. ASSUME NEW t \in Threads, NEW r \in Postings, Occurs(r, todo'[t])
      PROVE  (Occurs(r, todo[t]) /\ todo'[t] = todo[t]) \/ r = p
  <2>1. CASE t = w
    BY <1>7, <1>8, <2>1, SinglePosting
  <2>2. CASE t # w
    BY <1>7, <1>8, <2>2
  <2> QED
    BY <2>1, <2>2
<1> QED
  BY <1>3, <1>6, <1>7, <1>8

LEMMA AwaitGoOn == ASSUME AwaitInv, TypeInv', NEW w \in Workers, GoOn(w) PROVE AwaitInv'
<1>1. /\ TypeInv /\ At(w, "run") /\ current[w] \in Coroutines /\ ~Ended(current[w])
      /\ OnePlace(Lines, done)
      /\ UNCHANGED << queue, todo, stage, pc, current, root, children, done >>
  BY DEF AwaitInv, GoOn, posting
<1>2. PICK c \in Coroutines : c = current[w]
  BY <1>1
<1>3. Ready(c, Body[c][step[c]]) /\ step' = [step EXCEPT ![c] = @ + 1]
  BY <1>2 DEF GoOn
<1>4. \A x : ~Awaits(c, step[c], x)
  BY <1>3, OccursNone DEF Ready, Awaits
<1>5. Lines' = Lines
  <2>1. \A x \in Threads : Left(x)' = Left(x)
    BY <1>1 DEF Left
  <2> QED
    BY <1>1, <2>1, SameLines
<1>6. OnePlace(Lines, done)'
  BY <1>1, <1>5
<1>7. /\ UNCHANGED << root, children, done >> /\ ~Ended(c)
      /\ \A j \in Jobs : /\ Within(Lines', j) <=> Within(Lines, j)
                         /\ Beyond(Lines', j) => Beyond(Lines, j)
      /\ \A t \in Threads : stage'[t] # "add" => stage[t] # "add" /\ todo'[t] = todo[t]
      /\ \A t \in Threads, p \in Postings : Occurs(p, todo'[t]) =>
             \/ Occurs(p, todo[t]) /\ todo'[t] = todo[t]
             \/ p.job = c /\ p.root = RootOr(c, c)
  BY <1>1, <1>2, <1>5
<1> QED
  BY <1>1, <1>2, <1>3, <1>4, <1>6, <1>7, PassStep

LEMMA AwaitResume == ASSUME AwaitInv, TypeInv', NEW w \in Workers, ResumeOn(w) PROVE AwaitInv'
<1>1. /\ TypeInv /\ At(w, "run") /\ current[w] \in Coroutines /\ ~Ended(current[w])
      /\ OnePlace(Lines, done) /\ LinesAre /\ w \in Threads /\ 0 \in Kinds /\ 5 \in Kinds
      /\ UNCHANGED << queue, stage, current, root, children, done >>
      /\ pc' = [pc EXCEPT ![w] = "check"]
  BY LinesType DEF AwaitInv, ResumeOn, Go, Threads, Kinds
<1>2. PICK c \in Coroutines : c = current[w]
  BY <1>1
<1>3. /\ Body[c][step[c]].kind = "on" /\ step' = [step EXCEPT ![c] = @ + 1]
      /\ todo' = [todo EXCEPT ![w] = << Posting(c, RootOr(c, c), 1) >>]
  BY <1>2 DEF ResumeOn
<1>4. \A x : ~Awaits(c, step[c], x)
  BY <1>3 DEF Awaits
<1>5. PICK p \in Postings : p = Posting(c, RootOr(c, c), 1)
  <2>1. c \in Jobs /\ RootOr(c, c) \in Roots
    BY <1>1 DEF RootOr, TypeInv, TypeOK, Jobs, Roots
  <2> QED
    BY <2>1, PostingType
<1>6. p.job = c /\ p.root = RootOr(c, c)
  BY <1>5 DEF Posting
<1>7. todo' = [todo EXCEPT ![w] = << p >>]
  BY <1>3, <1>5
<1>8. /\ \E M \in Tables :
             /\ Dropped(Lines, M, w, 5) /\ Head(Lines[w][5]) = current[w]
             /\ Added(M, Lines', w, 0, p.job)
      /\ \A t \in Threads, r \in Postings : Occurs(r, todo'[t]) =>
             \/ Occurs(r, todo[t]) /\ todo'[t] = todo[t]
             \/ r = p
      /\ \A t \in Threads : stage'[t] # "add" => stage[t] # "add" /\ todo'[t] = todo[t]
  BY <1>1, <1>7, RepostLines
<1>9. /\ OnePlace(Lines', done)
      /\ \A i \in Jobs : Within(Lines', i) <=> Within(Lines, i)
      /\ \A z \in Threads, v \in Kinds, i \in Jobs :
             Occurs(i, Lines'[z][v]) => Occurs(i, Lines[z][v]) \/ v = 0
  <2>1. PICK M \in Tables : /\ Dropped(Lines, M, w, 5) /\ Head(Lines[w][5]) = c
                            /\ Added(M, Lines', w, 0, c)
    BY <1>2, <1>6, <1>8
  <2>2. PICK L \in Tables : L = Lines
    BY <1>1 DEF LinesAre
  <2>3. PICK N : N = Lines'
    OBVIOUS
  <2>4. PICK D : D = done
    OBVIOUS
  <2>5. PICK s \in Kinds : s = 5
    BY <1>1
  <2>6. PICK u \in Kinds : u = 0
    BY <1>1
  <2>7. PICK y \in Threads : y = w
    BY <1>1
  <2>8. Dropped(L, M, w, s) /\ Added(M, N, y, u, Head(L[w][s])) /\ OnePlace(L, D)
    BY <1>1, <2>1, <2>2, <2>3, <2>4, <2>5, <2>6, <2>7
  <2>9. /\ OnePlace(N, D)
        /\ \A i \in Jobs : Within(N, i) <=> Within(L, i)
        /\ \A z \in Threads, v \in Kinds, i \in Jobs :
               Occurs(i, N[z][v]) => \/ Occurs(i, L[z][v])
                                     \/ i = Head(L[w][s]) /\ z = y /\ v = u
    <3>1. w \in Threads
      BY <1>1
    <3> QED
      BY <2>8, <3>1, MovePlaces
  <2> QED
    BY <2>2, <2>3, <2>4, <2>6, <2>9
<1>10. \A i \in Jobs : Beyond(Lines', i) => Beyond(Lines, i)
  <2>1. \A v \in 1 .. 5 : v \in Kinds /\ v # 0
    BY DEF Kinds
  <2> QED
    BY <1>9, <2>1 DEF Beyond
<1>11. OnePlace(Lines, done)' /\ ~Ended(c)
  BY <1>1, <1>2, <1>9
<1>12. \A t \in Threads, r \in Postings : Occurs(r, todo'[t]) =>
             \/ Occurs(r, todo[t]) /\ todo'[t] = todo[t]
             \/ r.job = c /\ r.root = RootOr(c, c)
  BY <1>6, <1>8
<1> QED
  BY <1>1, <1>2, <1>3, <1>4, <1>8, <1>9, <1>10, <1>11, <1>12, PassStep

LEMMA ChildPostingsAre ==
  ASSUME NEW c \in Jobs, NEW jobs \in Seq(Jobs)
  PROVE  /\ ChildPostings(c, jobs) \in Seq(Postings) /\ JobsOf(ChildPostings(c, jobs)) = jobs
         /\ \A p : Occurs(p, ChildPostings(c, jobs)) => p.root = c /\ Occurs(p.job, jobs)
         /\ jobs # << >> => /\ Head(ChildPostings(c, jobs)).job = jobs[1]
                            /\ Head(ChildPostings(c, jobs)).count = Len(jobs)
<1>1. PICK q \in Seq(Postings) : q = ChildPostings(c, jobs)
  BY ChildPostingsType
<1>2. /\ Len(jobs) \in Nat /\ Len(q) = Len(jobs)
      /\ \A i \in 1 .. Len(jobs) : q[i] = Posting(jobs[i], c, IF i = 1 THEN Len(jobs) ELSE 0)
  <2>1. Len(jobs) \in Nat
    BY LenProperties
  <2>2. Len([i \in 1 .. Len(jobs) |-> Posting(jobs[i], c, IF i = 1 THEN Len(jobs) ELSE 0)])
        = Len(jobs)
    BY <2>1
  <2> QED
    BY <1>1, <2>1, <2>2 DEF ChildPostings
<1>3. ASSUME NEW i \in 1 .. Len(jobs)
      PROVE  /\ q[i].job = jobs[i] /\ q[i].root = c
             /\ q[i].count = IF i = 1 THEN Len(jobs) ELSE 0
  <2>1. PICK n : n = IF i = 1 THEN Len(jobs) ELSE 0
    OBVIOUS
  <2>2. q[i] = [job |-> jobs[i], root |-> c, count |-> n]
    BY <1>2, <2>1 DEF Posting
  <2> QED
    BY <2>1, <2>2
<1>4. JobsOf(q) = jobs
  <2>1. JobsOf(q) = [i \in 1 .. Len(jobs) |-> q[i].job]
    BY <1>2 DEF JobsOf
  <2>2. JobsOf(q) = [i \in 1 .. Len(jobs) |-> jobs[i]]
    BY <1>3, <2>1
  <2>3. jobs = [i \in 1 .. Len(jobs) |-> jobs[i]]
    OBVIOUS
  <2> QED
    BY <2>2, <2>3
<1>5. ASSUME NEW p, Occurs(p, q) PROVE p.root = c /\ Occurs(p.job, jobs)
  BY <1>2, <1>3, <1>5 DEF Occurs
<1>6. ASSUME jobs # << >> PROVE Head(q).job = jobs[1] /\ Head(q).count = Len(jobs)
  <2>1. 1 \in 1 .. Len(jobs)
    BY <1>2, <1>6
  <2>2. q # << >> /\ Head(q) = q[1]
    BY <1>2, <2>1
  <2> QED
    BY <1>3, <2>1, <2>2
<1> QED
  BY <1>1, <1>4, <1>5, <1>6

(* The places of the jobs when coroutine c leaves its worker for them.     *)
LEMMA AwaitPlaces ==
  ASSUME EachOnce, AwaitInv, TypeInv', NEW w \in Workers, AwaitJobs(w),
         NEW c \in Coroutines, c = current[w], NEW i \in 1 .. Len(Body[c]), i = step[c]
  PROVE  /\ OnePlace(Lines', done)
         /\ \A j \in Jobs : Awaits(c, i, j) => /\ Fresh(j) /\ ~Within(Lines, j) /\ ~Begun(j)
                                               /\ root[j] = NoJob
         /\ \A j \in Jobs : Within(Lines', j) <=> \/ Within(Lines, j) /\ j # c
                                                  \/ Awaits(c, i, j)
         /\ \A j \in Jobs : Beyond(Lines', j) => Beyond(Lines, j)
         /\ \A t \in Threads, p \in Postings : Occurs(p, todo'[t]) =>
                \/ Occurs(p, todo[t]) /\ todo'[t] = todo[t]
                \/ /\ Awaits(c, i, p.job) /\ p.root = c /\ Head(todo'[t]).job = First(c, i)
                   /\ Head(todo'[t]).count = Number(c, i)
         /\ \A t \in Threads : stage'[t] # "add" => stage[t] # "add" /\ todo'[t] = todo[t]
<1>1. /\ TypeInv /\ At(w, "run") /\ OnePlace(Lines, done) /\ LinesAre /\ w \in Threads
      /\ 0 \in Kinds /\ 5 \in Kinds /\ ~Ended(c)
      /\ UNCHANGED << queue, stage, current >> /\ pc' = [pc EXCEPT ![w] = "check"]
      /\ stage[w] = "add" /\ todo[w] = << >>
  BY LinesType, AtType DEF AwaitInv, AwaitJobs, Go, Threads, Kinds
<1>2. Body[c][i].kind = "await" /\ Body[c][i].jobs # << >>
  BY DEF AwaitJobs, Ready
<1>3. PICK jobs \in Seq(Jobs) : jobs = Body[c][i].jobs
  BY <1>2, AwaitsType
<1>4. /\ c \in Jobs /\ c \notin done /\ Within(Lines, c) /\ step[c] \in Nat
  BY <1>1, RunningCoroutine
<1>5. PICK q \in Seq(Postings) : q = ChildPostings(c, jobs)
  BY <1>4, ChildPostingsAre
<1>6. todo' = [todo EXCEPT ![w] = q]
  BY <1>3, <1>5 DEF AwaitJobs
<1>7. PICK M \in Tables : /\ Dropped(Lines, M, w, 5) /\ Head(Lines[w][5]) = current[w]
                          /\ Filled(M, Lines', w, 0, JobsOf(q))
  BY <1>1, <1>6, LeaveLines
<1>8. /\ JobsOf(q) = jobs /\ Head(q).job = First(c, i) /\ Head(q).count = Number(c, i)
      /\ \A p : Occurs(p, q) => p.root = c /\ Awaits(c, i, p.job)
  <2>1. /\ JobsOf(q) = jobs
        /\ \A p : Occurs(p, q) => p.root = c /\ Occurs(p.job, jobs)
        /\ jobs # << >> => Head(q).job = jobs[1] /\ Head(q).count = Len(jobs)
    BY <1>4, <1>5, ChildPostingsAre
  <2>2. \A x : Occurs(x, jobs) => Awaits(c, i, x)
    BY <1>2, <1>3 DEF Awaits
  <2>3. Head(q).job = First(c, i) /\ Head(q).count = Number(c, i)
    BY <1>2, <1>3, <2>1 DEF First, Number
  <2> QED
    BY <2>1, <2>2, <2>3
<1>9. \A j : Awaits(c, i, j) <=> Occurs(j, jobs)
  BY <1>2, <1>3 DEF Awaits
<1>10. ASSUME NEW j \in Jobs, Awaits(c, i, j)
       PROVE  Fresh(j) /\ ~Within(Lines, j) /\ ~Begun(j) /\ root[j] = NoJob
  <2>1. Fresh(j)
    BY <1>4, <1>10 DEF Fresh
  <2> QED
    BY <2>1 DEF AwaitInv, Untouched
<1>11. /\ OnePlace(M, done) /\ ~Within(M, c)
       /\ \A j \in Jobs : /\ Within(M, j) => Within(Lines, j)
                          /\ Within(Lines, j) /\ j # c => Within(M, j)
       /\ \A y \in Threads, u \in Kinds, j \in Jobs : Occurs(j, M[y][u]) => Occurs(j, Lines[y][u])
  <2>1. PICK L \in Tables : L = Lines
    BY <1>1 DEF LinesAre
  <2>2. PICK D : D = done
    OBVIOUS
  <2>3. PICK s \in Kinds : s = 5
    BY <1>1
  <2>4. Dropped(L, M, w, s) /\ OnePlace(L, D) /\ w \in Threads /\ Head(L[w][s]) = c
    BY <1>1, <1>7, <2>1, <2>2, <2>3
  <2>5. /\ OnePlace(M, D)
        /\ \A y \in Threads, u \in Kinds, j \in Jobs :
               /\ Occurs(j, M[y][u]) => Occurs(j, L[y][u])
               /\ Occurs(j, L[y][u]) /\ j # c => Occurs(j, M[y][u])
        /\ c \notin D => ~Within(M, c)
    BY <2>4, DropPlaces
  <2>6. ~Within(M, c) /\ OnePlace(M, done)
    BY <1>4, <2>2, <2>5
  <2>7. \A j \in Jobs : /\ Within(M, j) => Within(L, j)
                        /\ Within(L, j) /\ j # c => Within(M, j)
    BY <2>5 DEF Within
  <2> QED
    BY <2>1, <2>5, <2>6, <2>7
<1>12. /\ OnePlace(Lines', done)
       /\ \A y \in Threads, u \in Kinds, j \in Jobs :
              Occurs(j, Lines'[y][u])
              <=> Occurs(j, M[y][u]) \/ (Awaits(c, i, j) /\ y = w /\ u = 0)
  <2>1. PICK N : N = Lines'
    OBVIOUS
  <2>2. PICK D : D = done
    OBVIOUS
  <2>3. PICK s \in Kinds : s = 0
    BY <1>1
  <2>4. Filled(M, N, w, s, jobs) /\ OnePlace(M, D) /\ w \in Threads
    BY <1>1, <1>7, <1>8, <1>11, <2>1, <2>2, <2>3
  <2>5. Distinct(jobs)
    BY <1>2, <1>3 DEF EachOnce
  <2>6. \A j \in Jobs : Occurs(j, jobs) => ~Within(M, j)
    BY <1>9, <1>10, <1>11
  <2>7. /\ OnePlace(N, D)
        /\ \A y \in Threads, u \in Kinds, j \in Jobs :
               Occurs(j, N[y][u]) <=> Occurs(j, M[y][u]) \/ (Occurs(j, jobs) /\ y = w /\ u = s)
    BY <2>4, <2>5, <2>6, FillPlaces
  <2> QED
    BY <1>9, <2>1, <2>2, <2>3, <2>7
<1>13. \A j \in Jobs : Within(Lines', j) <=> \/ Within(Lines, j) /\ j # c
                                             \/ Awaits(c, i, j)
  <2>1. \A j \in Jobs : Within(Lines', j) <=> Within(M, j) \/ Awaits(c, i, j)
    BY <1>1, <1>12 DEF Within
  <2> QED
    BY <1>11, <2>1
<1>14. \A j \in Jobs : Beyond(Lines', j) => Beyond(Lines, j)
  <2>1. \A v \in 1 .. 5 : v \in Kinds /\ v # 0
    BY DEF Kinds
  <2> QED
    BY <1>11, <1>12, <2>1 DEF Beyond
<1>15. todo'[w] = q /\ \A t \in Threads : t # w => todo'[t] = todo[t]
  BY <1>1, <1>6 DEF TypeInv, TypeOK
<1>16. ASSUME NEW t \in Threads, NEW p \in Postings, Occurs(p, todo'[t])
       PROVE  \/ Occurs(p, todo[t]) /\ todo'[t] = todo[t]
              \/ /\ Awaits(c, i, p.job) /\ p.root = c /\ Head(todo'[t]).job = First(c, i)
                 /\ Head(todo'[t]).count = Number(c, i)
  BY <1>8, <1>15, <1>16
<1>17. \A t \in Threads : stage'[t] # "add" => stage[t] # "add" /\ todo'[t] = todo[t]
  BY <1>1, <1>15
<1> QED
  BY <1>10, <1>12, <1>13, <1>14, <1>16, <1>17

LEMMA AwaitJobsStep ==
  ASSUME EachOnce, AwaitInv, TypeInv', NEW w \in Workers, AwaitJobs(w)
  PROVE  AwaitInv'
<1>1. /\ TypeInv /\ At(w, "run") /\ current[w] \in Coroutines /\ ~Ended(current[w])
      /\ UNCHANGED << root, children, done >>
  BY DEF AwaitInv, AwaitJobs
<1>2. PICK c \in Coroutines : c = current[w]
  BY <1>1
<1>3. /\ c \in Jobs /\ Within(Lines, c) /\ Beyond(Lines, c) /\ RootSet(c) /\ ~Fresh(c)
      /\ step[c] \in Nat \ {0} /\ Settled(c, step[c])
      /\ c \notin done /\ step[c] \in 1 .. Len(Body[c])
  BY <1>1, <1>2, RunningCoroutine
<1>4. PICK i \in 1 .. Len(Body[c]) : i = step[c]
  BY <1>3
<1>5. step' = [step EXCEPT ![c] = @ + 1] /\ Body[c][i].kind = "await" /\ Body[c][i].jobs # << >>
  BY <1>2, <1>4 DEF AwaitJobs, Ready
<1>6. /\ step'[c] = step[c] + 1
      /\ \A d \in Coroutines : step[d] \in Nat \ {0} /\ (d # c => step'[d] = step[d])
      /\ \A d \in Coroutines : d \in Jobs
  BY <1>1, <1>5 DEF TypeInv, TypeOK, Jobs
<1>7. \A j \in Jobs : Awaits(c, i, j) =>
          Fresh(j) /\ ~Within(Lines, j) /\ ~Begun(j) /\ root[j] = NoJob
  BY <1>2, <1>4, AwaitPlaces
<1>8. /\ OnePlace(Lines', done)
      /\ \A j \in Jobs : Within(Lines', j) <=> \/ Within(Lines, j) /\ j # c
                                               \/ Awaits(c, i, j)
      /\ \A j \in Jobs : Beyond(Lines', j) => Beyond(Lines, j)
      /\ \A t \in Threads : stage'[t] # "add" => stage[t] # "add" /\ todo'[t] = todo[t]
  BY <1>2, <1>4, AwaitPlaces
<1>9. \A t \in Threads, p \in Postings : Occurs(p, todo'[t]) =>
          \/ Occurs(p, todo[t]) /\ todo'[t] = todo[t]
          \/ /\ Awaits(c, i, p.job) /\ p.root = c /\ Head(todo'[t]).job = First(c, i)
             /\ Head(todo'[t]).count = Number(c, i)
  BY <1>2, <1>4, AwaitPlaces
<1>10. ~Awaits(c, i, c)
  BY <1>3, <1>7
<1>11. \A x \in Jobs : (Begun(x)' /\ x # c => Begun(x)) /\ (RootSet(x)' => RootSet(x))
  <2>1. ASSUME NEW x \in Jobs, Begun(x)', x # c PROVE Begun(x)
    BY <1>1, <1>6, <2>1 DEF Begun
  <2>2. ASSUME NEW x \in Jobs, RootSet(x)' PROVE RootSet(x)
    BY <1>3, <1>8, <2>1, <2>2 DEF RootSet
  <2> QED
    BY <2>1, <2>2
<1>12. ASSUME NEW x \in Jobs, Fresh(x)' PROVE Fresh(x) /\ ~Awaits(c, i, x)
  <2>0. PICK d \in Coroutines : \E k \in 1 .. Len(Body[d]) : k >= step'[d] /\ Awaits(d, k, x)
    BY <1>12 DEF Fresh
  <2>1. PICK k \in 1 .. Len(Body[d]) : k >= step'[d] /\ Awaits(d, k, x)
    BY <2>0
  <2>2. k >= step[d]
    BY <1>3, <1>6, <2>1
  <2>3. Awaits(c, i, x) => d = c /\ k = i
    BY <2>1, AwaitsOnce
  <2>4. ~Awaits(c, i, x)
    BY <1>4, <1>6, <2>1, <2>3
  <2> QED
    BY <2>1, <2>2, <2>4 DEF Fresh
<1>13. Untouched'
  <2> SUFFICES ASSUME NEW x \in Jobs, Fresh(x)'
               PROVE  ~Within(Lines', x) /\ ~Begun(x)' /\ root[x] = NoJob
    BY <1>1 DEF Untouched
  <2>1. ~Within(Lines, x) /\ ~Begun(x) /\ root[x] = NoJob /\ ~Awaits(c, i, x)
    BY <1>12 DEF AwaitInv, Untouched
  <2>2. x # c
    BY <1>3, <2>1
  <2> QED
    BY <1>8, <1>11, <2>1, <2>2
<1>14. AwaitedRoots'
  <2> SUFFICES ASSUME NEW d \in Coroutines, NEW x \in Jobs, AwaitedBy(d, x)
               PROVE  /\ root[x] \in {NoJob, d} /\ (RootSet(x)' => root[x] = d)
                      /\ \A y \in Threads, p \in Postings :
                             Occurs(p, todo'[y]) /\ p.job = x => p.root = d
    BY <1>1 DEF AwaitedRoots
  <2>1. root[x] \in {NoJob, d} /\ (RootSet(x)' => root[x] = d)
    BY <1>11 DEF AwaitInv, AwaitedRoots
  <2>2. ASSUME NEW y \in Threads, NEW p \in Postings, Occurs(p, todo'[y]), p.job = x
        PROVE  p.root = d
    <3>1. CASE Occurs(p, todo[y])
      BY <2>2, <3>1 DEF AwaitInv, AwaitedRoots
    <3>2. CASE Awaits(c, i, p.job) /\ p.root = c
      <4>1. AwaitedBy(c, x)
        BY <2>2, <3>2 DEF AwaitedBy
      <4> QED
        BY <3>2, <4>1, AwaitedByOne
    <3> QED
      BY <1>9, <2>2, <3>1, <3>2
  <2> QED
    BY <2>1, <2>2
<1>15. FirstLeads'
  <2> SUFFICES ASSUME NEW d \in Coroutines, NEW x \in Jobs, NEW k \in 1 .. Len(Body[d]),
                      Awaits(d, k, x)
               PROVE  /\ root[x] # NoJob => root[First(d, k)] # NoJob
                      /\ root[First(d, k)] = NoJob =>
                             \A y \in Threads, p \in Postings : Occurs(p, todo'[y]) /\ p.job = x =>
                                 /\ Head(todo'[y]).job = First(d, k)
                                 /\ Head(todo'[y]).count = Number(d, k)
    BY <1>1 DEF FirstLeads
  <2>1. root[x] # NoJob => root[First(d, k)] # NoJob
    BY DEF AwaitInv, FirstLeads
  <2>2. ASSUME NEW y \in Threads, NEW p \in Postings, Occurs(p, todo'[y]), p.job = x,
               root[First(d, k)] = NoJob
        PROVE  Head(todo'[y]).job = First(d, k) /\ Head(todo'[y]).count = Number(d, k)
    <3>1. CASE Occurs(p, todo[y]) /\ todo'[y] = todo[y]
      BY <2>2, <3>1 DEF AwaitInv, FirstLeads
    <3>2. CASE /\ Awaits(c, i, p.job) /\ Head(todo'[y]).job = First(c, i)
               /\ Head(todo'[y]).count = Number(c, i)
      <4>1. d = c /\ k = i
        BY <2>2, <3>2, AwaitsOnce
      <4> QED
        BY <3>2, <4>1
    <3> QED
      BY <1>9, <2>2, <3>1, <3>2
  <2> QED
    BY <2>1, <2>2
<1>16. OtherRoots'
  <2>1. \A x, r : GoodRoot(x, r)' <=> GoodRoot(x, r)
    BY <1>1 DEF GoodRoot
  <2> SUFFICES ASSUME NEW x \in Jobs, ~Awaited(x)
               PROVE  /\ GoodRoot(x, root[x])
                      /\ \A y \in Threads, p \in Postings :
                             Occurs(p, todo'[y]) /\ p.job = x => GoodRoot(x, p.root)
    BY <1>1, <2>1 DEF OtherRoots
  <2>2. ~Awaits(c, i, x)
    BY DEF Awaited
  <2> QED
    BY <1>9, <2>2 DEF AwaitInv, OtherRoots
<1>17. DoneEnded'
  BY <1>1, <1>3, <1>6 DEF AwaitInv, DoneEnded, Ended
<1>18. DoneAgain'
  <2>1. \A x \in Jobs : x \in done /\ Within(Lines', x) => Within(Lines, x)
    BY <1>7, <1>8 DEF Begun
  <2> QED
    BY <1>1, <2>1 DEF AwaitInv, DoneAgain
<1>19. CountedUp'
  BY <1>1, <1>6, <1>8 DEF AwaitInv, CountedUp
<1>20. GoesOn'
  <2> SUFFICES ASSUME NEW d \in Coroutines, Within(Lines', d) \/ d \in done,
                      NEW k \in 1 .. Len(Body[d]), NEW x \in Jobs, k < step'[d], Awaits(d, k, x)
               PROVE  x \in done
    BY <1>1 DEF GoesOn, Settled
  <2>1. d # c
    BY <1>3, <1>8, <1>10
  <2>2. CASE Within(Lines, d) \/ d \in done
    BY <1>6, <2>1, <2>2 DEF AwaitInv, GoesOn, Settled
  <2>3. CASE Awaits(c, i, d)
    <3>1. ~(step[d] > 1)
      BY <1>6, <1>7, <2>3 DEF Begun
    <3> QED
      BY <1>6, <2>1, <3>1
  <2> QED
    BY <1>6, <1>8, <2>2, <2>3
<1>21. Suspended'
  <2> SUFFICES ASSUME NEW d \in Coroutines, d \notin done, ~Within(Lines', d),
                      NEW k \in 1 .. Len(Body[d]), step'[d] = k + 1
               PROVE  Waits(d, k)'
    BY <1>1 DEF Suspended
  <2>1. \A e \in Coroutines : \A n \in 1 .. Len(Body[e]) : Waits(e, n)' <=> Waits(e, n)
    BY <1>1 DEF Waits, Settled, Debt, Remaining
  <2>2. CASE d # c
    <3>1. Waits(d, k)
      BY <1>6, <1>8, <2>2 DEF AwaitInv, Suspended
    <3> QED
      BY <2>1, <3>1
  <2>3. CASE d = c
    <3>1. k = i
      BY <1>3, <1>4, <1>6, <2>3
    <3>2. Settled(c, i)
      BY <1>3, <1>4
    <3>3. children[c] >= 0 /\ children[c] \in Int
      BY <1>1, <1>3 DEF AwaitInv, CountedUp, TypeInv, TypeOK
    <3>4. root[First(c, i)] = NoJob /\ Number(c, i) \in Nat
      BY <1>5, <1>7, AwaitsType
    <3>5. Debt(c, i) = Number(c, i)
      BY <3>4 DEF Debt
    <3>6. Cardinality(Remaining(c, i)) \in Nat /\ Cardinality(Remaining(c, i)) <= Number(c, i)
      BY <1>5, RemainingFinite
    <3>7. children[c] + Debt(c, i) >= Cardinality(Remaining(c, i))
      BY <3>3, <3>4, <3>5, <3>6
    <3>8. Waits(c, i)
      BY <1>5, <3>2, <3>7 DEF Waits
    <3> QED
      BY <2>1, <2>3, <3>1, <3>8
  <2> QED
    BY <2>2, <2>3
<1>22. StepBound'
  <2>1. Body[c] \in Seq(Suspensions)
    BY ConstantsOK DEF ConstantsOK
  <2>2. Len(Body[c]) \in Nat
    BY <2>1, LenProperties
  <2> QED
    BY <1>3, <1>6, <2>2 DEF AwaitInv, StepBound
<1> QED
  BY <1>1, <1>8, <1>13, <1>14, <1>15, <1>16, <1>17, <1>18, <1>19, <1>20, <1>21, <1>22
  DEF AwaitInv
-----------------------------------------------------------------------------
(* Finishing a job.                                                        *)

(* A coroutine that is not done waits for the job that counts off it.      *)
LEMMA ParentWaits ==
  ASSUME EachOnce, AwaitInv, NEW w \in Workers, At(w, "run"), NEW j \in Jobs, j = current[w],
         NEW c \in Jobs, c = root[j], c \notin done, c # j
  PROVE  /\ c \in Coroutines /\ j \notin done /\ ~Within(Lines, c) /\ step[c] \in Nat
         /\ \E i \in 1 .. Len(Body[c]) :
                Awaits(c, i, j) /\ step[c] = i + 1 /\ Debt(c, i) = 0 /\ Waits(c, i)
<1>1. TypeInv /\ pc[w] = "run" /\ c # NoJob
  BY ConstantsOK DEF AwaitInv, At, ConstantsOK, Jobs
<1>2. Within(Lines, j) /\ RootSet(j) /\ ~Fresh(j)
  BY <1>1, RunPlace DEF AwaitInv, Untouched
<1>3. Awaited(j)
  BY <1>1 DEF AwaitInv, OtherRoots, GoodRoot
<1>4. PICK d \in Coroutines : AwaitedBy(d, j)
  BY <1>3, AwaitedBySome
<1>5. c = d
  BY <1>2, <1>4 DEF AwaitInv, AwaitedRoots
<1>6. c \in Coroutines /\ AwaitedBy(c, j) /\ step[c] \in Nat \ {0}
  BY <1>1, <1>4, <1>5, StepsOfJobs
<1>7. PICK i \in 1 .. Len(Body[c]) : Awaits(c, i, j)
  BY <1>6 DEF AwaitedBy
<1>8. i < step[c]
  BY <1>2, <1>6, <1>7 DEF Fresh
<1>9. j \notin done
  <2> SUFFICES ASSUME j \in done PROVE FALSE
    OBVIOUS
  <2>1. PICK e \in Coroutines : e \in done /\ AwaitedBy(e, j)
    BY <1>2, <1>3 DEF AwaitInv, DoneAgain
  <2>2. e = c
    BY <1>6, <2>1, AwaitedByOne
  <2> QED
    BY <2>1, <2>2
<1>10. ~Within(Lines, c)
  BY <1>6, <1>7, <1>8, <1>9 DEF AwaitInv, GoesOn, Settled
<1>11. PICK n \in 1 .. Len(Body[c]) : step[c] = n + 1
  <2>1. Body[c] \in Seq(Suspensions)
    BY <1>6, ConstantsOK DEF ConstantsOK
  <2>2. Len(Body[c]) \in Nat
    BY <2>1, LenProperties
  <2>3. step[c] <= Len(Body[c]) + 1
    BY <1>6 DEF AwaitInv, StepBound
  <2>4. step[c] - 1 \in 1 .. Len(Body[c]) /\ step[c] = (step[c] - 1) + 1
    BY <1>6, <1>8, <2>2, <2>3
  <2> QED
    BY <2>4
<1>12. Waits(c, n)
  BY <1>6, <1>10, <1>11 DEF AwaitInv, Suspended
<1>13. n = i
  <2>1. ~(i < n)
    BY <1>7, <1>9, <1>12 DEF Waits, Settled
  <2> QED
    BY <1>8, <1>11, <2>1
<1>14. Debt(c, i) = 0
  <2>1. root[First(c, i)] # NoJob
    BY <1>1, <1>6, <1>7 DEF AwaitInv, FirstLeads
  <2> QED
    BY <2>1 DEF Debt
<1> QED
  BY <1>6, <1>7, <1>9, <1>10, <1>11, <1>12, <1>13, <1>14

LEMMA ParentBegun ==
  ASSUME EachOnce, AwaitInv, NEW w \in Workers, At(w, "run"), NEW j \in Jobs, j = current[w],
         NEW c \in Jobs, c = root[j]
  PROVE  RootSet(c) /\ ~Fresh(c)
<1>1. TypeInv /\ pc[w] = "run"
  BY DEF AwaitInv, At
<1>2. CASE c = j
  BY <1>1, <1>2, RunPlace DEF AwaitInv, Untouched
<1>3. CASE c # j
  <2>1. Begun(c)
    <3>1. CASE c \in done
      BY <3>1 DEF Begun
    <3>2. CASE c \notin done
      BY <1>3, <3>2, ParentWaits DEF Begun
    <3> QED
      BY <3>1, <3>2
  <2> QED
    BY <2>1 DEF RootSet, AwaitInv, Untouched
<1> QED
  BY <1>2, <1>3

\* The worker that counts a job off posts its parent c.
Reposts(c) == c \in Coroutines /\ children[c] = 1

(* The lines and postings when worker w leaves job j, done, and counts it   *)
(* off: from the lines M without j to the lines with its parent.           *)
Finished(M, w, j, c, instead) ==
    /\ Dropped(Lines, M, w, 5) /\ Head(Lines[w][5]) = j /\ OnePlace(Lines', done')
    /\ \A y \in Threads, u \in Kinds, x \in Jobs :
           Occurs(x, Lines'[y][u])
           <=> Occurs(x, M[y][u]) \/ (x = c /\ Reposts(c) /\ y = w /\ u = 0)
    /\ \A t \in Threads, r \in Postings : Occurs(r, todo'[t]) =>
           \/ Occurs(r, todo[t]) /\ todo'[t] = todo[t]
           \/ Reposts(c) /\ r.job = c /\ r.root = RootOr(c, instead)
    /\ \A t \in Threads : stage'[t] # "add" => stage[t] # "add" /\ todo'[t] = todo[t]

LEMMA FinishLines ==
  ASSUME EachOnce, AwaitInv, TypeInv', NEW w \in Workers, At(w, "run"),
         NEW j \in Jobs, j = current[w], done' = done \cup {j},
         NEW instead \in Roots, CountOff(w, j, instead), pc' = [pc EXCEPT ![w] = "check"],
         UNCHANGED << queue, stage, current >>, NEW c, c = root[j]
  PROVE  \E M \in Tables : Finished(M, w, j, c, instead)
<1>1. /\ TypeInv /\ OnePlace(Lines, done) /\ LinesAre /\ w \in Threads
      /\ 0 \in Kinds /\ 5 \in Kinds /\ stage[w] = "add" /\ todo[w] = << >>
      /\ todo \in [Threads -> Seq(Postings)] /\ c \in Roots
  <2>1. TypeInv /\ OnePlace(Lines, done) /\ LinesAre
    BY LinesType DEF AwaitInv
  <2>2. TypeOK /\ w \in Threads /\ stage[w] = "add" /\ todo[w] = << >>
    BY <2>1, AtType
  <2>3. 0 \in Kinds /\ 5 \in Kinds
    BY DEF Kinds
  <2> QED
    BY <2>1, <2>2, <2>3 DEF TypeOK
<1>2. ASSUME NEW q \in Seq(Postings), todo' = [todo EXCEPT ![w] = q]
      PROVE  \E M \in Tables :
                 /\ Dropped(Lines, M, w, 5) /\ Head(Lines[w][5]) = j /\ OnePlace(M, done')
                 /\ Filled(M, Lines', w, 0, JobsOf(q))
                 /\ \A x \in Jobs : Within(M, x) => Within(Lines, x)
                 /\ j \notin done => ~Within(M, j)
  <2>1. PICK M \in Tables : /\ Dropped(Lines, M, w, 5) /\ Head(Lines[w][5]) = j
                            /\ Filled(M, Lines', w, 0, JobsOf(q))
    BY <1>1, <1>2, LeaveLines
  <2>2. PICK L \in Tables : L = Lines
    BY <1>1 DEF LinesAre
  <2>3. PICK D : D = done
    OBVIOUS
  <2>4. PICK s \in Kinds : s = 5
    BY <1>1
  <2>5. Dropped(L, M, w, s) /\ OnePlace(L, D) /\ w \in Threads /\ Head(L[w][s]) = j
    BY <1>1, <2>1, <2>2, <2>3, <2>4
  <2>6. /\ OnePlace(M, D)
        /\ \A y \in Threads, u \in Kinds, x \in Jobs : Occurs(x, M[y][u]) => Occurs(x, L[y][u])
        /\ j \notin D => ~Within(M, j)
    BY <2>5, DropPlaces
  <2>7. PICK E : E = done'
    OBVIOUS
  <2>8. OnePlace(M, E)
    <3>1. D \subseteq E
      BY <2>3, <2>7
    <3> QED
      BY <2>6, <3>1, MoreDone
  <2>9. \A x \in Jobs : Within(M, x) => Within(L, x)
    BY <2>6 DEF Within
  <2> QED
    BY <2>1, <2>2, <2>3, <2>6, <2>7, <2>8, <2>9
<1>3. CASE ~Reposts(c)
  <2>1. PICK q \in Seq(Postings) : q = << >>
    <3>1. << >> \in Seq(Postings)
      OBVIOUS
    <3> QED
      BY <3>1
  <2>2. todo' = todo /\ todo = [todo EXCEPT ![w] = q]
    <3>1. todo' = todo
      BY <1>3 DEF CountOff, Reposts
    <3> QED
      BY <1>1, <2>1, <3>1
  <2>3. PICK M \in Tables :
            /\ Dropped(Lines, M, w, 5) /\ Head(Lines[w][5]) = j /\ OnePlace(M, done')
            /\ Filled(M, Lines', w, 0, JobsOf(q))
    BY <1>2, <2>2
  <2>4. PICK e \in Seq(Jobs) : e = << >>
    <3>1. << >> \in Seq(Jobs)
      OBVIOUS
    <3> QED
      BY <3>1
  <2>5. JobsOf(q) = e
    BY <2>1, <2>4 DEF JobsOf
  <2>6. PICK N : N = Lines'
    OBVIOUS
  <2>7. PICK E : E = done'
    OBVIOUS
  <2>8. PICK s \in Kinds : s = 0
    BY <1>1
  <2>9. Filled(M, N, w, s, e) /\ OnePlace(M, E) /\ w \in Threads
    BY <1>1, <2>3, <2>5, <2>6, <2>7, <2>8
  <2>10. Distinct(e) /\ \A x : ~Occurs(x, e)
    BY <2>4 DEF Distinct, Occurs
  <2>11. /\ OnePlace(N, E)
         /\ \A y \in Threads, u \in Kinds, x \in Jobs :
                Occurs(x, N[y][u]) <=> Occurs(x, M[y][u]) \/ (Occurs(x, e) /\ y = w /\ u = s)
    BY <2>9, <2>10, FillPlaces
  <2>12. \A y \in Threads, u \in Kinds, x \in Jobs : Occurs(x, N[y][u]) <=> Occurs(x, M[y][u])
    BY <2>10, <2>11
  <2> QED
    BY <1>1, <1>3, <2>2, <2>3, <2>6, <2>7, <2>11, <2>12 DEF Finished
<1>4. CASE Reposts(c)
  <2>1. c \in Jobs /\ c # NoJob /\ RootOr(c, instead) \in Roots
    BY <1>1, <1>4, ConstantsOK DEF Reposts, Jobs, ConstantsOK, RootOr, TypeInv, TypeOK
  <2>2. PICK p \in Postings : p = Posting(c, RootOr(c, instead), 0)
    BY <2>1, PostingType
  <2>3. p.job = c /\ p.root = RootOr(c, instead)
    BY <2>2 DEF Posting
  <2>4. PICK q \in Seq(Postings) : q = << p >>
    BY SinglePosting
  <2>5. todo' = [todo EXCEPT ![w] = q] /\ todo' = [todo EXCEPT ![w] = << p >>]
    BY <1>4, <2>1, <2>2, <2>4 DEF CountOff, Reposts
  <2>6. PICK M \in Tables :
            /\ Dropped(Lines, M, w, 5) /\ Head(Lines[w][5]) = j /\ OnePlace(M, done')
            /\ Filled(M, Lines', w, 0, JobsOf(q))
            /\ \A x \in Jobs : Within(M, x) => Within(Lines, x)
            /\ j \notin done => ~Within(M, j)
    BY <1>2, <2>5
  <2>7. PICK N : N = Lines'
    OBVIOUS
  <2>8. PICK E : E = done'
    OBVIOUS
  <2>9. PICK s \in Kinds : s = 0
    BY <1>1
  <2>10. Added(M, N, w, s, c) /\ OnePlace(M, E) /\ w \in Threads
    <3>1. JobsOf(q) = << c >> /\ Append(<< >>, c) = << c >>
      BY <2>3, <2>4, SinglePosting
    <3>2. M[w][s] = << >> /\ N = [M EXCEPT ![w][s] = << c >>]
      BY <2>6, <2>7, <2>9, <3>1 DEF Filled
    <3> QED
      BY <1>1, <2>6, <2>8, <3>1, <3>2 DEF Added
  <2>11. c \in E \/ ~Within(M, c)
    BY <2>1, <2>6, <2>8, ParentWaits
  <2>12. /\ OnePlace(N, E)
         /\ \A y \in Threads, u \in Kinds, x \in Jobs :
                Occurs(x, N[y][u]) <=> Occurs(x, M[y][u]) \/ (x = c /\ y = w /\ u = s)
    BY <2>1, <2>10, <2>11, AddPlaces
  <2>13. /\ \A t \in Threads, r \in Postings : Occurs(r, todo'[t]) =>
                \/ Occurs(r, todo[t]) /\ todo'[t] = todo[t]
                \/ r = p
         /\ \A t \in Threads : stage'[t] # "add" => stage[t] # "add" /\ todo'[t] = todo[t]
    BY <1>1, <2>5, RepostLines
  <2> QED
    BY <1>4, <2>3, <2>6, <2>7, <2>8, <2>9, <2>12, <2>13 DEF Finished
<1> QED
  BY <1>3, <1>4

\* Where jobs and postings are after that.
Rearranged(j, c, instead) ==
    /\ OnePlace(Lines', done')
    /\ \A x \in Jobs : /\ Within(Lines', x) => Within(Lines, x) \/ (x = c /\ Reposts(c))
                       /\ Within(Lines, x) /\ x # j => Within(Lines', x)
                       /\ Beyond(Lines', x) => Beyond(Lines, x)
    /\ j \notin done /\ Within(Lines', j) => c = j
    /\ \A t \in Threads, r \in Postings : Occurs(r, todo'[t]) =>
           \/ Occurs(r, todo[t]) /\ todo'[t] = todo[t]
           \/ Reposts(c) /\ r.job = c /\ r.root = RootOr(c, instead)
    /\ \A t \in Threads : stage'[t] # "add" => stage[t] # "add" /\ todo'[t] = todo[t]

LEMMA FinishPlaces ==
  ASSUME EachOnce, AwaitInv, TypeInv', NEW w \in Workers, At(w, "run"),
         NEW j \in Jobs, j = current[w], done' = done \cup {j},
         NEW instead \in Roots, CountOff(w, j, instead), pc' = [pc EXCEPT ![w] = "check"],
         UNCHANGED << queue, stage, current >>, NEW c, c = root[j]
  PROVE  Rearranged(j, c, instead)
<1>0. PICK M \in Tables : Finished(M, w, j, c, instead)
  BY FinishLines
<1>1. /\ Dropped(Lines, M, w, 5) /\ Head(Lines[w][5]) = j
      /\ \A y \in Threads, u \in Kinds, x \in Jobs :
             Occurs(x, Lines'[y][u])
             <=> Occurs(x, M[y][u]) \/ (x = c /\ Reposts(c) /\ y = w /\ u = 0)
  BY <1>0 DEF Finished
<1>2. /\ OnePlace(Lines, done) /\ LinesAre /\ w \in Threads /\ 5 \in Kinds
  BY LinesType DEF AwaitInv, Threads, Kinds
<1>3. /\ \A y \in Threads, u \in Kinds, x \in Jobs :
             /\ Occurs(x, M[y][u]) => Occurs(x, Lines[y][u])
             /\ Occurs(x, Lines[y][u]) /\ x # j => Occurs(x, M[y][u])
      /\ j \notin done => ~Within(M, j)
  <2>1. PICK L \in Tables : L = Lines
    BY <1>2 DEF LinesAre
  <2>2. PICK D : D = done
    OBVIOUS
  <2>3. PICK s \in Kinds : s = 5
    BY <1>2
  <2>4. Dropped(L, M, w, s) /\ OnePlace(L, D) /\ w \in Threads /\ Head(L[w][s]) = j
    BY <1>1, <1>2, <2>1, <2>2, <2>3
  <2>5. /\ \A y \in Threads, u \in Kinds, x \in Jobs :
               /\ Occurs(x, M[y][u]) => Occurs(x, L[y][u])
               /\ Occurs(x, L[y][u]) /\ x # j => Occurs(x, M[y][u])
        /\ j \notin D => ~Within(M, j)
    BY <2>4, DropPlaces
  <2> QED
    BY <2>1, <2>2, <2>5
<1>4. \A x \in Jobs : /\ Within(Lines', x) => Within(Lines, x) \/ (x = c /\ Reposts(c))
                      /\ Within(Lines, x) /\ x # j => Within(Lines', x)
  BY <1>1, <1>3 DEF Within
<1>5. \A x \in Jobs : Beyond(Lines', x) => Beyond(Lines, x)
  <2>1. \A v \in 1 .. 5 : v \in Kinds /\ v # 0
    BY DEF Kinds
  <2> QED
    BY <1>1, <1>3, <2>1 DEF Beyond
<1>6. j \notin done /\ Within(Lines', j) => c = j
  BY <1>1, <1>3 DEF Within
<1>7. /\ OnePlace(Lines', done')
      /\ \A t \in Threads, r \in Postings : Occurs(r, todo'[t]) =>
             \/ Occurs(r, todo[t]) /\ todo'[t] = todo[t]
             \/ Reposts(c) /\ r.job = c /\ r.root = RootOr(c, instead)
      /\ \A t \in Threads : stage'[t] # "add" => stage[t] # "add" /\ todo'[t] = todo[t]
  BY <1>0 DEF Finished
<1> QED
  BY <1>4, <1>5, <1>6, <1>7 DEF Rearranged

(* One awaited job less remains when job j is done.                        *)
LEMMA OneLess ==
  ASSUME NEW c \in Coroutines, NEW i \in 1 .. Len(Body[c]), NEW j, Awaits(c, i, j),
         j \notin done, done' = done \cup {j}
  PROVE  /\ Cardinality(Remaining(c, i)) \in Nat
         /\ Cardinality(Remaining(c, i)') = Cardinality(Remaining(c, i)) - 1
         /\ Cardinality(Remaining(c, i)) <= 1 => \A x : Awaits(c, i, x) => x \in done'
<1>1. PICK S : S = Remaining(c, i)
  OBVIOUS
<1>2. PICK T : T = Remaining(c, i)'
  OBVIOUS
<1>3. IsFiniteSet(S) /\ Cardinality(S) \in Nat
  BY <1>1, RemainingFinite DEF Awaits
<1>4. \A x : Awaits(c, i, x) => x \in Jobs
  BY AwaitsFirst
<1>5. T = S \ {j} /\ j \in S
  BY <1>1, <1>2, <1>4 DEF Remaining
<1>6. Cardinality(T) = Cardinality(S) - 1 /\ IsFiniteSet(T)
  BY <1>3, <1>5, FS_RemoveElement
<1>7. ASSUME Cardinality(S) <= 1 PROVE \A x : Awaits(c, i, x) => x \in done'
  <2>1. Cardinality(T) = 0
    <3>1. Cardinality(T) \in Nat
      BY <1>6, FS_CardinalityType
    <3> QED
      BY <1>3, <1>6, <1>7, <3>1
  <2>2. T = {}
    BY <1>6, <2>1, FS_EmptySet
  <2> QED
    BY <1>2, <1>4, <2>2 DEF Remaining
<1> QED
  BY <1>1, <1>2, <1>3, <1>6, <1>7

LEMMA AwaitFinish ==
  ASSUME EachOnce, AwaitInv, TypeInv', NEW w \in Workers, At(w, "run"),
         NEW j \in Jobs, j = current[w], j \in Coroutines => Ended(j), done' = done \cup {j},
         NEW instead \in {NoJob, j}, instead = j => j \in Coroutines,
         CountOff(w, j, instead), pc' = [pc EXCEPT ![w] = "check"],
         UNCHANGED << queue, stage, current >>, UNCHANGED << root, step >>
  PROVE  AwaitInv'
<1>1. /\ TypeInv /\ pc[w] = "run" /\ instead \in Roots /\ j \in Roots /\ root[j] \in Roots
      /\ NoJob \notin Jobs
      /\ \A d \in Coroutines : d \in Jobs /\ step[d] \in Nat \ {0}
      /\ \A d \in Jobs : children[d] \in Int
  BY ConstantsOK DEF AwaitInv, At, TypeInv, TypeOK, Jobs, Roots, ConstantsOK
<1>2. PICK c \in Roots : c = root[j]
  BY <1>1
<1>3. Within(Lines, j) /\ RootSet(j) /\ ~Fresh(j)
  BY <1>1, RunPlace DEF AwaitInv, Untouched
<1>0. Rearranged(j, c, instead)
  BY <1>1, <1>2, FinishPlaces
<1>4. /\ OnePlace(Lines', done')
      /\ \A x \in Jobs : /\ Within(Lines', x) => Within(Lines, x) \/ (x = c /\ Reposts(c))
                         /\ Within(Lines, x) /\ x # j => Within(Lines', x)
                         /\ Beyond(Lines', x) => Beyond(Lines, x)
      /\ j \notin done /\ Within(Lines', j) => c = j
      /\ \A t \in Threads : stage'[t] # "add" => stage[t] # "add" /\ todo'[t] = todo[t]
  BY <1>0 DEF Rearranged
<1>5. \A t \in Threads, r \in Postings : Occurs(r, todo'[t]) =>
             \/ Occurs(r, todo[t]) /\ todo'[t] = todo[t]
             \/ Reposts(c) /\ r.job = c /\ r.root = RootOr(c, instead)
  BY <1>0 DEF Rearranged
<1>6. /\ \A d \in Jobs : d # c => children'[d] = children[d]
      /\ c \in Jobs => children'[c] = children[c] - 1
  <2>1. children \in [Jobs -> Int]
    BY <1>1 DEF TypeInv, TypeOK
  <2>2. CASE c = NoJob
    BY <1>1, <1>2, <2>2 DEF CountOff
  <2>3. CASE c # NoJob
    <3>1. children' = [children EXCEPT ![c] = @ - 1]
      BY <1>2, <2>3 DEF CountOff
    <3> QED
      BY <2>1, <3>1
  <2> QED
    BY <2>2, <2>3
<1>7. c \in Jobs => RootSet(c) /\ ~Fresh(c)
  BY <1>2, ParentBegun
<1>8. ASSUME c \in Jobs, c \notin done, c # j
      PROVE  /\ c \in Coroutines /\ j \notin done /\ ~Within(Lines, c)
             /\ \E i \in 1 .. Len(Body[c]) :
                    Awaits(c, i, j) /\ step[c] = i + 1 /\ Debt(c, i) = 0 /\ Waits(c, i)
  BY <1>2, <1>8, ParentWaits
<1>9. /\ Reposts(c) => c \in Jobs
      /\ \A d \in Coroutines : AwaitedBy(d, j) => d = c
      /\ done \subseteq done' /\ j \in done' /\ (\A x \in done' : x \in done \/ x = j)
  <2>1. \A d \in Coroutines : AwaitedBy(d, j) => d = c
    BY <1>2, <1>3 DEF AwaitInv, AwaitedRoots
  <2>2. Reposts(c) => c \in Jobs
    BY <1>1 DEF Reposts
  <2> QED
    BY <2>1, <2>2
<1>10. /\ \A x : Fresh(x)' => Fresh(x)
       /\ \A x \in Jobs : Begun(x)' => Begun(x) \/ x = j
  BY <1>9 DEF Fresh, Begun
<1>11. \A x \in Jobs : RootSet(x)' => RootSet(x)
  BY <1>3, <1>4, <1>10 DEF RootSet
<1>12. Untouched'
  <2> SUFFICES ASSUME NEW x \in Jobs, Fresh(x)'
               PROVE  ~Within(Lines', x) /\ ~Begun(x)' /\ root[x] = NoJob
    BY DEF Untouched
  <2>1. Fresh(x) /\ ~Within(Lines, x) /\ ~Begun(x) /\ root[x] = NoJob
    BY <1>10 DEF AwaitInv, Untouched
  <2>2. x # j /\ x # c
    BY <1>3, <1>7, <2>1
  <2> QED
    BY <1>4, <1>10, <2>1, <2>2
<1>13. AwaitedRoots'
  <2> SUFFICES ASSUME NEW d \in Coroutines, NEW x \in Jobs, AwaitedBy(d, x)
               PROVE  /\ root[x] \in {NoJob, d} /\ (RootSet(x)' => root[x] = d)
                      /\ \A y \in Threads, p \in Postings :
                             Occurs(p, todo'[y]) /\ p.job = x => p.root = d
    BY DEF AwaitedRoots
  <2>1. root[x] \in {NoJob, d} /\ (RootSet(x)' => root[x] = d)
    BY <1>11 DEF AwaitInv, AwaitedRoots
  <2>2. ASSUME NEW y \in Threads, NEW p \in Postings, Occurs(p, todo'[y]), p.job = x
        PROVE  p.root = d
    <3>1. CASE Occurs(p, todo[y])
      BY <2>2, <3>1 DEF AwaitInv, AwaitedRoots
    <3>2. CASE Reposts(c) /\ p.job = c /\ p.root = RootOr(c, instead)
      <4>1. RootSet(x)
        BY <1>7, <1>9, <2>2, <3>2
      <4>2. root[x] = d /\ d # NoJob
        BY <1>1, <4>1 DEF AwaitInv, AwaitedRoots
      <4> QED
        BY <2>2, <3>2, <4>2 DEF RootOr
    <3> QED
      BY <1>5, <2>2, <3>1, <3>2
  <2> QED
    BY <2>1, <2>2
<1>14. FirstLeads'
  <2> SUFFICES ASSUME NEW d \in Coroutines, NEW x \in Jobs, NEW k \in 1 .. Len(Body[d]),
                      Awaits(d, k, x)
               PROVE  /\ root[x] # NoJob => root[First(d, k)] # NoJob
                      /\ root[First(d, k)] = NoJob =>
                             \A y \in Threads, p \in Postings : Occurs(p, todo'[y]) /\ p.job = x =>
                                 /\ Head(todo'[y]).job = First(d, k)
                                 /\ Head(todo'[y]).count = Number(d, k)
    BY DEF FirstLeads
  <2>1. root[x] # NoJob => root[First(d, k)] # NoJob
    BY DEF AwaitInv, FirstLeads
  <2>2. ASSUME NEW y \in Threads, NEW p \in Postings, Occurs(p, todo'[y]), p.job = x,
               root[First(d, k)] = NoJob
        PROVE  Head(todo'[y]).job = First(d, k) /\ Head(todo'[y]).count = Number(d, k)
    <3>1. CASE Occurs(p, todo[y]) /\ todo'[y] = todo[y]
      BY <2>2, <3>1 DEF AwaitInv, FirstLeads
    <3>2. CASE Reposts(c) /\ p.job = c
      <4>1. RootSet(x) /\ AwaitedBy(d, x)
        BY <1>7, <1>9, <2>2, <3>2 DEF AwaitedBy
      <4>2. root[x] = d /\ d # NoJob
        BY <1>1, <4>1 DEF AwaitInv, AwaitedRoots
      <4> QED
        BY <2>1, <2>2, <4>2
    <3> QED
      BY <1>5, <2>2, <3>1, <3>2
  <2> QED
    BY <2>1, <2>2
<1>15. OtherRoots'
  <2>1. \A x, r : GoodRoot(x, r) => GoodRoot(x, r)'
    BY <1>9 DEF GoodRoot
  <2> SUFFICES ASSUME NEW x \in Jobs, ~Awaited(x)
               PROVE  /\ GoodRoot(x, root[x])'
                      /\ \A y \in Threads, p \in Postings :
                             Occurs(p, todo'[y]) /\ p.job = x => GoodRoot(x, p.root)'
    BY DEF OtherRoots
  <2>2. GoodRoot(x, root[x]) /\ GoodRoot(x, root[x])'
    BY <2>1 DEF AwaitInv, OtherRoots
  <2>3. ASSUME x = c PROVE GoodRoot(x, instead)'
    <3>1. CASE instead = NoJob
      BY <3>1 DEF GoodRoot
    <3>2. CASE instead = j
      <4>1. Awaited(j) => AwaitedBy(c, j)
        BY <1>9, AwaitedBySome
      <4> QED
        BY <1>9, <2>3, <3>2, <4>1 DEF GoodRoot
    <3> QED
      BY <3>1, <3>2
  <2>4. ASSUME NEW y \in Threads, NEW p \in Postings, Occurs(p, todo'[y]), p.job = x
        PROVE  GoodRoot(x, p.root)'
    <3>1. CASE Occurs(p, todo[y])
      BY <2>1, <2>4, <3>1 DEF AwaitInv, OtherRoots
    <3>2. CASE p.job = c /\ p.root = RootOr(c, instead)
      <4>1. CASE root[c] = NoJob
        BY <2>3, <2>4, <3>2, <4>1 DEF RootOr
      <4>2. CASE root[c] # NoJob
        BY <2>2, <2>4, <3>2, <4>2 DEF RootOr
      <4> QED
        BY <4>1, <4>2
    <3> QED
      BY <1>5, <2>4, <3>1, <3>2
  <2> QED
    BY <2>2, <2>4
<1>16. DoneEnded' /\ StepBound'
  BY <1>9 DEF AwaitInv, DoneEnded, Ended, StepBound
<1>17. ASSUME NEW d \in Coroutines, AwaitedBy(d, j), Within(Lines, d) \/ d \in done
       PROVE  j \in done
  <2>1. PICK i \in 1 .. Len(Body[d]) : Awaits(d, i, j)
    BY <1>17 DEF AwaitedBy
  <2>2. i < step[d]
    BY <1>1, <1>3, <2>1 DEF Fresh
  <2> QED
    BY <1>17, <2>1, <2>2 DEF AwaitInv, GoesOn, Settled
<1>18. DoneAgain'
  <2> SUFFICES ASSUME NEW x \in Jobs, x \in done', Within(Lines', x), Awaited(x)
               PROVE  \E d \in Coroutines : d \in done' /\ AwaitedBy(d, x) /\ ~Awaited(d)
    BY DEF DoneAgain
  <2>1. CASE x \in done /\ Within(Lines, x)
    BY <1>9, <2>1 DEF AwaitInv, DoneAgain
  <2>2. CASE x = j /\ j \notin done
    <3>1. PICK d \in Coroutines : AwaitedBy(d, j)
      BY <2>2, AwaitedBySome
    <3>2. d = j
      BY <1>4, <1>9, <2>2, <3>1
    <3> QED
      BY <1>3, <1>17, <2>2, <3>1, <3>2
  <2>3. CASE x \in done /\ ~Within(Lines, x)
    <3>1. x = c /\ c \in Jobs /\ c \in done /\ c # j /\ Reposts(c) /\ c # NoJob
      BY <1>1, <1>3, <1>4, <2>3
    <3>2. CASE Awaited(j)
      <4>1. AwaitedBy(c, j) /\ c \in Coroutines
        BY <1>9, <3>2, AwaitedBySome DEF AwaitedBy
      <4>2. j \in done
        BY <1>17, <3>1, <4>1
      <4>3. PICK d \in Coroutines : d \in done /\ AwaitedBy(d, j) /\ ~Awaited(d)
        BY <1>3, <3>2, <4>2 DEF AwaitInv, DoneAgain
      <4> QED
        BY <1>9, <3>1, <4>3
    <3>3. CASE ~Awaited(j)
      <4>1. GoodRoot(j, c)
        BY <1>2, <3>3 DEF AwaitInv, OtherRoots
      <4>2. AwaitedBy(j, c) /\ j \in Coroutines
        BY <3>1, <4>1 DEF GoodRoot, AwaitedBy
      <4> QED
        BY <1>9, <3>1, <3>3, <4>2
    <3> QED
      BY <3>2, <3>3
  <2> QED
    BY <1>9, <2>1, <2>2, <2>3
<1>19. GoesOn'
  <2> SUFFICES ASSUME NEW d \in Coroutines, Within(Lines', d) \/ d \in done',
                      NEW k \in 1 .. Len(Body[d]), NEW x \in Jobs, k < step[d], Awaits(d, k, x)
               PROVE  x \in done'
    BY DEF GoesOn, Settled
  <2>1. CASE Within(Lines, d) \/ d \in done
    BY <1>9, <2>1 DEF AwaitInv, GoesOn, Settled
  <2>2. CASE ~Within(Lines, d) /\ d \notin done
    <3>1. d = c /\ c \in Jobs /\ c # j /\ children[c] = 1
      BY <1>1, <1>3, <1>4, <1>9, <2>2 DEF Reposts
    <3>2. PICK i \in 1 .. Len(Body[c]) :
              Awaits(c, i, j) /\ step[c] = i + 1 /\ Debt(c, i) = 0 /\ Waits(c, i)
      BY <1>8, <2>2, <3>1
    <3>3. j \notin done /\ c \in Coroutines
      BY <1>8, <2>2, <3>1
    <3>4. /\ Cardinality(Remaining(c, i)) \in Nat
          /\ Cardinality(Remaining(c, i)) <= 1 => \A z : Awaits(c, i, z) => z \in done'
      BY <3>2, <3>3, OneLess
    <3>5. Cardinality(Remaining(c, i)) <= 1
      BY <3>1, <3>2, <3>4 DEF Waits
    <3>6. CASE k = i
      BY <3>1, <3>4, <3>5, <3>6
    <3>7. CASE k # i
      <4>1. k < i
        BY <3>1, <3>2, <3>7
      <4> QED
        BY <1>9, <3>1, <3>2, <4>1 DEF Waits, Settled
    <3> QED
      BY <3>6, <3>7
  <2> QED
    BY <2>1, <2>2
<1>20. CountedUp'
  <2> SUFFICES ASSUME NEW d \in Coroutines, d \notin done', Beyond(Lines', d)
               PROVE  children'[d] >= 0
    BY DEF CountedUp
  <2>1. Beyond(Lines, d) /\ d \in Jobs /\ d \notin done /\ d # j
    BY <1>1, <1>4, <1>9
  <2>2. d # c
    BY <1>8, <2>1, WithinBeyond
  <2> QED
    BY <1>6, <2>1, <2>2 DEF AwaitInv, CountedUp
<1>21. Suspended'
  <2> SUFFICES ASSUME NEW d \in Coroutines, d \notin done', ~Within(Lines', d),
                      NEW k \in 1 .. Len(Body[d]), step[d] = k + 1
               PROVE  Waits(d, k)'
    BY DEF Suspended
  <2>1. d \in Jobs /\ d \notin done /\ d # j /\ ~Within(Lines, d)
    BY <1>1, <1>4, <1>9
  <2>2. Waits(d, k)
    BY <2>1 DEF AwaitInv, Suspended
  <2>3. Number(d, k) \in Nat /\ Debt(d, k) \in Nat /\ Debt(d, k)' = Debt(d, k)
    <3>1. Number(d, k) \in Nat
      BY <2>2, AwaitsType DEF Waits
    <3> QED
      BY <3>1 DEF Debt
  <2>4. CASE d # c
    <3>1. children'[d] + Debt(d, k)' >= children[d] + Debt(d, k)
      <4>1. children'[d] = children[d] /\ children[d] \in Int
        BY <1>1, <1>6, <2>1, <2>4
      <4> HIDE DEF Debt
      <4> QED
        BY <2>3, <4>1
    <3> QED
      BY <1>1, <1>9, <2>2, <3>1, StillWaits
  <2>5. CASE d = c
    <3>1. PICK i \in 1 .. Len(Body[c]) :
              Awaits(c, i, j) /\ step[c] = i + 1 /\ Debt(c, i) = 0 /\ Waits(c, i)
      BY <1>8, <2>1, <2>5
    <3>2. k = i /\ c \in Coroutines /\ j \notin done /\ c \in Jobs
      BY <1>8, <2>1, <2>5, <3>1
    <3>3. /\ Cardinality(Remaining(c, i)) \in Nat
          /\ Cardinality(Remaining(c, i)') = Cardinality(Remaining(c, i)) - 1
      BY <3>1, <3>2, OneLess
    <3>4. children[c] >= Cardinality(Remaining(c, i)) /\ children[c] \in Int
      BY <1>1, <3>1, <3>2 DEF Waits
    <3>5. Debt(c, i)' = 0 /\ children'[c] = children[c] - 1
      BY <1>6, <2>3, <2>5, <3>1, <3>2
    <3>6. children'[c] + Debt(c, i)' >= Cardinality(Remaining(c, i)')
      BY <3>3, <3>4, <3>5
    <3>7. Settled(c, i)'
      BY <1>9, <3>1, SameSettled DEF Waits
    <3>8. Waits(c, i)'
      BY <3>1, <3>6, <3>7 DEF Waits
    <3> QED
      BY <2>5, <3>2, <3>8
  <2> QED
    BY <2>4, <2>5
<1>22. OnePlace(Lines, done)'
  BY <1>4
<1> QED
  BY <1>12, <1>13, <1>14, <1>15, <1>16, <1>18, <1>19, <1>20, <1>21, <1>22 DEF AwaitInv
-----------------------------------------------------------------------------
(* The initial states.                                                     *)
LEMMA InitLines ==
  ASSUME Init
  PROVE  /\ TypeInv
         /\ \A x \in Threads : /\ x \in Posters => Lines[x][0] = Script[x] /\ Script[x] \in Seq(Jobs)
                               /\ x \notin Posters => Lines[x][0] = << >>
                               /\ \A s \in 1 .. 5 : Lines[x][s] = << >>
         /\ \A t \in Threads, p \in Postings : Occurs(p, todo[t]) =>
                /\ t \in Posters /\ p.root = NoJob
                /\ \E i \in 1 .. Len(Script[t]) : p.job = Script[t][i]
<1>1. TypeInv /\ LinesAre /\ Script \in [Posters -> Seq(Jobs)]
  BY TypeInit, LinesType, ConstantsOK DEF ConstantsOK
<1>2. ASSUME NEW t \in Threads, t \in Posters
      PROVE  /\ JobsOf(todo[t]) = Script[t] /\ Script[t] \in Seq(Jobs)
             /\ Len(todo[t]) = Len(Script[t])
             /\ \A i \in 1 .. Len(Script[t]) : todo[t][i] = Posting(Script[t][i], NoJob, 1)
  <2>1. PICK s \in Seq(Jobs) : s = Script[t]
    BY <1>1, <1>2
  <2>2. todo[t] = [i \in 1 .. Len(s) |-> Posting(s[i], NoJob, 1)]
    BY <1>2, <2>1 DEF Init
  <2>3. Len(s) \in Nat
    BY <2>1, LenProperties
  <2>4. Len(todo[t]) = Len(s)
    BY <2>2, <2>3
  <2>5. \A i \in 1 .. Len(s) : todo[t][i] = Posting(s[i], NoJob, 1)
    BY <2>2
  <2>6. ASSUME NEW i \in 1 .. Len(s) PROVE todo[t][i].job = s[i]
    <3>1. todo[t][i] = [job |-> s[i], root |-> NoJob, count |-> 1]
      BY <2>5 DEF Posting
    <3> QED
      BY <3>1
  <2>7. JobsOf(todo[t]) = [i \in 1 .. Len(s) |-> s[i]]
    BY <2>4, <2>6 DEF JobsOf
  <2>8. s = [i \in 1 .. Len(s) |-> s[i]]
    OBVIOUS
  <2> QED
    BY <2>1, <2>4, <2>5, <2>7, <2>8
<1>3. ASSUME NEW t \in Threads, t \notin Posters
      PROVE  todo[t] = << >> /\ JobsOf(todo[t]) = << >>
  <2>1. todo[t] = << >>
    BY <1>3 DEF Init
  <2> QED
    BY <2>1 DEF JobsOf
<1>4. ASSUME NEW x \in Threads
      PROVE  /\ Lines[x][0] = JobsOf(todo[x])
             /\ \A s \in 1 .. 5 : Lines[x][s] = << >>
  <2>1. 0 \in Kinds /\ \A s \in 1 .. 5 : s \in Kinds
    BY DEF Kinds
  <2>2. Lines[x][0] = Line(x, 0) /\ \A s \in 1 .. 5 : Lines[x][s] = Line(x, s)
    BY <1>1, <2>1 DEF LinesAre
  <2>3. Line(x, 0) = JobsOf(todo[x])
    BY DEF Line, Left, Init
  <2>4. ASSUME NEW s \in 1 .. 5 PROVE Line(x, s) = << >>
    <3>1. CASE x \notin Workers
      BY <3>1 DEF Line
    <3>2. CASE x \in Workers /\ s = 5
      BY <3>2 DEF Line, Init
    <3>3. CASE x \in Workers /\ s \in 1 .. 4
      <4>1. queue[x][s] = EmptyQueue
        BY <3>3 DEF Init
      <4> QED
        BY <3>3, <4>1, EmptyQueueType DEF Line
    <3> QED
      BY <3>1, <3>2, <3>3
  <2> QED
    BY <2>2, <2>3, <2>4
<1>5. ASSUME NEW t \in Threads, NEW p \in Postings, Occurs(p, todo[t])
      PROVE  /\ t \in Posters /\ p.root = NoJob
             /\ \E i \in 1 .. Len(Script[t]) : p.job = Script[t][i]
  <2>1. t \in Posters
    BY <1>3, <1>5, OccursNone
  <2>2. PICK i \in 1 .. Len(Script[t]) : p = Posting(Script[t][i], NoJob, 1)
    BY <1>2, <1>5, <2>1 DEF Occurs
  <2>3. p.job = Script[t][i] /\ p.root = NoJob
    BY <2>2 DEF Posting
  <2> QED
    BY <2>1, <2>3
<1> QED
  BY <1>1, <1>2, <1>3, <1>4, <1>5

LEMMA AwaitInit == ASSUME EachOnce, Init PROVE AwaitInv
<1>1. /\ TypeInv
      /\ \A x \in Threads : /\ x \in Posters => Lines[x][0] = Script[x] /\ Script[x] \in Seq(Jobs)
                            /\ x \notin Posters => Lines[x][0] = << >>
                            /\ \A s \in 1 .. 5 : Lines[x][s] = << >>
  BY InitLines
<1>2. \A t \in Threads, p \in Postings : Occurs(p, todo[t]) => p.root = NoJob /\ ~Awaited(p.job)
  BY InitLines DEF EachOnce
<1>3. /\ done = {} /\ (\A c \in Coroutines : step[c] = 1) /\ (\A x \in Jobs : root[x] = NoJob)
      /\ (\A t \in Threads : stage[t] = "add") /\ (\A x \in Jobs : children[x] = 0)
      /\ \A c \in Coroutines : c \in Jobs
  BY DEF Init, Jobs
<1>4. \A x \in Threads, s \in Kinds : /\ Lines[x][s] # << >> => s = 0 /\ x \in Posters
                                      /\ Lines[x][s] = << >> \/ Lines[x][s] = Script[x]
  <2> SUFFICES ASSUME NEW x \in Threads, NEW s \in Kinds
               PROVE  /\ Lines[x][s] # << >> => s = 0 /\ x \in Posters
                      /\ Lines[x][s] = << >> \/ Lines[x][s] = Script[x]
    OBVIOUS
  <2>1. s = 0 \/ s \in 1 .. 5
    BY DEF Kinds
  <2> QED
    BY <1>1, <2>1
<1>5. OnePlace(Lines, done)
  <2> SUFFICES ASSUME NEW x \in Threads, NEW y \in Threads, NEW s \in Kinds, NEW u \in Kinds,
                      NEW i \in 1 .. Len(Lines[x][s]), NEW k \in 1 .. Len(Lines[y][u]),
                      Lines[x][s][i] = Lines[y][u][k]
               PROVE  x = y /\ s = u /\ i = k
    BY DEF OnePlace
  <2>1. Lines[x][s] # << >> /\ Lines[y][u] # << >>
    OBVIOUS
  <2>2. /\ x \in Posters /\ y \in Posters /\ s = 0 /\ u = 0
        /\ Lines[x][s] = Script[x] /\ Lines[y][u] = Script[y]
    BY <1>4, <2>1
  <2>3. Script[x][i] = Script[y][k] /\ i \in 1 .. Len(Script[x]) /\ k \in 1 .. Len(Script[y])
    BY <2>2
  <2> QED
    BY <2>2, <2>3 DEF EachOnce
<1>6. ASSUME NEW x \in Jobs, Within(Lines, x) PROVE ~Awaited(x)
  <2>1. PICK y \in Threads, s \in Kinds : Occurs(x, Lines[y][s])
    BY <1>6 DEF Within
  <2>2. Lines[y][s] # << >>
    BY <2>1, OccursNone
  <2>3. y \in Posters /\ Lines[y][s] = Script[y]
    BY <1>4, <2>2
  <2>4. PICK i \in 1 .. Len(Script[y]) : Script[y][i] = x
    BY <2>1, <2>3 DEF Occurs
  <2> QED
    BY <2>3, <2>4 DEF EachOnce
<1>7. \A x \in Jobs : ~Beyond(Lines, x) /\ ~Begun(x) /\ ~RootSet(x)
  <2>1. \A x \in Jobs : ~Beyond(Lines, x)
    BY <1>1, OccursNone DEF Beyond
  <2>2. \A x \in Jobs : ~Begun(x)
    BY <1>3 DEF Begun
  <2> QED
    BY <1>3, <2>1, <2>2 DEF RootSet
<1>8. Untouched
  BY <1>3, <1>6, <1>7 DEF Untouched, Fresh, Awaited
<1>9. AwaitedRoots
  BY <1>2, <1>3, <1>7, AwaitedBySome DEF AwaitedRoots
<1>10. FirstLeads
  <2> SUFFICES ASSUME NEW c \in Coroutines, NEW x \in Jobs, NEW i \in 1 .. Len(Body[c]),
                      Awaits(c, i, x)
               PROVE  /\ root[x] = NoJob
                      /\ \A t \in Threads, p \in Postings : ~(Occurs(p, todo[t]) /\ p.job = x)
    BY DEF FirstLeads
  <2> QED
    BY <1>2, <1>3 DEF Awaited
<1>11. OtherRoots
  BY <1>2, <1>3 DEF OtherRoots, GoodRoot
<1>12. DoneEnded /\ DoneAgain /\ CountedUp
  BY <1>3 DEF DoneEnded, DoneAgain, CountedUp
<1>13. GoesOn
  BY <1>3 DEF GoesOn, Settled
<1>14. Suspended
  <2>1. \A c \in Coroutines : \A i \in 1 .. Len(Body[c]) : step[c] # i + 1
    BY <1>3
  <2> QED
    BY <2>1 DEF Suspended
<1>15. StepBound
  <2> SUFFICES ASSUME NEW c \in Coroutines PROVE step[c] <= Len(Body[c]) + 1
    BY DEF StepBound
  <2>1. Body[c] \in Seq(Suspensions)
    BY ConstantsOK DEF ConstantsOK
  <2>2. Len(Body[c]) \in Nat
    BY <2>1, LenProperties
  <2> QED
    BY <1>3, <2>2
<1> QED
  BY <1>1, <1>5, <1>8, <1>9, <1>10, <1>11, <1>12, <1>13, <1>14, <1>15 DEF AwaitInv
-----------------------------------------------------------------------------
(* Every step.                                                             *)
LEMMA RestStep ==
  ASSUME AwaitInv, TypeInv',
         UNCHANGED << queue, current, todo, stage, root, children, step, done >>,
         \A w \in Workers : pc'[w] = "run" <=> pc[w] = "run"
  PROVE  AwaitInv'
<1>1. \A t \in Threads : Left(t)' = Left(t)
  BY DEF Left
<1>2. Lines' = Lines
  BY <1>1, SameLines DEF AwaitInv
<1> QED
  BY <1>2, IdleStep

LEMMA AwaitCount == ASSUME AwaitInv, TypeInv', NEW t \in Threads, CountPending(t) PROVE AwaitInv'
<1>1. /\ UNCHANGED << queue, current, pc, todo, root, children, step, done >>
      /\ stage[t] = "count" /\ stage' = [stage EXCEPT ![t] = "notify"]
      /\ stage \in [Threads -> {"add", "push", "count", "notify"}]
  BY DEF CountPending, tasks, AwaitInv, TypeInv, TypeOK
<1>2. \A x \in Threads : /\ stage'[x] \in {"count", "notify"} <=> stage[x] \in {"count", "notify"}
                         /\ stage'[x] # "add" => stage[x] # "add"
  BY <1>1
<1>3. \A x \in Threads : Left(x)' = Left(x)
  BY <1>1, <1>2 DEF Left
<1>4. Lines' = Lines
  BY <1>1, <1>3, SameLines DEF AwaitInv
<1> QED
  BY <1>1, <1>2, <1>4, IdleStep

LEMMA AwaitWorker ==
  ASSUME EachOnce, AwaitInv, TypeInv', NEW w \in Workers, WorkerStep(w) \/ WakeSpuriously(w)
  PROVE  AwaitInv'
<1>1. TypeOK
  BY DEF AwaitInv, TypeInv
<1>2. CASE TakeJob(w)
  BY <1>2, AwaitTake
<1>3. CASE GoOn(w) \/ AwaitJobs(w) \/ ResumeOn(w)
  BY <1>3, AwaitGoOn, AwaitJobsStep, AwaitResume
<1>4. CASE CheckWorking(w) \/ FindNothing(w) \/ LockSignal(w) \/ TestPredicate(w) \/ Block(w)
           \/ WakeSpuriously(w)
  <2>1. UNCHANGED << queue, current, todo, stage, root, children, step, done >>
    BY <1>4 DEF CheckWorking, FindNothing, LockSignal, TestPredicate, Block, WakeSpuriously,
                posting, tasks
  <2>2. \A v \in Workers : pc'[v] = "run" <=> pc[v] = "run"
    BY <1>1, <1>4 DEF CheckWorking, FindNothing, LockSignal, TestPredicate, Block,
                      WakeSpuriously, At, Go, TypeOK
  <2> QED
    BY <2>1, <2>2, RestStep
<1>5. CASE FinishFunction(w) \/ FinishCoroutine(w)
  <2>1. PICK j \in Jobs : j = current[w]
    BY <1>5 DEF FinishFunction, FinishCoroutine, Jobs
  <2>2. PICK instead \in {NoJob, j} :
            /\ CountOff(w, j, instead)
            /\ instead = j => j \in Coroutines
    <3>1. CASE FinishFunction(w)
      <4>1. CountOff(w, j, NoJob) /\ NoJob # j
        BY <2>1, <3>1, ConstantsOK DEF FinishFunction, ConstantsOK
      <4> QED
        BY <4>1
    <3>2. CASE FinishCoroutine(w)
      <4>1. CountOff(w, j, j) /\ j \in Coroutines
        BY <2>1, <3>2 DEF FinishCoroutine
      <4> QED
        BY <4>1
    <3> QED
      BY <1>5, <3>1, <3>2
  <2>3. /\ At(w, "run") /\ (j \in Coroutines => Ended(j)) /\ done' = done \cup {j}
        /\ pc' = [pc EXCEPT ![w] = "check"]
        /\ UNCHANGED << queue, stage, current >> /\ UNCHANGED << root, step >>
    BY <1>5, <2>1, ConstantsOK DEF FinishFunction, FinishCoroutine, Go, ConstantsOK
  <2> QED
    BY <2>1, <2>2, <2>3, AwaitFinish
<1> QED
  BY <1>2, <1>3, <1>4, <1>5 DEF WorkerStep

LEMMA AwaitStep == ASSUME EachOnce, AwaitInv, [Next]_vars PROVE AwaitInv'
<1>1. TypeInv' /\ TypeOK
  BY TypeStep DEF AwaitInv, TypeInv
<1>2. ASSUME NEW t \in Threads, Post(t) PROVE AwaitInv'
  BY <1>1, <1>2, AwaitAdd, AwaitPush, AwaitCount, AwaitNotify DEF Post
<1>3. CASE Shutdown \/ PassMutex \/ UNCHANGED vars
  <2>1. UNCHANGED << queue, current, todo, stage, root, children, step, done >> /\ pc' = pc
    BY <1>3 DEF Shutdown, PassMutex, vars, posting, tasks
  <2> QED
    BY <1>1, <2>1, RestStep
<1>4. CASE NotifyStop
  <2>1. UNCHANGED << queue, current, todo, stage, root, children, step, done >>
    BY <1>4 DEF NotifyStop, posting, tasks
  <2>2. \A v \in Workers : pc'[v] = "run" <=> pc[v] = "run"
    BY <1>1, <1>4 DEF NotifyStop, Woken, TypeOK
  <2> QED
    BY <1>1, <2>1, <2>2, RestStep
<1> QED
  BY <1>1, <1>2, <1>3, <1>4, AwaitWorker DEF Next

LEMMA AwaitResumed == AwaitInv => ResumedAfterChildren
<1> SUFFICES ASSUME AwaitInv, NEW w \in Workers, pc[w] = "run", current[w] \in Coroutines,
                    NEW c, c = current[w], NEW i \in 1 .. step[c] - 1, Body[c][i].kind = "await",
                    NEW k \in 1 .. Len(Body[c][i].jobs)
             PROVE  Body[c][i].jobs[k] \in done
  BY DEF ResumedAfterChildren
<1>1. TypeInv /\ c \in Coroutines /\ Within(Lines, c)
  BY RunPlace DEF AwaitInv
<1>2. step[c] \in Nat \ {0} /\ Settled(c, step[c]) /\ step[c] <= Len(Body[c]) + 1
  BY <1>1, StepsOfJobs DEF AwaitInv, GoesOn, StepBound
<1>3. i \in 1 .. Len(Body[c]) /\ i < step[c]
  <2>1. Body[c] \in Seq(Suspensions)
    BY <1>1, ConstantsOK DEF ConstantsOK
  <2>2. Len(Body[c]) \in Nat
    BY <2>1, LenProperties
  <2> QED
    BY <1>2, <2>2
<1>4. Awaits(c, i, Body[c][i].jobs[k])
  BY <1>3 DEF Awaits, Occurs
<1>5. Body[c][i].jobs[k] \in Jobs
  BY <1>1, <1>3, <1>4, AwaitsFirst
<1> QED
  BY <1>2, <1>3, <1>4, <1>5 DEF Settled

\* A coroutine that runs after co_await finds every job done that it awaited
\* before, whichever workers ran and counted them off, and in whatever order:
\* await_suspend of AwaitableTuple and NotifyRootTask post it once, after the last.
THEOREM ResumedWhenDone == ASSUME EachOnce PROVE Spec => []ResumedAfterChildren
<1>1. Init => AwaitInv
  BY AwaitInit
<1>2. AwaitInv /\ [Next]_vars => AwaitInv'
  BY AwaitStep
<1> QED
  BY <1>1, <1>2, AwaitResumed, PTL DEF Spec
=============================================================================
