------------------------------ MODULE JobSystem ------------------------------
(***************************************************************************)
(* The job system: workers that run the functions and coroutines posted to *)
(* their queues, and sleep on a condition variable when there are none.    *)
(*                                                                         *)
(* Jobs are posted by the I/O and tick threads (Posters) and by workers,   *)
(* when a coroutine awaits jobs or moves to another worker and when the    *)
(* last awaited job resumes the coroutine.  A job pinned to a worker goes  *)
(* to a local queue of that worker, any other to a global queue of the     *)
(* next worker in turn; each kind of job has its own queue of both sorts.  *)
(*                                                                         *)
(* A function is opaque and posts nothing itself.  A coroutine is a        *)
(* sequence of suspension points, each of which awaits jobs or asks to be  *)
(* resumed on a worker; no coroutine is awaited after it has finished.     *)
(*                                                                         *)
(* The counters are unsigned in the code and wrap below zero.  They never  *)
(* get near half their range, so the model reads them as signed numbers:   *)
(* what the code sees as more than zero is, in the model, not zero.        *)
(***************************************************************************)
EXTENDS Integers, Sequences, FiniteSets, SListQueue

CONSTANTS
    NumWorkers,     \* system_thread_count
    Posters,        \* threads other than workers that post jobs
    Functions,      \* jobs that are FuncTasks
    Coroutines,     \* jobs that are CoroutineTasks
    NoJob,
    PinnedTo,       \* _thread_index given to each job, -1 for none
    Script,         \* Script[p]: the jobs poster p posts, in order
    Body            \* Body[c]: the suspension points of coroutine c

Workers == 0 .. NumWorkers - 1
Threads == Workers \cup Posters
Jobs == Functions \cup Coroutines
Roots == Jobs \cup {NoJob}

Suspensions == [kind : {"await"}, jobs : Seq(Jobs)] \cup [kind : {"on"}, worker : Workers]

\* A posting: the job, its parent and what it adds to the parent's count.
Postings == [job : Jobs, root : Roots, count : Nat]
Posting(j, r, n) == [job |-> j, root |-> r, count |-> n]

ASSUME ConstantsOK ==
    /\ NumWorkers \in Nat \ {0} /\ IsFiniteSet(Posters)
    /\ Functions \cap Coroutines = {} /\ NoJob \notin Jobs
    /\ PinnedTo \in [Jobs -> Workers \cup {-1}]
    /\ Script \in [Posters -> Seq(Jobs)]
    /\ Body \in [Coroutines -> Seq(Suspensions)]

VARIABLES
    working,    \* is_system_work
    stop,       \* how far the destructor is: [worker, notifying]
    queue,      \* per worker its four queues, in the order they are scanned
    pending,    \* WorkerSignal::pending_task_count
    nextIndex,  \* next_thread_index modulo the number of workers
    todo,       \* postings each thread still has to make
    stage,      \* how far each thread is with the first of them
    target,     \* the worker that posting goes to
    pc,         \* where each worker is
    scan,       \* the queue it looks at next
    current,    \* thread_current_job
    root,       \* Task::_root_task
    children,   \* Task::_children_task_count
    pin,        \* Task::_thread_index
    step,       \* per coroutine, the suspension point it is before
    done        \* history: functions that returned, coroutines that ended

posting == << todo, stage, target >>
tasks == << root, children, pin, step, done >>
vars == << working, stop, queue, pending, nextIndex, posting, pc, scan, current, tasks >>

TypeOK ==
    /\ working \in BOOLEAN
    /\ stop \in [worker : 0 .. NumWorkers, notifying : BOOLEAN]
    /\ queue \in [Workers -> [1 .. 4 -> [push : Seq(Jobs), pop : Seq(Jobs)]]]
    /\ pending \in [Workers -> Int]
    /\ nextIndex \in Workers
    /\ todo \in [Threads -> Seq(Postings)]
    /\ stage \in [Threads -> {"add", "push", "count", "notify"}]
    /\ target \in [Threads -> Workers]
    /\ pc \in [Workers -> {"check", "scan", "run", "lock", "decide", "block", "waiting", "exited"}]
    /\ scan \in [Workers -> 1 .. 4]
    /\ current \in [Workers -> Roots]
    /\ root \in [Jobs -> Roots]
    /\ children \in [Jobs -> Int]
    /\ pin \in [Jobs -> Workers \cup {-1}]
    /\ step \in [Coroutines -> Nat \ {0}]
    /\ done \subseteq Jobs

Init ==
    /\ working = TRUE
    /\ stop = [worker |-> 0, notifying |-> FALSE]
    /\ queue = [w \in Workers |-> [k \in 1 .. 4 |-> EmptyQueue]]
    /\ pending = [w \in Workers |-> 0]
    /\ nextIndex = 0
    /\ todo = [t \in Threads |->
                  IF t \in Posters
                    THEN [i \in 1 .. Len(Script[t]) |-> Posting(Script[t][i], NoJob, 1)]
                    ELSE << >>]
    /\ stage = [t \in Threads |-> "add"]
    /\ target = [t \in Threads |-> 0]
    /\ pc = [w \in Workers |-> "check"]
    /\ scan = [w \in Workers |-> 1]
    /\ current = [w \in Workers |-> NoJob]
    /\ root = [j \in Jobs |-> NoJob]
    /\ children = [j \in Jobs |-> 0]
    /\ pin = PinnedTo
    /\ step = [c \in Coroutines |-> 1]
    /\ done = {}
-----------------------------------------------------------------------------
(* Posting a job: Internal_AddJob, a shared access at a time. *)

Locked_Never(w) == FALSE

\* The worker holds the mutex of its WorkerSignal.
Locked(w) == pc[w] \in {"decide", "block"}

\* Which of a worker's queues job j belongs to.
QueueIndex(j) == (IF pin[j] < 0 THEN 3 ELSE 1) + (IF j \in Coroutines THEN 1 ELSE 0)

Following_Endless(i) == i + 1
Following(i) == (i + 1) % NumWorkers

\* Before Push, as the parent must not be resumed before all are counted.
AddToRoot(t) ==
    /\ todo[t] # << >> /\ stage[t] = "add"
    /\ LET r == Head(todo[t]) IN
       /\ root' = [root EXCEPT ![r.job] = r.root]
       /\ children' = IF r.root = NoJob THEN children
                      ELSE [children EXCEPT ![r.root] = @ + r.count]
       /\ IF pin[r.job] < 0
            THEN /\ target' = [target EXCEPT ![t] = nextIndex]
                 /\ nextIndex' = Following(nextIndex)
            ELSE /\ target' = [target EXCEPT ![t] = pin[r.job]]
                 /\ UNCHANGED nextIndex
    /\ stage' = [stage EXCEPT ![t] = "push"]
    /\ UNCHANGED << working, stop, queue, pending, todo, pc, scan, current, pin, step, done >>

Push(t) ==
    /\ stage[t] = "push"
    /\ LET j == Head(todo[t]).job IN
       /\ children' = [children EXCEPT ![j] = IF j \in Functions THEN 1 ELSE 0]
       /\ queue' = [queue EXCEPT ![target[t]][QueueIndex(j)] = PushBack(@, j)]
    /\ stage' = [stage EXCEPT ![t] = "count"]
    /\ UNCHANGED << working, stop, pending, nextIndex, todo, target, pc, scan, current,
                    root, pin, step, done >>

CountPending(t) ==
    /\ stage[t] = "count" /\ ~Locked(target[t])
    /\ pending' = [pending EXCEPT ![target[t]] = @ + 1]
    /\ stage' = [stage EXCEPT ![t] = "notify"]
    /\ UNCHANGED << working, stop, queue, nextIndex, todo, target, pc, scan, current, tasks >>

Woken_Nobody(w) == pc

\* notify_one: the worker is the only thread that waits on its condition.
Woken(w) == IF pc[w] = "waiting" THEN [pc EXCEPT ![w] = "lock"] ELSE pc

Notify(t) ==
    /\ stage[t] = "notify"
    /\ pc' = Woken(target[t])
    /\ stage' = [stage EXCEPT ![t] = "add"]
    /\ todo' = [todo EXCEPT ![t] = Tail(@)]
    /\ UNCHANGED << working, stop, queue, pending, nextIndex, target, scan, current, tasks >>

Post(t) == AddToRoot(t) \/ Push(t) \/ CountPending(t) \/ Notify(t)
-----------------------------------------------------------------------------
(* The loop of a worker: RunPendingTsak. *)

\* The worker is at `where` and not in the middle of posting.
At(w, where) == pc[w] = where /\ todo[w] = << >>

Go(w, where) == pc' = [pc EXCEPT ![w] = where]

CheckWorking(w) ==
    /\ At(w, "check")
    /\ Go(w, IF working THEN "scan" ELSE "exited")
    /\ scan' = [scan EXCEPT ![w] = 1]
    /\ UNCHANGED << working, stop, queue, pending, nextIndex, posting, current, tasks >>

TakeJob_CoroutineUncounted(w) ==
    /\ At(w, "scan") /\ CanPop(queue[w][scan[w]])
    /\ current' = [current EXCEPT ![w] = Front(queue[w][scan[w]])]
    /\ queue' = [queue EXCEPT ![w][scan[w]] = PopFront(@)]
    /\ pending' = [pending EXCEPT ![w] = IF scan[w] = 4 THEN @ ELSE @ - 1]
    /\ Go(w, "run")
    /\ UNCHANGED << working, stop, nextIndex, posting, scan, tasks >>

\* A queue has a job: take it, and count it off.
TakeJob(w) ==
    /\ At(w, "scan") /\ CanPop(queue[w][scan[w]])
    /\ current' = [current EXCEPT ![w] = Front(queue[w][scan[w]])]
    /\ queue' = [queue EXCEPT ![w][scan[w]] = PopFront(@)]
    /\ pending' = [pending EXCEPT ![w] = @ - 1]
    /\ Go(w, "run")
    /\ UNCHANGED << working, stop, nextIndex, posting, scan, tasks >>

FindNothing(w) ==
    /\ At(w, "scan") /\ ~CanPop(queue[w][scan[w]])
    /\ IF scan[w] < 4
         THEN scan' = [scan EXCEPT ![w] = @ + 1] /\ UNCHANGED pc
         ELSE Go(w, "lock") /\ UNCHANGED scan
    /\ UNCHANGED << working, stop, queue, pending, nextIndex, posting, current, tasks >>

\* cv.wait: lock the mutex, look at the predicate, and wait when it is false.
LockSignal(w) ==
    /\ At(w, "lock")
    /\ Go(w, "decide")
    /\ UNCHANGED << working, stop, queue, pending, nextIndex, posting, scan, current, tasks >>

HasReason_WorkOnly(w) == pending[w] # 0

HasReason(w) == ~working \/ pending[w] # 0

TestPredicate(w) ==
    /\ At(w, "decide")
    /\ Go(w, IF HasReason(w) THEN "check" ELSE "block")
    /\ UNCHANGED << working, stop, queue, pending, nextIndex, posting, scan, current, tasks >>

Block(w) ==
    /\ At(w, "block")
    /\ Go(w, "waiting")
    /\ UNCHANGED << working, stop, queue, pending, nextIndex, posting, scan, current, tasks >>

WakeSpuriously(w) ==
    /\ At(w, "waiting")
    /\ Go(w, "lock")
    /\ UNCHANGED << working, stop, queue, pending, nextIndex, posting, scan, current, tasks >>
-----------------------------------------------------------------------------
(* Running a job. *)

RootOr(j, instead) == IF root[j] = NoJob THEN instead ELSE root[j]

\* Worker w counts job j off its parent and posts the parent after the last
\* one, with its own parent or, when it has none, with `instead`.
CountOff(w, j, instead) ==
    LET parent == root[j] IN
    IF parent = NoJob THEN UNCHANGED << children, todo >>
    ELSE /\ children' = [children EXCEPT ![parent] = @ - 1]
         /\ todo' = IF children[parent] = 1 /\ parent \in Coroutines
                      THEN [todo EXCEPT ![w] = << Posting(parent, RootOr(parent, instead), 0) >>]
                      ELSE todo

\* DoTask of a function, and NotifyRootTask.
FinishFunction(w) ==
    /\ At(w, "run") /\ current[w] \in Functions
    /\ done' = done \cup {current[w]}
    /\ CountOff(w, current[w], NoJob)
    /\ Go(w, "check")
    /\ UNCHANGED << working, stop, queue, pending, nextIndex, stage, target, scan, current,
                    root, pin, step >>

Ended(c) == step[c] > Len(Body[c])

\* final_suspend and FinalAwaiter.  AddAsyncJob makes the current job the parent
\* of a job that comes without one.
FinishCoroutine(w) ==
    /\ At(w, "run") /\ current[w] \in Coroutines /\ Ended(current[w])
    /\ done' = done \cup {current[w]}
    /\ CountOff(w, current[w], current[w])
    /\ Go(w, "check")
    /\ UNCHANGED << working, stop, queue, pending, nextIndex, stage, target, scan, current,
                    root, pin, step >>

\* await_ready: nothing to await, or already on that worker.
Ready(c, s) == IF s.kind = "await" THEN s.jobs = << >> ELSE s.worker = pin[c]

GoOn(w) ==
    /\ At(w, "run") /\ current[w] \in Coroutines /\ ~Ended(current[w])
    /\ LET c == current[w] IN
       /\ Ready(c, Body[c][step[c]])
       /\ step' = [step EXCEPT ![c] = @ + 1]
    /\ UNCHANGED << working, stop, queue, pending, nextIndex, posting, pc, scan, current,
                    root, children, pin, done >>

ChildPostings_OneByOne(c, jobs) ==
    [i \in 1 .. Len(jobs) |-> Posting(jobs[i], c, 1)]

\* The first posting counts all the children, the others none.
ChildPostings(c, jobs) ==
    [i \in 1 .. Len(jobs) |-> Posting(jobs[i], c, IF i = 1 THEN Len(jobs) ELSE 0)]

\* await_suspend of AwaitableTuple.
AwaitJobs(w) ==
    /\ At(w, "run") /\ current[w] \in Coroutines /\ ~Ended(current[w])
    /\ LET c == current[w]
           s == Body[c][step[c]]
       IN  /\ s.kind = "await" /\ ~Ready(c, s)
           /\ todo' = [todo EXCEPT ![w] = ChildPostings(c, s.jobs)]
           /\ step' = [step EXCEPT ![c] = @ + 1]
    /\ Go(w, "check")
    /\ UNCHANGED << working, stop, queue, pending, nextIndex, stage, target, scan, current,
                    root, children, pin, done >>

\* await_suspend of AwaitableResumeOn.
ResumeOn(w) ==
    /\ At(w, "run") /\ current[w] \in Coroutines /\ ~Ended(current[w])
    /\ LET c == current[w]
           s == Body[c][step[c]]
       IN  /\ s.kind = "on" /\ ~Ready(c, s)
           /\ pin' = [pin EXCEPT ![c] = s.worker]
           /\ todo' = [todo EXCEPT ![w] = << Posting(c, RootOr(c, c), 1) >>]
           /\ step' = [step EXCEPT ![c] = @ + 1]
    /\ Go(w, "check")
    /\ UNCHANGED << working, stop, queue, pending, nextIndex, stage, target, scan, current,
                    root, children, done >>
-----------------------------------------------------------------------------
(* The destructor.  The threads that post have been joined before it runs. *)

Shutdown ==
    /\ working /\ \A p \in Posters : todo[p] = << >>
    /\ working' = FALSE
    /\ UNCHANGED << stop, queue, pending, nextIndex, posting, pc, scan, current, tasks >>

\* Lock and unlock the mutex of the next worker.
PassMutex ==
    /\ ~working /\ stop.worker < NumWorkers /\ ~stop.notifying
    /\ ~Locked(stop.worker)
    /\ stop' = [stop EXCEPT !.notifying = TRUE]
    /\ UNCHANGED << working, queue, pending, nextIndex, posting, pc, scan, current, tasks >>

NotifyStop ==
    /\ stop.notifying
    /\ pc' = Woken(stop.worker)
    /\ stop' = [worker |-> stop.worker + 1, notifying |-> FALSE]
    /\ UNCHANGED << working, queue, pending, nextIndex, posting, scan, current, tasks >>
-----------------------------------------------------------------------------
WorkerStep(w) ==
    \/ CheckWorking(w) \/ TakeJob(w) \/ FindNothing(w)
    \/ LockSignal(w) \/ TestPredicate(w) \/ Block(w)
    \/ FinishFunction(w) \/ FinishCoroutine(w) \/ GoOn(w) \/ AwaitJobs(w) \/ ResumeOn(w)

Next ==
    \/ \E t \in Threads : Post(t)
    \/ \E w \in Workers : WorkerStep(w) \/ WakeSpuriously(w)
    \/ Shutdown \/ PassMutex \/ NotifyStop

Spec == Init /\ [][Next]_vars

\* Threads go on; a poster gets a mutex that is free again and again.
Fairness ==
    /\ \A t \in Threads : WF_vars(Post(t)) /\ SF_vars(CountPending(t))
    /\ \A w \in Workers : WF_vars(WorkerStep(w))
    /\ WF_vars(PassMutex \/ NotifyStop)

FairSpec == Spec /\ Fairness
-----------------------------------------------------------------------------
(* How programs use jobs.  AddAsyncJob makes a FuncTask for every function  *)
(* it posts; a coroutine is an object, which programs post or await once.  *)

Occurs(j, s) == \E i \in 1 .. Len(s) : s[i] = j
Distinct(s) == \A i, k \in 1 .. Len(s) : s[i] = s[k] => i = k

\* Job x is one of those that the i-th suspension point of c awaits.
Awaits(c, i, x) ==
    /\ i \in 1 .. Len(Body[c]) /\ Body[c][i].kind = "await"
    /\ Occurs(x, Body[c][i].jobs)

Awaited(x) == \E c \in Coroutines : \E i \in 1 .. Len(Body[c]) : Awaits(c, i, x)

\* A job is posted once by one poster, or awaited once by one coroutine.
\* Assumed only where a theorem says so.
EachOnce ==
    /\ \A p, q \in Posters : \A i \in 1 .. Len(Script[p]), k \in 1 .. Len(Script[q]) :
           Script[p][i] = Script[q][k] => p = q /\ i = k
    /\ \A p \in Posters : \A i \in 1 .. Len(Script[p]) : ~Awaited(Script[p][i])
    /\ \A c \in Coroutines : \A i \in 1 .. Len(Body[c]) :
           Body[c][i].kind = "await" => Distinct(Body[c][i].jobs)
    /\ \A c, d \in Coroutines, x \in Jobs :
           \A i \in 1 .. Len(Body[c]), k \in 1 .. Len(Body[d]) :
               Awaits(c, i, x) /\ Awaits(d, k, x) => c = d /\ i = k
-----------------------------------------------------------------------------
(* Properties. *)

QueueLength(w) ==
    Len(Contents(queue[w][1])) + Len(Contents(queue[w][2]))
    + Len(Contents(queue[w][3])) + Len(Contents(queue[w][4]))

\* Threads that have pushed a job for worker w and not yet counted it.
Uncounted(w) == {t \in Threads : stage[t] = "count" /\ target[t] = w}

\* pending_task_count is the number of jobs in the worker's queues, less those
\* that are pushed and not yet counted: it may be taken down before it is put
\* up, and ends where it should.
PendingIsQueued ==
    \A w \in Workers : pending[w] = QueueLength(w) - Cardinality(Uncounted(w))

\* No wake-up is lost: for a worker that waits, or is about to, whoever gave it
\* a job has yet to count it or to notify it; and so does the destructor.
NoLostWakeup ==
    \A w \in Workers : pc[w] \in {"block", "waiting"} =>
        /\ QueueLength(w) > 0 =>
               \E t \in Threads : target[t] = w /\ stage[t] \in {"count", "notify"}
        /\ ~working => stop.worker <= w

\* A coroutine that goes on after an await finds every awaited job done.
ResumedAfterChildren ==
    \A w \in Workers : pc[w] = "run" /\ current[w] \in Coroutines =>
        LET c == current[w] IN
        \A i \in 1 .. step[c] - 1 : Body[c][i].kind = "await" =>
            \A k \in 1 .. Len(Body[c][i].jobs) : Body[c][i].jobs[k] \in done

\* Functions pinned to a worker are run one at a time, in the order posted.
Serial == INSTANCE SerialExecutor WITH
    waiting <- [w \in Workers |-> Contents(queue[w][1])],
    active <- [w \in Workers |->
                  IF pc[w] = "run" /\ scan[w] = 1 THEN current[w] ELSE NoJob]

SerialExecution == Serial!Spec

\* Every job is run to its end, coroutines included, unless the system is shut
\* down before.
EveryJobIsDone == <>(done = Jobs \/ ~working)

\* When the system is shut down every worker exits, also one that is waiting.
WorkersExit == ~working ~> \A w \in Workers : pc[w] = "exited"
=============================================================================
