--------------------------- MODULE SerialExecutor ---------------------------
(***************************************************************************)
(* What a connection relies on: the functions posted to one worker are run *)
(* one at a time and in the order in which they were posted.  JobSystem    *)
(* implements this for the functions that are pinned to a worker.          *)
(***************************************************************************)
EXTENDS Sequences

CONSTANTS Workers, Jobs, NoJob

VARIABLES waiting,   \* per worker, the functions posted and not yet started
          active     \* per worker, the function it is running

Init ==
    /\ waiting = [w \in Workers |-> << >>]
    /\ active = [w \in Workers |-> NoJob]

Post(w, j) ==
    /\ waiting' = [waiting EXCEPT ![w] = Append(@, j)]
    /\ UNCHANGED active

Start(w) ==
    /\ active[w] = NoJob /\ waiting[w] # << >>
    /\ active' = [active EXCEPT ![w] = Head(waiting[w])]
    /\ waiting' = [waiting EXCEPT ![w] = Tail(@)]

Finish(w) ==
    /\ active[w] # NoJob
    /\ active' = [active EXCEPT ![w] = NoJob]
    /\ UNCHANGED waiting

Next == \E w \in Workers : Start(w) \/ Finish(w) \/ \E j \in Jobs : Post(w, j)

Spec == Init /\ [][Next]_<< waiting, active >>
=============================================================================
