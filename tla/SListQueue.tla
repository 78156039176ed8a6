----------------------------- MODULE SListQueue -----------------------------
(***************************************************************************)
(* The queue between the posters of jobs and one worker: two lock-free     *)
(* stacks.  The top of `push` is its last element and the top of `pop` its *)
(* first, so that moving `push` onto `pop` element by element, newest      *)
(* first, keeps the order the sequences are written in.                    *)
(*                                                                         *)
(* Each queue is popped by its own worker only.  Between the flush of      *)
(* `push` and the pop that follows only the worker's thread touches the    *)
(* list and `pop`, so TryPopFront is one step, at the flush.               *)
(***************************************************************************)
EXTENDS Integers, Sequences

EmptyQueue == [push |-> << >>, pop |-> << >>]

\* The elements of q, the next one to be popped first.
Contents(q) == q.pop \o q.push

PushBack(q, x) == [push |-> Append(q.push, x), pop |-> q.pop]

Transition_AsIs(q) ==
    [push |-> << >>, pop |-> [i \in 1 .. Len(q.push) |-> q.push[Len(q.push) + 1 - i]] \o q.pop]

Transition(q) == [push |-> << >>, pop |-> q.push \o q.pop]

\* The stacks from which TryPopFront takes its element.
Refilled(q) == IF q.pop = << >> THEN Transition(q) ELSE q

CanPop(q) == Refilled(q).pop # << >>

Front(q) == Head(Refilled(q).pop)

PopFront(q) == [push |-> Refilled(q).push, pop |-> Tail(Refilled(q).pop)]
=============================================================================
