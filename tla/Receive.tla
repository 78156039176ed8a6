------------------------------ MODULE Receive -------------------------------
(***************************************************************************)
(* The way of a datagram from the socket to the job or the handshake that  *)
(* reads it, and of the receive event that holds its bytes back to the     *)
(* socket: the completion port, the I/O threads and their end, the packet  *)
(* simulator with its reorder window, and the reference counts that decide *)
(* when an event may be overwritten.                                       *)
(*                                                                         *)
(* A datagram is named by the event whose buffer it is in.  Every copy of  *)
(* a reader (in the window, in a thread's hands, in a job) is a reference  *)
(* to the event.                                                           *)
(***************************************************************************)
EXTENDS Integers, Sequences, FiniteSets, FiniteSetsExt, SequencesExt

CONSTANTS
    IoThreads,      \* threads of IOLoop
    Tick,           \* the thread of TickLoop
    Events,         \* receive events made by PreRecvEvent (100)
    None,
    WakeUp,         \* what WakeIO posts: a completion without an event
    WindowSizes,    \* values of ReorderWindowSize that the settings may take
    MayDuplicate,   \* DuplicatePermille > 0
    MaxEntries,     \* completions that PumpIO takes at once (64)
    MaxErrors       \* bound: times that WSARecvFrom fails

Threads == IoThreads \cup {Tick}

ASSUME ConstantsOK ==
    /\ Tick \notin IoThreads /\ None \notin Threads /\ IsFiniteSet(IoThreads)
    /\ None \notin Events /\ WakeUp \notin Events
    /\ WindowSizes \subseteq Nat
    /\ MayDuplicate \in BOOLEAN
    /\ MaxEntries \in Nat \ {0} /\ MaxErrors \in Nat

VARIABLES
    posted,         \* events given to the socket, which may fill them
    lost,           \* events that WSARecvFrom refused to take
    completions,    \* the completion port
    window,         \* PacketSimulator::ReorderWindow
    size,           \* Settings.ReorderWindowSize
    quiet,          \* ReorderMaxHoldMs passed since LastWindowActivity
    due,            \* per event, copies that the simulator made and nobody dispatched
    jobs,           \* jobs of the connection, each with the reader it captured
    thread,         \* per thread, where it is and what it refers to
    stopping        \* bStopRequested

socket == << posted, lost >>
simulator == << window, size, quiet, due >>
vars == << socket, completions, simulator, jobs, thread, stopping >>

Locations == {"check", "wait", "pump", "dispatch", "exited"}
At(t, pc) == thread[t].pc = pc

TypeOK ==
    /\ posted \subseteq Events /\ lost \subseteq Events
    /\ completions \in Seq(Events \cup {WakeUp})
    /\ window \in Seq(Events) /\ size \in WindowSizes /\ quiet \in BOOLEAN
    /\ due \in [Events -> 0 .. 2]
    /\ jobs \in Seq(Events)
    /\ thread \in [Threads ->
           [pc : Locations, batch : Seq(Events \cup {WakeUp}), todo : Seq(Events),
            event : Events \cup {None}]]
    /\ stopping \in BOOLEAN

Start == [pc |-> "check", batch |-> << >>, todo |-> << >>, event |-> None]

\* After PreRecvEvent, with the loops started.
Init ==
    /\ posted = Events /\ lost = {} /\ completions = << >>
    /\ window = << >> /\ size \in WindowSizes /\ quiet = TRUE
    /\ due = [e \in Events |-> 0]
    /\ jobs = << >>
    /\ thread = [t \in Threads |-> Start]
    /\ stopping = FALSE
-----------------------------------------------------------------------------
(* References to a receive event: shared_ptr with RecvEventPooleturner. *)

\* e is referred to from window w, jobs q or threads h.
Refers(e, w, q, h) ==
    e \in ToSet(w) \/ e \in ToSet(q)
        \/ \E t \in Threads : h[t].event = e \/ e \in ToSet(h[t].todo)

Referenced(e) == Refers(e, window, jobs, thread)

IsLast_OwnerOnly(e) == \A t \in Threads : thread'[t].event # e

\* Whether the reference to e that a step gives up is the last: it leaves none.
IsLast(e) == ~Refers(e, window', jobs', thread')

\* PostRecvEvent, when the last reference goes.  An event that WSARecvFrom does
\* not take is only logged.
Release(e) ==
    IF IsLast(e)
      THEN \/ posted' = posted \cup {e} /\ UNCHANGED lost
           \/ /\ Cardinality(lost) < MaxErrors
              /\ lost' = lost \cup {e} /\ UNCHANGED posted
      ELSE UNCHANGED socket
-----------------------------------------------------------------------------
(* The socket fills an event. *)

Arrive(e) ==
    /\ e \in posted
    /\ posted' = posted \ {e}
    /\ completions' = Append(completions, e)
    /\ UNCHANGED << lost, simulator, jobs, thread, stopping >>
-----------------------------------------------------------------------------
(* IOLoop and PumpIO. *)

Goto(t, pc) == thread' = [thread EXCEPT ![t].pc = pc]

\* while (!bStopRequested), of either loop.
Loop(t) ==
    /\ At(t, "check")
    /\ Goto(t, IF stopping THEN "exited" ELSE "wait")
    /\ UNCHANGED << socket, completions, simulator, jobs, stopping >>

PumpIO(t) ==
    /\ t \in IoThreads /\ At(t, "wait")
    /\ \E n \in 1 .. Min({MaxEntries, Len(completions)}) :
          /\ thread' = [thread EXCEPT ![t].pc = "pump", ![t].batch = SubSeq(completions, 1, n)]
          /\ completions' = SubSeq(completions, n + 1, Len(completions))
    /\ UNCHANGED << socket, simulator, jobs, stopping >>

TimesOut_Infinite == FALSE

\* PumpTimeoutMs is 50.
TimesOut == completions = << >>

Timeout(t) ==
    /\ t \in IoThreads /\ At(t, "wait") /\ TimesOut
    /\ Goto(t, "check")
    /\ UNCHANGED << socket, completions, simulator, jobs, stopping >>

EndPump(t) ==
    /\ At(t, "pump") /\ thread[t].batch = << >>
    /\ Goto(t, "check")
    /\ UNCHANGED << socket, completions, simulator, jobs, stopping >>

HasEvent_Unchecked(completion) == TRUE

\* What WakeIO posts has no lpOverlapped and is skipped.
HasEvent(completion) == completion # WakeUp

SkipEntry(t) ==
    /\ At(t, "pump") /\ thread[t].batch # << >>
    /\ ~HasEvent(Head(thread[t].batch))
    /\ thread' = [thread EXCEPT ![t].batch = Tail(@)]
    /\ UNCHANGED << socket, completions, simulator, jobs, stopping >>
-----------------------------------------------------------------------------
(* PacketSimulator, which holds its mutex for the whole of each operation. *)

Copies(e) == {<< e >>} \cup IF MayDuplicate THEN {<< e, e >>} ELSE {}

\* Process and the loop over its result, for the event that t took.
Process(t, e) ==
    LET hand(todo) == thread' = [thread EXCEPT ![t].pc = "dispatch", ![t].batch = Tail(@),
                                               ![t].event = e, ![t].todo = todo]
    IN
    \/ hand(<< >>) /\ UNCHANGED << window, quiet, due >>
    \/ \E copies \in Copies(e) :
          /\ due' = [due EXCEPT ![e] = Len(copies)]
          /\ IF size = 0
               THEN hand(copies) /\ UNCHANGED << window, quiet >>
               ELSE LET filled == window \o copies IN
                    /\ quiet' = FALSE
                    /\ \/ Len(filled) < size /\ window' = filled /\ hand(<< >>)
                       \/ /\ Len(filled) >= size
                          /\ \E i \in DOMAIN filled :
                                window' = RemoveAt(filled, i) /\ hand(<< filled[i] >>)

RecvCompletionEvent(t) ==
    /\ At(t, "pump") /\ thread[t].batch # << >> /\ HasEvent(Head(thread[t].batch))
    /\ Process(t, Head(thread[t].batch))
    /\ UNCHANGED << socket, completions, size, jobs, stopping >>

\* ReorderMaxHoldMs pass without a datagram.
Hold ==
    /\ ~quiet
    /\ quiet' = TRUE
    /\ UNCHANGED << socket, completions, window, size, due, jobs, thread, stopping >>

IsStale_Full == window # << >> /\ size # 0 /\ Len(window) >= size

IsStale == window # << >> /\ size # 0 /\ quiet

Kept_AsMoved == window

\* What is left of the window that FlushStale moved out.
Kept == << >>

\* FlushStale, and the rest of the round of TickLoop, which is not of this module.
FlushStale ==
    /\ At(Tick, "wait")
    /\ IF IsStale
         THEN /\ thread' = [thread EXCEPT ![Tick].pc = "dispatch", ![Tick].todo = window]
              /\ window' = Kept
         ELSE Goto(Tick, "check") /\ UNCHANGED window
    /\ UNCHANGED << socket, completions, size, quiet, due, jobs, stopping >>

\* The command set_drop of the telemetry.
Reconfigure ==
    /\ \E s \in WindowSizes \ {size} : size' = s
    /\ UNCHANGED << socket, completions, window, quiet, due, jobs, thread, stopping >>
-----------------------------------------------------------------------------
(* DispatchReceivedDatagram. *)

\* The reader goes into a job of the connection, ...
DispatchToConnection(t) ==
    /\ At(t, "dispatch") /\ thread[t].todo # << >>
    /\ LET e == Head(thread[t].todo) IN
       /\ jobs' = Append(jobs, e)
       /\ due' = [due EXCEPT ![e] = @ - 1]
    /\ thread' = [thread EXCEPT ![t].todo = Tail(@)]
    /\ UNCHANGED << socket, completions, window, size, quiet, stopping >>

\* ... or, when the address has none, the thread itself reads it and lets go.
ProcessConnectionless(t) ==
    /\ At(t, "dispatch") /\ thread[t].todo # << >>
    /\ thread' = [thread EXCEPT ![t].todo = Tail(@)]
    /\ UNCHANGED << completions, window, size, quiet, jobs, stopping >>
    /\ LET e == Head(thread[t].todo) IN
       /\ due' = [due EXCEPT ![e] = @ - 1]
       /\ Release(e)

\* RecvCompletionEvent returns: its eventOwner goes.  The tick thread has none.
EndDispatch(t) ==
    /\ At(t, "dispatch") /\ thread[t].todo = << >>
    /\ UNCHANGED << completions, simulator, jobs, stopping >>
    /\ IF t = Tick THEN Goto(t, "check") /\ UNCHANGED socket
       ELSE /\ thread' = [thread EXCEPT ![t].pc = "pump", ![t].event = None]
            /\ Release(thread[t].event)

\* The worker of the connection runs the job of ReceivedRawPacket to its end.
RunJob ==
    /\ jobs # << >>
    /\ jobs' = Tail(jobs)
    /\ UNCHANGED << completions, simulator, thread, stopping >>
    /\ Release(Head(jobs))

\* ThreadManager::Stop: the flag, then a completion for each I/O thread.
Stop ==
    /\ ~stopping
    /\ stopping' = TRUE
    /\ completions' = completions \o [i \in 1 .. Cardinality(IoThreads) |-> WakeUp]
    /\ UNCHANGED << socket, simulator, jobs, thread >>
-----------------------------------------------------------------------------
Dispatch(t) == DispatchToConnection(t) \/ ProcessConnectionless(t) \/ EndDispatch(t)

LoopStep(t) == \/ Loop(t) \/ PumpIO(t) \/ Timeout(t) \/ EndPump(t) \/ SkipEntry(t)
               \/ RecvCompletionEvent(t) \/ Dispatch(t)

Next ==
    \/ \E e \in Events : Arrive(e)
    \/ \E t \in Threads : LoopStep(t)
    \/ Hold \/ FlushStale \/ Reconfigure
    \/ RunJob
    \/ Stop

Spec == Init /\ [][Next]_vars

(***************************************************************************)
(* Every thread goes on.  The tick thread looks at the window again and    *)
(* again; SF: when it finds it stale again and again, it flushes it.       *)
(* Nobody has to stop the server.                                          *)
(***************************************************************************)
Fairness ==
    /\ \A t \in Threads : WF_vars(LoopStep(t))
    /\ WF_vars(Hold) /\ WF_vars(FlushStale)
    /\ SF_vars(FlushStale /\ IsStale)
    /\ WF_vars(RunJob)

FairSpec == Spec /\ Fairness
-----------------------------------------------------------------------------
Completed(e) == e \in ToSet(completions) \/ \E t \in Threads : e \in ToSet(thread[t].batch)

\* Where copies of a reader wait to be dispatched: in the window and in hands.
Held == [h \in Threads \cup {None} |-> IF h = None THEN window ELSE thread[h].todo]

\* Copies that the simulator made and nobody dispatched, by where they are.
Copied(e) == UNION {{<< h, i >> : i \in {k \in DOMAIN Held[h] : Held[h][k] = e}} : h \in DOMAIN Held}

If(b) == IF b THEN 1 ELSE 0

\* An event is in one place: with the socket, refused by it, on its way through
\* the completion port, or referred to.  So no buffer is filled while a reader
\* of it is left, and none is forgotten.
OnePlace ==
    \A e \in Events :
        If(e \in posted) + If(e \in lost) + If(Completed(e)) + If(Referenced(e)) = 1

\* What the simulator let pass is in the window or in the hands of a thread
\* until it is dispatched: as often as it was copied, and never without that.
CopiesConserved ==
    \A e \in Events : due[e] = Cardinality(Copied(e))

\* A datagram that arrived is dispatched or dropped and its event goes back to
\* the socket, unless the server stops: the window holds none for ever.  That
\* is, if traffic pauses for ReorderMaxHoldMs until the tick thread looks, again
\* and again; else the random choice could pass over one for ever.  And if
\* ReorderWindowSize is not zero then: FlushStale leaves the window alone when
\* set_drop has turned reordering off.
Pauses == quiet /\ At(Tick, "wait")
Returned(e) == e \in posted \/ e \in lost
EveryEventReturns ==
    []<>(Pauses /\ (size # 0 \/ window = << >>)) =>
        \A e \in Events : ~Returned(e) ~> Returned(e) \/ stopping

\* The same without the second proviso (docs/reference/engine-design.md: what is
\* held is let go after ReorderMaxHoldMs).
EveryEventReturnsAlways ==
    []<>Pauses => \A e \in Events : ~Returned(e) ~> Returned(e) \/ stopping

\* Stop ends the tick thread and every I/O thread, also when one of them takes
\* the completions posted for all: Clear can join them.
LoopsEnd == stopping ~> \A t \in Threads : At(t, "exited")
=============================================================================
