---------------------------- MODULE MCJobSystem ----------------------------
(* An instance of JobSystem for TLC: one poster gives worker 0 two pinned
   functions, another starts a coroutine of worker 1 that moves to worker 0,
   awaits a function and a coroutine, and ends. *)
EXTENDS JobSystem, TLC

CONSTANTS f1, f2, g, h, co, cd, p1, p2

MCFunctions == {f1, f2, g, h}
MCCoroutines == {co, cd}
MCPosters == {p1, p2}
MCPinnedTo == (f1 :> 0) @@ (f2 :> 0) @@ (g :> 1) @@ (h :> -1) @@ (co :> 1) @@ (cd :> -1)
MCScript == (p1 :> << f1, f2 >>) @@ (p2 :> << co >>)

await(jobs) == [kind |-> "await", jobs |-> jobs]
on(w) == [kind |-> "on", worker |-> w]
MCBody == (co :> << on(1), on(0), await(<< g, cd >>) >>) @@ (cd :> << await(<< h >>) >>)

\* What the theorem on awaited jobs assumes holds of these constants.
ASSUME JobsUsedOnce == EachOnce
=============================================================================
