----------------------------- MODULE JobPromise -----------------------------
(***************************************************************************)
(* What the queue promises of each job, whoever runs it: a job that is     *)
(* enqueued is tried, again if it failed and has attempts left, and then   *)
(* it is finished, once and for all.  Jobs do not wait for one another, so *)
(* a step may move several.                                                *)
(***************************************************************************)
EXTENDS Naturals

CONSTANTS
    Jobs,    \* numbers a job may have; one that is finished may be given anew
    Limit,   \* attempts at each job
    OneShot  \* jobs that are not sweeps

VARIABLES
    state, \* absent, queued, running, done or dead
    tries  \* attempts that have failed

Init ==
    /\ state = [j \in Jobs |-> "absent"]
    /\ tries = [j \in Jobs |-> 0]

Moves(j, from, to) == state[j] \in from /\ state'[j] \in to

Enqueue(j) == Moves(j, {"absent", "done", "dead"}, {"queued"}) /\ tries'[j] = 0

Start(j) == Moves(j, {"queued"}, {"running"}) /\ tries'[j] = tries[j]

\* Whoever ran it is gone, or it takes too long; the next one may have started by now.
TakeBack(j) == Moves(j, {"running"}, {"queued", "running"}) /\ tries'[j] = tries[j]

TryAgain(j) ==
    /\ Moves(j, {"running"}, {"queued"})
    /\ tries'[j] = tries[j] + 1
    /\ tries'[j] < Limit[j]

Finish(j) == Moves(j, {"running"}, {"done", "dead"}) /\ tries'[j] = 0

Rest(j) == state'[j] = state[j] /\ tries'[j] = tries[j]

Next ==
    \A j \in Jobs :
        Enqueue(j) \/ Start(j) \/ TakeBack(j) \/ TryAgain(j) \/ Finish(j) \/ Rest(j)

Safe == Init /\ [][Next]_<<state, tries>>

Kept == \A j \in OneShot : state[j] = "queued" ~> state[j] \in {"done", "dead"}

Spec == Safe /\ Kept
=============================================================================
