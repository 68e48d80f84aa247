------------------------------ MODULE JobQueue ------------------------------
(***************************************************************************)
(* The background job queue: server/app/queue/jobs.py and worker.py.       *)
(*                                                                         *)
(* A request enqueues a job row; a worker thread ticks: it takes back rows *)
(* whose lock is stale, claims the due ones with a compare-and-swap, runs  *)
(* their handlers one after the other and settles each.  Every recurring   *)
(* type (sla.sweep, snooze.wake, pm.tick, ...) lives as a chain of rows,   *)
(* each enqueued by the one before it.                                     *)
(*                                                                         *)
(* A step here is what one database transaction reads, or what it commits; *)
(* whatever the code reads in one statement and uses in a later one is     *)
(* kept in the worker's memory between the two steps.                      *)
(*                                                                         *)
(* Time is relative, so that it needs no bound: a row holds how long it is *)
(* until run_at (0 once due) and how old its lock is (no older than        *)
(* Stale + 1, which is all `locked_at < now - STALE_SECONDS` can tell).    *)
(* A row number is reused once its job is finished and no worker has it    *)
(* in memory; the code never reads such a row again.                       *)
(***************************************************************************)
EXTENDS Naturals, FiniteSets, Table

CONSTANTS
    Workers,      \* processes that run a Worker thread (one, as deployed)
    Rows,         \* row numbers of the job table
    Types,        \* job types
    Recurring,    \* the types of RECURRING
    RowType,      \* the type of job each row number may hold
    Interval,     \* seconds between two runs of a recurring type
    MaxAttempts,  \* max_attempts by type: 5, and 1 for a recurring type
    Backoff,      \* seconds until the retry, by attempts made: 2^attempts
    Delays,       \* delays a request may ask for in run_at
    Stale,        \* STALE_SECONDS
    ClaimLimit,   \* rows one tick claims at most
    SingleWriter, \* TRUE on SQLite: one writing transaction at a time
    InTime,       \* TRUE to assume that no handler outlives its lock
    MaxFaults     \* bound on crashes and failed transactions

ASSUME TypesAssumption ==
    /\ Recurring \subseteq Types
    /\ RowType \in [Rows -> Types]
    /\ Interval \in [Recurring -> Nat]
    /\ MaxAttempts \in [Types -> Nat \ {0}]
    /\ \A t \in Recurring : MaxAttempts[t] = 1
    /\ Delays \subseteq Nat

ASSUME BoundsAssumption ==
    /\ Stale \in Nat
    /\ ClaimLimit \in Nat \ {0}
    /\ MaxFaults \in Nat
    /\ SingleWriter \in BOOLEAN
    /\ InTime \in BOOLEAN
    /\ \A t \in Types : \A n \in 1 .. MaxAttempts[t] : Backoff[n] \in Nat
    /\ None \notin Rows
    /\ None \notin Workers

VARIABLES
    job,     \* the job table
    pc,      \* where each worker is
    seen,    \* ids its SELECT of due rows returned
    stale,   \* rows its SELECT of stale locks returned
    batch,   \* jobs it has claimed and not settled
    cur,     \* the job it is settling
    outcome, \* how that job's handler ended
    plan,    \* recurring types it is about to enqueue
    writer,  \* the worker whose transaction holds SQLite's write lock
    faults   \* crashes and failed transactions so far

memory == <<pc, seen, stale, batch, cur, outcome, plan>>
vars == <<job, pc, seen, stale, batch, cur, outcome, plan, writer, faults>>

Status == {"absent", "queued", "running", "done", "dead"}
Outcome == {"ok", "error", "lookup"}

JobRow == [status : Status, attempts : Nat, wait : Nat, age : 0 .. Stale + 1]

(***************************************************************************)
(* Reading the table                                                       *)
(***************************************************************************)
IsLive(r) == job[r].status \in {"queued", "running"}

\* The existence query of ensure_recurring and schedule_next_recurrence.
LiveRows(t) == {r \in Rows : RowType[r] = t /\ IsLive(r)}

\* claim_due's and the compare-and-swap's `status = 'queued'` predicate.  (The
\* definitions named ..Slip are mistakes one could make in the next one: the checks
\* are tried on them, and the specification does not use them.)
QueuedSlip(r) == job[r].status \in {"queued", "done"}

Queued(r) == job[r].status = "queued"

Due == {r \in Rows : Queued(r) /\ job[r].wait = 0}

\* Slip: no lock is ever stale.
StaleSlip == {}

StaleRows == {r \in Rows : job[r].status = "running" /\ job[r].age > Stale}

Held(w) == seen[w] \cup stale[w] \cup batch[w]

Free(r) ==
    /\ job[r].status \in {"absent", "done", "dead"}
    /\ \A w \in Workers : r \notin Held(w)

MayWrite(w) == writer \in {None, w}

(***************************************************************************)
(* Writing a row                                                           *)
(***************************************************************************)
NewRow(delay) == [status |-> "queued", attempts |-> 0, wait |-> delay, age |-> 0]

RunningRow(row) == [row EXCEPT !.status = "running", !.wait = 0, !.age = 0]

\* reclaim_stale: back to the queue, with no attempt counted.
ReclaimedRow(row) == [row EXCEPT !.status = "queued", !.age = 0]

\* fail: another attempt while there is one left, unless it was a LookupError.
Retries(r, o) ==
    /\ o = "error"
    /\ job[r].attempts + 1 < MaxAttempts[RowType[r]]

DoneRow(row) == [row EXCEPT !.status = "done", !.wait = 0, !.age = 0]

\* fail's other branch.  Nothing tells attempts beyond max_attempts apart.
DeadRow(row, most) ==
    [status |-> "dead", attempts |-> IF row.attempts < most THEN row.attempts + 1 ELSE most,
     wait |-> 0, age |-> 0]

RetryRow(row) == [status |-> "queued", attempts |-> row.attempts + 1,
                  wait |-> Backoff[row.attempts + 1], age |-> 0]

\* A second later: nearer to run_at, and under an older lock.
Later(row) ==
    [row EXCEPT !.wait = IF row.wait > 0 THEN row.wait - 1 ELSE 0,
                !.age = IF row.status = "running" /\ row.age <= Stale
                          THEN row.age + 1 ELSE row.age]

SettledRow(r, o) ==
    CASE o = "ok"      -> DoneRow(job[r])
      [] Retries(r, o) -> RetryRow(job[r])
      [] OTHER         -> DeadRow(job[r], MaxAttempts[RowType[r]])

\* What a transaction enqueues for the types it found without a live row.
Successors(types) ==
    {f \in [types -> Rows] : \A t \in types : RowType[f[t]] = t /\ Free(f[t])}

\* Slip: only a successful run is followed by another.
MissingSlip(r, o) ==
    {t \in Recurring : t = RowType[r] /\ o = "ok" /\ LiveRows(t) \ {r} = {}}

\* schedule_next_recurrence, as the transaction that settles r evaluates it.
MissingAfter(r, o) ==
    {t \in Recurring : /\ t = RowType[r]
                       /\ ~Retries(r, o)
                       /\ LiveRows(t) \ {r} = {}}

----------------------------------------------------------------------------
Init ==
    /\ job = [r \in Rows |-> [status |-> "absent", attempts |-> 0, wait |-> 0, age |-> 0]]
    /\ pc = [w \in Workers |-> "down"]
    /\ seen = [w \in Workers |-> {}]
    /\ stale = [w \in Workers |-> {}]
    /\ batch = [w \in Workers |-> {}]
    /\ cur = [w \in Workers |-> None]
    /\ outcome = [w \in Workers |-> "ok"]
    /\ plan = [w \in Workers |-> {}]
    /\ writer = None
    /\ faults = 0

\* A request, or a handler, enqueues a one-shot job and commits.
Produce(r, d) ==
    /\ writer = None
    /\ Free(r)
    /\ RowType[r] \notin Recurring
    /\ job' = [job EXCEPT ![r] = NewRow(d)]
    /\ UNCHANGED <<memory, writer, faults>>

\* Slip: every start enqueues the sweeps, whether they are there or not.
BootSlip(w) ==
    /\ pc[w] = "down"
    /\ pc' = [pc EXCEPT ![w] = "booting"]
    /\ plan' = [plan EXCEPT ![w] = Recurring]
    /\ UNCHANGED <<job, seen, stale, batch, cur, outcome, writer, faults>>

\* create_app looks, type by type, for a live row before the worker starts...
BootRead(w) ==
    /\ pc[w] = "down"
    /\ pc' = [pc EXCEPT ![w] = "booting"]
    /\ plan' = [plan EXCEPT ![w] = {t \in Recurring : LiveRows(t) = {}}]
    /\ UNCHANGED <<job, seen, stale, batch, cur, outcome, writer, faults>>

\* ... and enqueues one, due at once, for every type that had none.
BootCommit(w) ==
    /\ pc[w] = "booting"
    /\ MayWrite(w)
    /\ \E new \in Successors(plan[w]) :
         job' = [r \in Rows |->
                   IF \E t \in plan[w] : new[t] = r THEN NewRow(0) ELSE job[r]]
    /\ pc' = [pc EXCEPT ![w] = "idle"]
    /\ plan' = [plan EXCEPT ![w] = {}]
    /\ UNCHANGED <<seen, stale, batch, cur, outcome, writer, faults>>

\* tick: the SELECTs of reclaim_stale and of claim_due, which sees the rows the
\* same transaction has just taken back.  A tick that finds nothing is a stutter.
TickBegin(w) ==
    LET eligible == Due \cup StaleRows IN
    /\ pc[w] = "idle"
    /\ eligible # {}
    /\ \E ids \in SUBSET eligible :
         /\ Cardinality(ids) <= ClaimLimit
         /\ Cardinality(ids) < ClaimLimit => ids = eligible
         /\ seen' = [seen EXCEPT ![w] = ids]
    /\ stale' = [stale EXCEPT ![w] = StaleRows]
    /\ pc' = [pc EXCEPT ![w] = "claiming"]
    /\ UNCHANGED <<job, batch, cur, outcome, plan, writer, faults>>

\* Slip: an UPDATE by id, without the compare-and-swap.
ClaimedSlip(w) == seen[w]

\* The rows the transaction wins: the ones it took back itself, and of the
\* others those the compare-and-swap still finds queued.
Claimed(w) == {r \in seen[w] : r \in stale[w] \/ Queued(r)}

\* The UPDATEs of reclaim_stale, by id alone, and of claim_due, by id and status.
ClaimCommit(w) ==
    /\ pc[w] = "claiming"
    /\ MayWrite(w)
    /\ job' = [r \in Rows |->
                 CASE r \in Claimed(w)           -> RunningRow(job[r])
                   [] r \in stale[w] \ seen[w]   -> ReclaimedRow(job[r])
                   [] OTHER                      -> job[r]]
    /\ batch' = [batch EXCEPT ![w] = Claimed(w)]
    /\ pc' = [pc EXCEPT ![w] = IF Claimed(w) = {} THEN "idle" ELSE "working"]
    /\ seen' = [seen EXCEPT ![w] = {}]
    /\ stale' = [stale EXCEPT ![w] = {}]
    /\ UNCHANGED <<cur, outcome, plan, writer, faults>>

\* The handler of one claimed job ends: it returned, it raised, or it raised a
\* LookupError (so does a type without a handler).  Its own writes are in the
\* transaction that settles the job, or were rolled back.
RunHandler(w, r, o) ==
    /\ pc[w] = "working"
    /\ r \in batch[w]
    /\ pc' = [pc EXCEPT ![w] = "settling"]
    /\ cur' = [cur EXCEPT ![w] = r]
    /\ outcome' = [outcome EXCEPT ![w] = o]
    /\ UNCHANGED <<job, seen, stale, batch, plan, writer, faults>>

\* complete or fail is flushed, which on SQLite takes the write lock, and
\* schedule_next_recurrence looks for a live row of the type.
SettleRead(w) ==
    /\ pc[w] = "settling"
    /\ MayWrite(w)
    /\ plan' = [plan EXCEPT ![w] = MissingAfter(cur[w], outcome[w])]
    /\ writer' = IF SingleWriter THEN w ELSE writer
    /\ pc' = [pc EXCEPT ![w] = "committing"]
    /\ UNCHANGED <<job, seen, stale, batch, cur, outcome, faults>>

\* The settled row and the successor, if one was missing, are committed.
SettleCommit(w) ==
    /\ pc[w] = "committing"
    /\ \E new \in Successors(plan[w]) :
         job' = [r \in Rows |->
                   CASE r = cur[w]                       -> SettledRow(r, outcome[w])
                     [] \E t \in plan[w] : new[t] = r    -> NewRow(Interval[RowType[r]])
                     [] OTHER                            -> job[r]]
    /\ batch' = [batch EXCEPT ![w] = @ \ {cur[w]}]
    /\ pc' = [pc EXCEPT ![w] = IF batch[w] = {cur[w]} THEN "idle" ELSE "working"]
    /\ cur' = [cur EXCEPT ![w] = None]
    /\ outcome' = [outcome EXCEPT ![w] = "ok"]
    /\ plan' = [plan EXCEPT ![w] = {}]
    /\ writer' = IF writer = w THEN None ELSE writer
    /\ UNCHANGED <<seen, stale, faults>>

\* A worker forgets everything; an open transaction is rolled back.
Forget(w, where) ==
    /\ faults < MaxFaults
    /\ faults' = faults + 1
    /\ pc' = [pc EXCEPT ![w] = where]
    /\ seen' = [seen EXCEPT ![w] = {}]
    /\ stale' = [stale EXCEPT ![w] = {}]
    /\ batch' = [batch EXCEPT ![w] = {}]
    /\ cur' = [cur EXCEPT ![w] = None]
    /\ outcome' = [outcome EXCEPT ![w] = "ok"]
    /\ plan' = [plan EXCEPT ![w] = {}]
    /\ writer' = IF writer = w THEN None ELSE writer
    /\ UNCHANGED job

\* The process dies, at any point, and will be started again.
Crash(w) ==
    /\ pc[w] # "down"
    /\ Forget(w, "down")

\* The claiming transaction, or the one that records a failure, raises: _loop
\* logs "worker tick crashed" and the rest of the batch is left running.
TickCrash(w) ==
    /\ \/ pc[w] = "claiming"
       \/ pc[w] \in {"settling", "committing"} /\ outcome[w] # "ok"
    /\ Forget(w, "idle")

\* A second passes.
Elapse ==
    /\ InTime => \A w \in Workers : \A r \in batch[w] :
                   job[r].status = "running" => job[r].age < Stale
    /\ job' = [r \in Rows |-> Later(job[r])]
    /\ UNCHANGED <<memory, writer, faults>>

WorkerStep(w) ==
    \/ BootRead(w)
    \/ BootCommit(w)
    \/ TickBegin(w)
    \/ ClaimCommit(w)
    \/ \E r \in Rows, o \in Outcome : RunHandler(w, r, o)
    \/ SettleRead(w)
    \/ SettleCommit(w)

Fault(w) == Crash(w) \/ TickCrash(w)

Next ==
    \/ \E w \in Workers : WorkerStep(w) \/ Fault(w)
    \/ \E r \in Rows, d \in Delays : Produce(r, d)
    \/ Elapse

Spec == Init /\ [][Next]_vars

\* Time passes, a worker thread that can go on does, and the platform starts
\* a process that died again.  Nothing obliges anyone to enqueue.
FairSpec ==
    /\ Spec
    /\ WF_vars(Elapse)
    /\ \A w \in Workers : WF_vars(WorkerStep(w))

----------------------------------------------------------------------------
PC == {"down", "booting", "idle", "claiming", "working", "settling", "committing"}

\* Every variable has its type, and a worker that settles a job holds it.
TypeOK ==
    /\ job \in [Rows -> JobRow]
    /\ pc \in [Workers -> PC]
    /\ seen \in [Workers -> SUBSET Rows]
    /\ stale \in [Workers -> SUBSET Rows]
    /\ batch \in [Workers -> SUBSET Rows]
    /\ cur \in [Workers -> Rows \cup {None}]
    /\ outcome \in [Workers -> Outcome]
    /\ plan \in [Workers -> SUBSET Recurring]
    /\ writer \in Workers \cup {None}
    /\ faults \in 0 .. MaxFaults
    /\ \A w \in Workers : pc[w] \in {"settling", "committing"} => cur[w] \in batch[w]

\* Once a process is up, every recurring type has a job that is queued or
\* running: no completion, failure, crash, stale lock or second worker ever
\* breaks the chain a sweep lives by (jobs.py:75-93, worker.py:46-48).
ChainAlive ==
    \A t \in Recurring :
        (\E w \in Workers : pc[w] \notin {"down", "booting"}) => LiveRows(t) # {}

\* With one worker a recurring type never has two jobs in flight, so a sweep
\* cannot multiply across restarts (ensure_recurring, jobs.py:75-80).
ChainIsSingle ==
    \A t \in Recurring : Cardinality(LiveRows(t)) <= 1

\* Two workers never hold one job.  It takes the compare-and-swap, a handler that
\* ends while its lock is fresh and a worker that does not die: when a stale lock
\* is taken back, by an UPDATE on the id alone, two can (jobs.py:26-44, 65-72).
NeverBothClaim ==
    \A v, w \in Workers : v # w => batch[v] \cap batch[w] = {}

\* With one worker, every job has the life the queue promises: it is run until it is done
\* or out of attempts, whatever crashes, stale locks and retries it meets, and it is never
\* run again; only a new job may take its row number (jobs.py:26-72).
Promise ==
    INSTANCE JobPromise WITH
        Jobs <- Rows,
        Limit <- [r \in Rows |-> MaxAttempts[RowType[r]]],
        OneShot <- {r \in Rows : RowType[r] \notin Recurring},
        state <- [r \in Rows |-> job[r].status],
        tries <- [r \in Rows |-> IF IsLive(r) THEN job[r].attempts ELSE 0]

JobsKept == Promise!Spec

\* Every sweep keeps being run.
SweepsForever ==
    \A t \in Recurring :
        []<>(\E w \in Workers : pc[w] = "settling" /\ RowType[cur[w]] = t)
=============================================================================
