--------------------------- MODULE JobQueueProofs ---------------------------
(***************************************************************************)
(* Theorems about JobQueue, for any number of workers, rows and types:     *)
(*   TypeCorrect     the type invariant;                                   *)
(*   ChainNeverDies  with one writer or worker no recurring chain breaks;  *)
(*   ClaimsDisjoint  without faults or late handlers claims are exclusive; *)
(*   ChainsSingle    with one worker no sweep has two jobs in flight;      *)
(*   PromiseSafe     with one worker, or any number under the assumptions  *)
(*                   of ClaimsDisjoint, every step is one of JobPromise.   *)
(***************************************************************************)
EXTENDS JobQueue, FiniteSetTheorems, TLAPS

(***************************************************************************)
(* Rows                                                                    *)
(***************************************************************************)

\* Whatever a transaction writes into a row is a row again (jobs.py:17-62).
LEMMA RowsWritten ==
    ASSUME TypeOK, NEW r \in Rows
    PROVE  /\ \A d \in Nat : NewRow(d) \in JobRow
           /\ RunningRow(job[r]) \in JobRow
           /\ ReclaimedRow(job[r]) \in JobRow
           /\ Later(job[r]) \in JobRow
           /\ \A o \in Outcome : SettledRow(r, o) \in JobRow
<1> USE TypesAssumption, BoundsAssumption
<1>1. /\ job[r] \in JobRow
      /\ job[r].attempts \in Nat
      /\ job[r].status \in Status
      /\ job[r].wait \in Nat
      /\ job[r].age \in 0 .. Stale + 1
  BY DEF TypeOK, JobRow
<1>2. 0 \in 0 .. Stale + 1
  OBVIOUS
<1>3. \A d \in Nat : NewRow(d) \in JobRow
  BY <1>2 DEF NewRow, JobRow, Status
<1>4. RunningRow(job[r]) \in JobRow
  BY <1>1, <1>2 DEF RunningRow, JobRow, Status
<1>5. ReclaimedRow(job[r]) \in JobRow
  BY <1>1, <1>2 DEF ReclaimedRow, JobRow, Status
<1>6. ASSUME NEW o \in Outcome PROVE SettledRow(r, o) \in JobRow
  <2>1. DoneRow(job[r]) \in JobRow
    BY <1>1, <1>2 DEF DoneRow, JobRow, Status
  <2>2. DeadRow(job[r], MaxAttempts[RowType[r]]) \in JobRow
    <3>1. MaxAttempts[RowType[r]] \in Nat
      OBVIOUS
    <3> QED BY <1>1, <1>2, <3>1 DEF DeadRow, JobRow, Status
  <2>3. ASSUME Retries(r, o) PROVE RetryRow(job[r]) \in JobRow
    <3>1. job[r].attempts + 1 \in 1 .. MaxAttempts[RowType[r]]
      BY <1>1, <2>3 DEF Retries
    <3>2. Backoff[job[r].attempts + 1] \in Nat
      BY <3>1
    <3> QED BY <1>1, <1>2, <3>2 DEF RetryRow, JobRow, Status
  <2> QED BY <2>1, <2>2, <2>3 DEF SettledRow
<1>7. Later(job[r]) \in JobRow
  <2>1. (IF job[r].wait > 0 THEN job[r].wait - 1 ELSE 0) \in Nat
    BY <1>1
  <2>2. (IF job[r].status = "running" /\ job[r].age <= Stale
           THEN job[r].age + 1 ELSE job[r].age) \in 0 .. Stale + 1
    BY <1>1
  <2> QED BY <1>1, <2>1, <2>2 DEF Later, JobRow
<1> QED BY <1>3, <1>4, <1>5, <1>6, <1>7

\* An enqueued job takes a row that is neither live nor in anybody's memory.
LEMMA SuccessorsAreFree ==
    ASSUME NEW types \in SUBSET Recurring, NEW new \in Successors(types), NEW t \in types
    PROVE  /\ new[t] \in Rows
           /\ RowType[new[t]] = t
           /\ Free(new[t])
BY DEF Successors

(***************************************************************************)
(* Types                                                                   *)
(***************************************************************************)
LEMMA TypeInit == Init => TypeOK
<1> SUFFICES ASSUME Init PROVE TypeOK
  OBVIOUS
<1> USE TypesAssumption, BoundsAssumption DEF Init
<1>1. job \in [Rows -> JobRow]
  BY DEF JobRow, Status
<1> QED BY <1>1 DEF TypeOK, PC, Outcome

LEMMA TypeNext == TypeOK /\ [Next]_vars => TypeOK'
<1> SUFFICES ASSUME TypeOK, [Next]_vars PROVE TypeOK'
  OBVIOUS
<1> USE TypesAssumption, BoundsAssumption
<1>1. ASSUME NEW r \in Rows, NEW d \in Delays, Produce(r, d) PROVE TypeOK'
  <2>1. d \in Nat
    OBVIOUS
  <2>2. job' \in [Rows -> JobRow]
    BY <1>1, <2>1, RowsWritten DEF Produce, TypeOK
  <2> QED BY <1>1, <2>2 DEF Produce, TypeOK, memory
<1>2. ASSUME NEW w \in Workers, BootRead(w) PROVE TypeOK'
  BY <1>2 DEF BootRead, TypeOK, PC
<1>3. ASSUME NEW w \in Workers, BootCommit(w) PROVE TypeOK'
  <2>1. job' \in [Rows -> JobRow]
    BY <1>3, RowsWritten DEF BootCommit, TypeOK
  <2> QED BY <1>3, <2>1 DEF BootCommit, TypeOK, PC
<1>4. ASSUME NEW w \in Workers, TickBegin(w) PROVE TypeOK'
  BY <1>4 DEF TickBegin, TypeOK, PC, Due, StaleRows
<1>5. ASSUME NEW w \in Workers, ClaimCommit(w) PROVE TypeOK'
  <2>1. job' \in [Rows -> JobRow]
    BY <1>5, RowsWritten DEF ClaimCommit, TypeOK
  <2> QED BY <1>5, <2>1 DEF ClaimCommit, Claimed, TypeOK, PC
<1>6. ASSUME NEW w \in Workers, NEW r \in Rows, NEW o \in Outcome, RunHandler(w, r, o)
      PROVE  TypeOK'
  BY <1>6 DEF RunHandler, TypeOK, PC
<1>7. ASSUME NEW w \in Workers, SettleRead(w) PROVE TypeOK'
  BY <1>7 DEF SettleRead, MissingAfter, TypeOK, PC
<1>8. ASSUME NEW w \in Workers, SettleCommit(w) PROVE TypeOK'
  <2>1. outcome[w] \in Outcome /\ plan[w] \in SUBSET Recurring
    BY DEF TypeOK
  <2>2. PICK new \in Successors(plan[w]) :
          job' = [r \in Rows |->
                    CASE r = cur[w]                    -> SettledRow(r, outcome[w])
                      [] \E t \in plan[w] : new[t] = r -> NewRow(Interval[RowType[r]])
                      [] OTHER                         -> job[r]]
    BY <1>8 DEF SettleCommit
  <2>3. ASSUME NEW r \in Rows, NEW t \in plan[w], new[t] = r
        PROVE  NewRow(Interval[RowType[r]]) \in JobRow
    BY <2>1, <2>3, SuccessorsAreFree, RowsWritten
  <2>4. job' \in [Rows -> JobRow]
    BY <2>1, <2>2, <2>3, RowsWritten DEF TypeOK
  <2> QED BY <1>8, <2>4 DEF SettleCommit, TypeOK, PC, Outcome
<1>9. ASSUME NEW w \in Workers, Fault(w) PROVE TypeOK'
  BY <1>9 DEF Fault, Crash, TickCrash, Forget, TypeOK, PC, Outcome
<1>10. ASSUME Elapse PROVE TypeOK'
  <2>2. job' \in [Rows -> JobRow]
    BY <1>10, RowsWritten DEF Elapse
  <2> QED BY <1>10, <2>2 DEF Elapse, TypeOK, memory
<1>11. CASE UNCHANGED vars
  BY <1>11 DEF vars, TypeOK
<1> QED
  BY <1>1, <1>2, <1>3, <1>4, <1>5, <1>6, <1>7, <1>8, <1>9, <1>10, <1>11
  DEF Next, WorkerStep

\* Every reachable state is well typed, and a worker that settles a job is one
\* that claimed it (jobs.py:17-72, worker.py:22-49).
THEOREM TypeCorrect == Spec => []TypeOK
<1>1. Init => TypeOK
  BY TypeInit
<1>2. TypeOK /\ [Next]_vars => TypeOK'
  BY TypeNext
<1> QED BY <1>1, <1>2, PTL DEF Spec

(***************************************************************************)
(* Recurring chains                                                        *)
(***************************************************************************)

\* One transaction at a time settles a job: there is one worker, or SQLite.
OneSettles == SingleWriter \/ \A v, w \in Workers : v = w

\* What the workers that are about to write know of the chains.  ChainAlive
\* alone is not inductive: it does not say that what a worker read in the
\* transaction that settles a job still holds when it commits.
ChainInv ==
    \A w \in Workers :
        /\ SingleWriter /\ pc[w] = "committing" => writer = w
        /\ \A t \in Recurring :
             /\ pc[w] \notin {"down", "booting"} => LiveRows(t) # {}
             /\ pc[w] = "booting" /\ t \notin plan[w] => LiveRows(t) # {}
             /\ pc[w] = "committing" /\ RowType[cur[w]] = t /\ t \notin plan[w]
                  => LiveRows(t) \ {cur[w]} # {}

\* Only the transaction that settles a job takes a row out of the queue.
LEMMA OthersKeepLiveRows ==
    ASSUME TypeOK, [Next]_vars, \A w \in Workers : ~SettleCommit(w),
           NEW t \in Recurring
    PROVE  LiveRows(t) \subseteq LiveRows(t)'
<1> SUFFICES ASSUME NEW r \in Rows, IsLive(r) PROVE IsLive(r)'
  BY DEF LiveRows
<1>1. /\ job[r] \in JobRow
      /\ DOMAIN job = Rows
      /\ ~Free(r)
  BY DEF TypeOK, IsLive, Free
<1>2. ASSUME NEW q \in Rows, NEW d \in Delays, Produce(q, d) PROVE IsLive(r)'
  BY <1>1, <1>2 DEF Produce, IsLive
<1>3. ASSUME NEW w \in Workers, BootCommit(w) PROVE IsLive(r)'
  <2>1. NewRow(0).status = "queued"
    BY DEF NewRow
  <2> QED BY <1>1, <1>3, <2>1 DEF BootCommit, IsLive
<1>4. ASSUME NEW w \in Workers, ClaimCommit(w) PROVE IsLive(r)'
  <2>1. RunningRow(job[r]).status = "running"
    BY <1>1 DEF RunningRow, JobRow
  <2>2. ReclaimedRow(job[r]).status = "queued"
    BY <1>1 DEF ReclaimedRow, JobRow
  <2> QED BY <1>1, <1>4, <2>1, <2>2 DEF ClaimCommit, IsLive
<1>5. ASSUME Elapse PROVE IsLive(r)'
  <2>1. Later(job[r]).status = job[r].status
    BY <1>1 DEF Later, JobRow
  <2> QED BY <1>5, <2>1 DEF Elapse, IsLive
<1>6. ASSUME UNCHANGED job PROVE IsLive(r)'
  BY <1>6 DEF IsLive
<1> QED
  BY <1>2, <1>3, <1>4, <1>5, <1>6
  DEF Next, WorkerStep, BootRead, TickBegin, RunHandler, SettleRead, Fault, Crash,
      TickCrash, Forget, vars

LEMMA ChainNext ==
    ASSUME OneSettles, TypeOK, ChainInv, [Next]_vars
    PROVE  ChainInv'
<1> USE TypesAssumption, BoundsAssumption
<1>1. ASSUME NEW w \in Workers, SettleCommit(w) PROVE ChainInv'
  <2>1. /\ pc[w] = "committing"
        /\ SingleWriter => writer = w
        /\ cur[w] \in batch[w]
        /\ cur[w] \in Rows
        /\ plan[w] \in SUBSET Recurring
        /\ outcome[w] \in Outcome
    BY <1>1 DEF SettleCommit, ChainInv, TypeOK
  <2>2. PICK new \in Successors(plan[w]) :
          job' = [r \in Rows |->
                    CASE r = cur[w]                    -> SettledRow(r, outcome[w])
                      [] \E t \in plan[w] : new[t] = r -> NewRow(Interval[RowType[r]])
                      [] OTHER                         -> job[r]]
    BY <1>1 DEF SettleCommit
  <2>3. \A d : NewRow(d).status = "queued"
    BY DEF NewRow
  <2>4. ASSUME NEW v \in Workers, v # w
        PROVE  pc[v] # "committing" /\ pc'[v] = pc[v] /\ plan'[v] = plan[v]
    BY <1>1, <2>1, <2>4 DEF SettleCommit, ChainInv, TypeOK, OneSettles
  <2>5. pc'[w] \in {"idle", "working"}
    BY <1>1 DEF SettleCommit, TypeOK
  <2>6. ASSUME NEW t \in Recurring, LiveRows(t) # {} PROVE LiveRows(t)' # {}
    <3>1. CASE t \in plan[w]
      <4>1. /\ new[t] \in Rows
            /\ RowType[new[t]] = t
            /\ Free(new[t])
        BY <2>1, <2>2, <3>1, SuccessorsAreFree
      <4>2. new[t] # cur[w]
        BY <2>1, <4>1 DEF Free, Held
      <4>3. job'[new[t]].status = "queued"
        BY <2>2, <2>3, <3>1, <4>1, <4>2
      <4> QED BY <4>1, <4>3 DEF LiveRows, IsLive
    <3>2. CASE t \notin plan[w]
      <4>1. PICK r \in LiveRows(t) : r # cur[w]
        BY <2>1, <2>6, <3>2 DEF ChainInv, LiveRows
      <4>2. r \in Rows /\ RowType[r] = t /\ IsLive(r)
        BY <4>1 DEF LiveRows
      <4>3. job'[r] = job[r] \/ job'[r].status = "queued"
        BY <2>2, <2>3, <4>1, <4>2
      <4> QED BY <4>2, <4>3 DEF LiveRows, IsLive
    <3> QED BY <3>1, <3>2
  <2> QED BY <2>1, <2>4, <2>5, <2>6 DEF ChainInv
<1>2. ASSUME \A w \in Workers : ~SettleCommit(w) PROVE ChainInv'
  <2>1. \A t \in Recurring : LiveRows(t) \subseteq LiveRows(t)'
    BY <1>2, OthersKeepLiveRows
  <2>2. ASSUME NEW w \in Workers, BootRead(w) PROVE ChainInv'
    BY <2>1, <2>2 DEF BootRead, ChainInv, TypeOK
  <2>3. ASSUME NEW w \in Workers, BootCommit(w) PROVE ChainInv'
    <3>1. plan[w] \in SUBSET Recurring /\ pc[w] = "booting"
      BY <2>3 DEF TypeOK, BootCommit
    <3>2. PICK new \in Successors(plan[w]) :
            job' = [r \in Rows |->
                      IF \E t \in plan[w] : new[t] = r THEN NewRow(0) ELSE job[r]]
      BY <2>3 DEF BootCommit
    <3>3. ASSUME NEW t \in plan[w] PROVE LiveRows(t)' # {}
      <4>1. new[t] \in Rows /\ RowType[new[t]] = t
        BY <3>1, <3>2, SuccessorsAreFree
      <4>2. job'[new[t]].status = "queued"
        BY <3>2, <4>1 DEF NewRow
      <4> QED BY <4>1, <4>2 DEF LiveRows, IsLive
    <3>4. \A t \in Recurring : LiveRows(t)' # {}
      BY <2>1, <3>1, <3>3 DEF ChainInv
    <3> QED BY <2>1, <2>3, <3>4 DEF BootCommit, ChainInv, TypeOK
  <2>4. ASSUME NEW w \in Workers, TickBegin(w) PROVE ChainInv'
    BY <2>1, <2>4 DEF TickBegin, ChainInv, TypeOK
  <2>5. ASSUME NEW w \in Workers, ClaimCommit(w) PROVE ChainInv'
    BY <2>1, <2>5 DEF ClaimCommit, ChainInv, TypeOK
  <2>6. ASSUME NEW w \in Workers, NEW r \in Rows, NEW o \in Outcome, RunHandler(w, r, o)
        PROVE  ChainInv'
    BY <2>1, <2>6 DEF RunHandler, ChainInv, TypeOK
  <2>7. ASSUME NEW w \in Workers, SettleRead(w) PROVE ChainInv'
    <3>1. /\ pc[w] = "settling"
          /\ cur[w] \in Rows
          /\ cur' = cur
          /\ plan' = [plan EXCEPT ![w] = MissingAfter(cur[w], outcome[w])]
          /\ UNCHANGED job
      BY <2>7 DEF SettleRead, TypeOK
    <3>2. \A v \in Workers : pc[v] = "committing" => v = w
      BY <2>7 DEF SettleRead, MayWrite, ChainInv, OneSettles
    <3>3. SingleWriter => writer' = w
      BY <2>7 DEF SettleRead
    <3>4. ASSUME NEW t \in Recurring, RowType[cur[w]] = t, t \notin plan'[w]
          PROVE  LiveRows(t) \ {cur[w]} # {}
      <4>1. ~Retries(cur[w], outcome[w])
        BY <3>1, <3>4 DEF Retries, TypeOK, JobRow
      <4> QED BY <3>1, <3>4, <4>1 DEF MissingAfter, TypeOK
    <3>5. \A t \in Recurring : LiveRows(t)' = LiveRows(t)
      BY <3>1 DEF LiveRows, IsLive
    <3> QED
      BY <2>7, <3>1, <3>2, <3>3, <3>4, <3>5 DEF SettleRead, ChainInv, TypeOK
  <2>8. ASSUME NEW w \in Workers, Fault(w) PROVE ChainInv'
    <3>1. UNCHANGED job
      BY <2>8 DEF Fault, Crash, TickCrash, Forget
    <3>2. \A t \in Recurring : LiveRows(t)' = LiveRows(t)
      BY <3>1 DEF LiveRows, IsLive
    <3> QED
      BY <2>8, <3>2 DEF Fault, Crash, TickCrash, Forget, ChainInv, TypeOK
  <2>9. ASSUME NEW r \in Rows, NEW d \in Delays, Produce(r, d) PROVE ChainInv'
    BY <2>1, <2>9 DEF Produce, memory, ChainInv, TypeOK
  <2>10. ASSUME Elapse PROVE ChainInv'
    BY <2>1, <2>10 DEF Elapse, memory, ChainInv, TypeOK
  <2>11. CASE UNCHANGED vars
    BY <2>1, <2>11 DEF vars, ChainInv, TypeOK
  <2> QED
    BY <1>2, <2>2, <2>3, <2>4, <2>5, <2>6, <2>7, <2>8, <2>9, <2>10, <2>11
    DEF Next, WorkerStep
<1> QED BY <1>1, <1>2

\* With one worker, as deployed, or with any number of them on SQLite, which has one
\* writing transaction at a time, no number of crashes, late handlers or failed ticks
\* ever leaves a recurring type without a queued or running job (jobs.py:75-93,
\* worker.py:43-48).
THEOREM ChainNeverDies ==
    ASSUME SingleWriter \/ \A v, w \in Workers : v = w
    PROVE  Spec => []ChainAlive
<1>1. Init => ChainInv
  BY DEF Init, ChainInv
<1>2. TypeOK /\ ChainInv /\ [Next]_vars => ChainInv'
  BY ChainNext DEF OneSettles
<1>3. ChainInv => ChainAlive
  BY DEF ChainInv, ChainAlive
<1>4. Spec => []TypeOK
  BY TypeCorrect
<1> QED BY <1>1, <1>2, <1>3, <1>4, PTL DEF Spec

(***************************************************************************)
(* Claims                                                                  *)
(***************************************************************************)

\* A job that runs is held, under a fresh lock, by exactly one worker; so no
\* lock is ever stale and no row that is queued is in anybody's hands.
ClaimInv ==
    /\ \A w \in Workers :
         /\ stale[w] = {}
         /\ pc[w] \in {"down", "booting", "idle", "claiming"} => batch[w] = {}
         /\ \A r \in batch[w] : job[r].status = "running" /\ job[r].age <= Stale
    /\ \A r \in Rows : job[r].status = "running" => \E w \in Workers : r \in batch[w]
    /\ NeverBothClaim

LEMMA ClaimNext ==
    ASSUME InTime, MaxFaults = 0, TypeOK, ClaimInv, [Next]_vars
    PROVE  ClaimInv'
<1> USE TypesAssumption, BoundsAssumption
<1>1. StaleRows = {}
  BY DEF StaleRows, ClaimInv, TypeOK, JobRow
<1>2. \A r \in Rows : Free(r) => \A w \in Workers : r \notin batch[w]
  BY DEF Free, Held
<1>3. \A d : NewRow(d).status = "queued"
  BY DEF NewRow
<1>4. ASSUME NEW r \in Rows, NEW d \in Delays, Produce(r, d) PROVE ClaimInv'
  BY <1>2, <1>3, <1>4 DEF Produce, memory, ClaimInv, NeverBothClaim, TypeOK
<1>5. ASSUME NEW w \in Workers, BootRead(w) PROVE ClaimInv'
  BY <1>5 DEF BootRead, ClaimInv, NeverBothClaim
<1>6. ASSUME NEW w \in Workers, BootCommit(w) PROVE ClaimInv'
  <2>1. ASSUME NEW r \in Rows
        PROVE  \/ job'[r] = job[r]
               \/ job'[r].status = "queued" /\ \A v \in Workers : r \notin batch[v]
    <3>1. plan[w] \in SUBSET Recurring
      BY DEF TypeOK
    <3> QED BY <1>2, <1>3, <1>6, <3>1, SuccessorsAreFree DEF BootCommit
  <2> QED BY <1>6, <2>1 DEF BootCommit, ClaimInv, NeverBothClaim, TypeOK
<1>7. ASSUME NEW w \in Workers, TickBegin(w) PROVE ClaimInv'
  BY <1>1, <1>7 DEF TickBegin, ClaimInv, NeverBothClaim, TypeOK
<1>8. ASSUME NEW w \in Workers, ClaimCommit(w) PROVE ClaimInv'
  <2>1. Claimed(w) \subseteq {r \in Rows : job[r].status = "queued"}
    BY DEF Claimed, Queued, ClaimInv, TypeOK
  <2>2. ASSUME NEW r \in Rows
        PROVE  IF r \in Claimed(w)
                 THEN job'[r].status = "running" /\ job'[r].age = 0
                 ELSE job'[r] = job[r]
    <3>1. job[r] \in JobRow
      BY DEF TypeOK
    <3> QED BY <1>8, <3>1 DEF ClaimCommit, ClaimInv, RunningRow, JobRow
  <2>3. batch' = [batch EXCEPT ![w] = Claimed(w)] /\ stale' = [stale EXCEPT ![w] = {}]
    BY <1>8 DEF ClaimCommit
  <2>4. batch[w] = {}
    BY <1>8 DEF ClaimCommit, ClaimInv
  <2>5. pc' = [pc EXCEPT ![w] = IF Claimed(w) = {} THEN "idle" ELSE "working"]
    BY <1>8 DEF ClaimCommit
  <2> QED BY <2>5, <2>1, <2>2, <2>3, <2>4 DEF ClaimInv, NeverBothClaim, TypeOK
<1>9. ASSUME NEW w \in Workers, NEW r \in Rows, NEW o \in Outcome, RunHandler(w, r, o)
      PROVE  ClaimInv'
  BY <1>9 DEF RunHandler, ClaimInv, NeverBothClaim
<1>10. ASSUME NEW w \in Workers, SettleRead(w) PROVE ClaimInv'
  BY <1>10 DEF SettleRead, ClaimInv, NeverBothClaim
<1>11. ASSUME NEW w \in Workers, SettleCommit(w) PROVE ClaimInv'
  <2>1. /\ cur[w] \in batch[w]
        /\ cur[w] \in Rows
        /\ plan[w] \in SUBSET Recurring
        /\ outcome[w] \in Outcome
    BY <1>11 DEF SettleCommit, TypeOK
  <2>2. ASSUME NEW o \in Outcome PROVE SettledRow(cur[w], o).status # "running"
    <3>1. job[cur[w]] \in JobRow
      BY <2>1 DEF TypeOK
    <3>2. DoneRow(job[cur[w]]).status = "done"
      BY <3>1 DEF DoneRow, JobRow
    <3>3. RetryRow(job[cur[w]]).status = "queued"
      BY DEF RetryRow
    <3>4. DeadRow(job[cur[w]], MaxAttempts[RowType[cur[w]]]).status = "dead"
      BY DEF DeadRow
    <3> QED BY <3>2, <3>3, <3>4 DEF SettledRow
  <2>3. ASSUME NEW r \in Rows
        PROVE  \/ r = cur[w] /\ job'[r].status # "running"
               \/ r # cur[w] /\ job'[r] = job[r]
               \/ /\ r # cur[w]
                  /\ job'[r].status = "queued"
                  /\ \A v \in Workers : r \notin batch[v]
    BY <1>2, <1>3, <1>11, <2>1, <2>2, SuccessorsAreFree DEF SettleCommit
  <2>4. /\ batch' = [batch EXCEPT ![w] = @ \ {cur[w]}]
        /\ stale' = stale
        /\ pc' = [pc EXCEPT ![w] = IF batch[w] = {cur[w]} THEN "idle" ELSE "working"]
    BY <1>11 DEF SettleCommit
  <2> QED BY <2>1, <2>3, <2>4 DEF ClaimInv, NeverBothClaim, TypeOK
<1>12. ASSUME NEW w \in Workers, Fault(w) PROVE FALSE
  BY <1>12 DEF Fault, Crash, TickCrash, Forget, TypeOK
<1>13. ASSUME Elapse PROVE ClaimInv'
  <2>1. ASSUME NEW r \in Rows
        PROVE  /\ job'[r].status = job[r].status
               /\ \A w \in Workers : r \in batch[w] => job'[r].age <= Stale
    <3>1. job[r] \in JobRow
      BY DEF TypeOK
    <3>2. job'[r] = Later(job[r])
      BY <1>13 DEF Elapse
    <3>3. ASSUME NEW w \in Workers, r \in batch[w] PROVE job[r].age < Stale
      BY <1>13, <3>3 DEF Elapse, ClaimInv
    <3>4. Later(job[r]).age \in {job[r].age, job[r].age + 1}
      BY <3>1 DEF Later, JobRow
    <3> QED BY <3>1, <3>2, <3>3, <3>4 DEF Later, JobRow
  <2> QED BY <1>13, <2>1 DEF Elapse, memory, ClaimInv, NeverBothClaim, TypeOK
<1>14. CASE UNCHANGED vars
  BY <1>14 DEF vars, ClaimInv, NeverBothClaim
<1> QED
  BY <1>4, <1>5, <1>6, <1>7, <1>8, <1>9, <1>10, <1>11, <1>12, <1>13, <1>14
  DEF Next, WorkerStep

LEMMA ClaimAlways ==
    ASSUME InTime, MaxFaults = 0
    PROVE  Spec => [](TypeOK /\ ClaimInv)
<1>1. Init => ClaimInv
  <2> SUFFICES ASSUME Init PROVE ClaimInv
    OBVIOUS
  <2>1. \A r \in Rows : job[r].status = "absent"
    BY DEF Init
  <2> QED BY <2>1 DEF Init, ClaimInv, NeverBothClaim
<1>2. TypeOK /\ ClaimInv /\ [Next]_vars => ClaimInv'
  BY ClaimNext
<1>3. Spec => []TypeOK
  BY TypeCorrect
<1> QED BY <1>1, <1>2, <1>3, PTL DEF Spec

\* When every handler ends while its lock is fresh and no worker dies, no two
\* workers ever hold one job, whatever the database isolates: the compare-and-
\* swap on the status is enough (jobs.py:26-44).
THEOREM ClaimsDisjoint ==
    ASSUME InTime, MaxFaults = 0
    PROVE  Spec => []NeverBothClaim
<1>1. ClaimInv => NeverBothClaim
  BY DEF ClaimInv
<1>2. Spec => [](TypeOK /\ ClaimInv)
  BY ClaimAlways
<1> QED BY <1>1, <1>2, PTL

(***************************************************************************)
(* One worker                                                              *)
(***************************************************************************)
OneWorker == \A v, w \in Workers : v = w

\* What a lone worker has in hand is still running: nobody else takes it back.
SoleInv ==
    \A w \in Workers :
        /\ stale[w] # {} => pc[w] = "claiming"
        /\ batch[w] # {} => pc[w] \in {"working", "settling", "committing"}
        /\ \A r \in stale[w] \cup batch[w] : job[r].status = "running"

LEMMA SoleNext ==
    ASSUME OneWorker, TypeOK, SoleInv, [Next]_vars
    PROVE  SoleInv'
<1> USE TypesAssumption, BoundsAssumption
<1>1. \A r \in Rows : Free(r) => \A w \in Workers : r \notin stale[w] \cup batch[w]
  BY DEF Free, Held
<1>2. \A r \in Rows : job[r] \in JobRow
  BY DEF TypeOK
<1>3. ASSUME NEW r \in Rows, NEW d \in Delays, Produce(r, d) PROVE SoleInv'
  BY <1>1, <1>3 DEF Produce, memory, SoleInv, TypeOK
<1>4. ASSUME NEW w \in Workers, BootRead(w) PROVE SoleInv'
  BY <1>4 DEF BootRead, SoleInv, TypeOK
<1>5. ASSUME NEW w \in Workers, BootCommit(w) PROVE SoleInv'
  <2>1. ASSUME NEW r \in Rows, ~Free(r) PROVE job'[r] = job[r]
    <3>1. plan[w] \in SUBSET Recurring
      BY DEF TypeOK
    <3> QED BY <1>5, <2>1, <3>1, SuccessorsAreFree DEF BootCommit
  <2> QED BY <1>1, <1>5, <2>1 DEF BootCommit, SoleInv, TypeOK
<1>6. ASSUME NEW w \in Workers, TickBegin(w) PROVE SoleInv'
  BY <1>6 DEF TickBegin, StaleRows, SoleInv, TypeOK
<1>7. ASSUME NEW w \in Workers, ClaimCommit(w) PROVE SoleInv'
  <2>1. ASSUME NEW r \in Claimed(w) PROVE r \in Rows /\ job'[r].status = "running"
    <3>1. r \in Rows
      BY <2>1 DEF Claimed, TypeOK
    <3>2. job'[r] = RunningRow(job[r])
      <4>1. job' = [q \in Rows |-> CASE q \in Claimed(w)         -> RunningRow(job[q])
                                    [] q \in stale[w] \ seen[w] -> ReclaimedRow(job[q])
                                    [] OTHER                    -> job[q]]
        BY <1>7 DEF ClaimCommit
      <4> QED BY <2>1, <3>1, <4>1 DEF Claimed
    <3>3. RunningRow(job[r]).status = "running"
      BY <1>2, <3>1 DEF RunningRow, JobRow
    <3> QED BY <3>1, <3>2, <3>3
  <2>2. /\ batch' = [batch EXCEPT ![w] = Claimed(w)]
        /\ stale' = [stale EXCEPT ![w] = {}]
        /\ pc' = [pc EXCEPT ![w] = IF Claimed(w) = {} THEN "idle" ELSE "working"]
    BY <1>7 DEF ClaimCommit
  <2> QED BY <2>1, <2>2 DEF OneWorker, SoleInv, TypeOK
<1>8. ASSUME NEW w \in Workers, NEW r \in Rows, NEW o \in Outcome, RunHandler(w, r, o)
      PROVE  SoleInv'
  BY <1>8 DEF RunHandler, SoleInv, TypeOK
<1>9. ASSUME NEW w \in Workers, SettleRead(w) PROVE SoleInv'
  BY <1>9 DEF SettleRead, SoleInv, TypeOK
<1>10. ASSUME NEW w \in Workers, SettleCommit(w) PROVE SoleInv'
  <2>1. cur[w] \in Rows /\ plan[w] \in SUBSET Recurring
    BY <1>10 DEF SettleCommit, TypeOK
  <2>2. ASSUME NEW r \in Rows, ~Free(r), r # cur[w] PROVE job'[r] = job[r]
    BY <1>10, <2>1, <2>2, SuccessorsAreFree DEF SettleCommit
  <2>3. /\ batch' = [batch EXCEPT ![w] = @ \ {cur[w]}]
        /\ pc' = [pc EXCEPT ![w] = IF batch[w] = {cur[w]} THEN "idle" ELSE "working"]
        /\ stale' = stale
        /\ pc[w] = "committing"
    BY <1>10 DEF SettleCommit
  <2> QED BY <1>1, <2>1, <2>2, <2>3 DEF OneWorker, SoleInv, TypeOK
<1>11. ASSUME NEW w \in Workers, Fault(w) PROVE SoleInv'
  BY <1>11 DEF Fault, Crash, TickCrash, Forget, SoleInv, TypeOK
<1>12. ASSUME Elapse PROVE SoleInv'
  <2>1. \A r \in Rows : job'[r].status = job[r].status
    BY <1>2, <1>12 DEF Elapse, Later, JobRow
  <2> QED BY <1>12, <2>1 DEF Elapse, memory, SoleInv, TypeOK
<1>13. CASE UNCHANGED vars
  BY <1>13 DEF vars, SoleInv
<1> QED
  BY <1>3, <1>4, <1>5, <1>6, <1>7, <1>8, <1>9, <1>10, <1>11, <1>12, <1>13
  DEF Next, WorkerStep

LEMMA SoleAlways == ASSUME OneWorker PROVE Spec => [](TypeOK /\ SoleInv)
<1>1. Init => SoleInv
  BY DEF Init, SoleInv
<1>2. TypeOK /\ SoleInv /\ [Next]_vars => SoleInv'
  BY SoleNext
<1>3. Spec => []TypeOK
  BY TypeCorrect
<1> QED BY <1>1, <1>2, <1>3, PTL DEF Spec

\* A recurring type has at most one live row, and a worker that is about to write one
\* still has it right that there is none: none at all when a process starts, none but
\* the job it settles afterwards.
SingleInv ==
    \A t \in Recurring :
        /\ \A q, r \in LiveRows(t) : q = r
        /\ \A w \in Workers :
             /\ pc[w] = "booting" /\ t \in plan[w] => LiveRows(t) = {}
             /\ pc[w] = "committing" /\ t \in plan[w]
                  => RowType[cur[w]] = t /\ LiveRows(t) \subseteq {cur[w]}

\* A sweep is allowed one attempt, so settling its job takes it out of the queue.
LEMMA SweepsEnd ==
    ASSUME TypeOK, NEW r \in Rows, RowType[r] \in Recurring, NEW o \in Outcome
    PROVE  SettledRow(r, o).status \in {"done", "dead"}
<1> USE TypesAssumption
<1>1. job[r] \in JobRow
  BY DEF TypeOK
<1>2. ~Retries(r, o)
  BY <1>1 DEF Retries, JobRow
<1>3. DoneRow(job[r]).status = "done"
  BY <1>1 DEF DoneRow, JobRow
<1>4. DeadRow(job[r], MaxAttempts[RowType[r]]).status = "dead"
  BY DEF DeadRow
<1> QED BY <1>2, <1>3, <1>4 DEF SettledRow

LEMMA SingleNext ==
    ASSUME OneWorker, TypeOK, SoleInv, SingleInv, [Next]_vars
    PROVE  SingleInv'
<1> USE TypesAssumption, BoundsAssumption
<1>1. \A r \in Rows : job[r] \in JobRow
  BY DEF TypeOK
<1>2. \A d : NewRow(d).status = "queued"
  BY DEF NewRow
<1>3. ASSUME \A t \in Recurring : LiveRows(t)' \subseteq LiveRows(t),
             \A w \in Workers : pc'[w] \in {"booting", "committing"}
                => pc'[w] = pc[w] /\ plan'[w] = plan[w] /\ cur'[w] = cur[w]
      PROVE  SingleInv'
  BY <1>3 DEF SingleInv
<1>4. ASSUME \A r \in Rows : job'[r].status = job[r].status
      PROVE  \A t \in Recurring : LiveRows(t)' = LiveRows(t)
  BY <1>4 DEF LiveRows, IsLive
<1>5. ASSUME NEW r \in Rows, NEW d \in Delays, Produce(r, d) PROVE SingleInv'
  <2>1. \A t \in Recurring : LiveRows(t)' \subseteq LiveRows(t)
    BY <1>5 DEF Produce, LiveRows, IsLive, TypeOK
  <2> QED BY <1>3, <1>5, <2>1 DEF Produce, memory
<1>6. ASSUME NEW w \in Workers, BootRead(w) PROVE SingleInv'
  <2>1. \A t \in Recurring : LiveRows(t)' = LiveRows(t)
    BY <1>4, <1>6 DEF BootRead
  <2> QED BY <1>6, <2>1 DEF BootRead, SingleInv, TypeOK
<1>7. ASSUME NEW w \in Workers, BootCommit(w) PROVE SingleInv'
  <2>1. plan[w] \in SUBSET Recurring /\ pc[w] = "booting"
    BY <1>7 DEF TypeOK, BootCommit
  <2>2. PICK new \in Successors(plan[w]) :
          job' = [r \in Rows |->
                    IF \E t \in plan[w] : new[t] = r THEN NewRow(0) ELSE job[r]]
    BY <1>7 DEF BootCommit
  <2>3. ASSUME NEW t \in Recurring, NEW r \in LiveRows(t)'
        PROVE  \/ r \in LiveRows(t)
               \/ t \in plan[w] /\ r = new[t]
    <3>1. r \in Rows /\ RowType[r] = t /\ job'[r].status \in {"queued", "running"}
      BY <2>3 DEF LiveRows, IsLive
    <3>2. CASE \E u \in plan[w] : new[u] = r
      BY <2>1, <2>2, <3>1, <3>2, SuccessorsAreFree
    <3>3. CASE ~\E u \in plan[w] : new[u] = r
      BY <2>2, <3>1, <3>3 DEF LiveRows, IsLive
    <3> QED BY <3>2, <3>3
  <2>4. pc' = [pc EXCEPT ![w] = "idle"]
    BY <1>7 DEF BootCommit
  <2> QED BY <2>1, <2>3, <2>4 DEF OneWorker, SingleInv, TypeOK
<1>8. ASSUME NEW w \in Workers, TickBegin(w) PROVE SingleInv'
  <2>1. \A t \in Recurring : LiveRows(t)' = LiveRows(t)
    BY <1>4, <1>8 DEF TickBegin
  <2> QED BY <1>3, <1>8, <2>1 DEF TickBegin, TypeOK
<1>9. ASSUME NEW w \in Workers, ClaimCommit(w) PROVE SingleInv'
  <2>1. ASSUME NEW r \in Rows, ~IsLive(r) PROVE job'[r] = job[r]
    <3>1. r \notin Claimed(w) /\ r \notin stale[w]
      BY <2>1 DEF Claimed, Queued, SoleInv, IsLive
    <3> QED BY <1>9, <3>1 DEF ClaimCommit
  <2>2. \A t \in Recurring : LiveRows(t)' \subseteq LiveRows(t)
    BY <2>1 DEF LiveRows, IsLive
  <2> QED BY <1>3, <1>9, <2>2 DEF ClaimCommit, TypeOK
<1>10. ASSUME NEW w \in Workers, NEW r \in Rows, NEW o \in Outcome, RunHandler(w, r, o)
       PROVE  SingleInv'
  <2>1. \A t \in Recurring : LiveRows(t)' = LiveRows(t)
    BY <1>4, <1>10 DEF RunHandler
  <2> QED BY <1>3, <1>10, <2>1 DEF RunHandler, TypeOK
<1>11. ASSUME NEW w \in Workers, SettleRead(w) PROVE SingleInv'
  <2>1. \A t \in Recurring : LiveRows(t)' = LiveRows(t)
    BY <1>4, <1>11 DEF SettleRead
  <2> QED BY <1>11, <2>1 DEF SettleRead, MissingAfter, SingleInv, OneWorker, TypeOK
<1>12. ASSUME NEW w \in Workers, SettleCommit(w) PROVE SingleInv'
  <2>1. /\ pc[w] = "committing"
        /\ cur[w] \in Rows
        /\ plan[w] \in SUBSET Recurring
        /\ outcome[w] \in Outcome
        /\ cur[w] \in batch[w]
        /\ job[cur[w]].status = "running"
    BY <1>12 DEF SettleCommit, SoleInv, TypeOK
  <2>2. PICK new \in Successors(plan[w]) :
          job' = [r \in Rows |->
                    CASE r = cur[w]                    -> SettledRow(r, outcome[w])
                      [] \E t \in plan[w] : new[t] = r -> NewRow(Interval[RowType[r]])
                      [] OTHER                         -> job[r]]
    BY <1>12 DEF SettleCommit
  <2>3. ASSUME NEW t \in Recurring, NEW r \in LiveRows(t)'
        PROVE  /\ r # cur[w]
               /\ \/ r \in LiveRows(t)
                  \/ t \in plan[w] /\ r = new[t]
    <3>1. r \in Rows /\ RowType[r] = t /\ job'[r].status \in {"queued", "running"}
      BY <2>3 DEF LiveRows, IsLive
    <3>2. r # cur[w]
      <4> SUFFICES ASSUME r = cur[w] PROVE FALSE
        OBVIOUS
      <4>1. \A u \in plan[w] : new[u] # r
        BY <2>1, SuccessorsAreFree DEF Free, Held
      <4>2. SettledRow(r, outcome[w]).status \in {"done", "dead"}
        BY <2>1, <3>1, SweepsEnd
      <4>3. job'[r] = SettledRow(r, outcome[w])
        BY <2>2, <3>1, <4>1
      <4> QED BY <3>1, <4>2, <4>3
    <3>3. CASE \E u \in plan[w] : new[u] = r
      BY <2>1, <2>2, <3>1, <3>2, <3>3, SuccessorsAreFree
    <3>4. CASE ~\E u \in plan[w] : new[u] = r
      BY <2>2, <3>1, <3>2, <3>4 DEF LiveRows, IsLive
    <3> QED BY <3>2, <3>3, <3>4
  <2>4. pc'[w] \in {"idle", "working"}
    BY <1>12 DEF SettleCommit, TypeOK
  <2> QED BY <2>1, <2>3, <2>4 DEF OneWorker, SingleInv
<1>13. ASSUME NEW w \in Workers, Fault(w) PROVE SingleInv'
  <2>1. \A t \in Recurring : LiveRows(t)' = LiveRows(t)
    BY <1>4, <1>13 DEF Fault, Crash, TickCrash, Forget
  <2> QED BY <1>3, <1>13, <2>1 DEF Fault, Crash, TickCrash, Forget, TypeOK
<1>14. ASSUME Elapse PROVE SingleInv'
  <2>1. \A r \in Rows : job'[r].status = job[r].status
    BY <1>1, <1>14 DEF Elapse, Later, JobRow
  <2> QED BY <1>3, <1>4, <1>14, <2>1 DEF Elapse, memory
<1>15. CASE UNCHANGED vars
  <2>1. \A t \in Recurring : LiveRows(t)' = LiveRows(t)
    BY <1>4, <1>15 DEF vars
  <2> QED BY <1>3, <1>15, <2>1 DEF vars
<1> QED
  BY <1>5, <1>6, <1>7, <1>8, <1>9, <1>10, <1>11, <1>12, <1>13, <1>14, <1>15
  DEF Next, WorkerStep

\* With one worker, as deployed, no restart, stale lock, late handler or failed tick ever
\* gives a recurring type a second queued or running job, so a sweep does not multiply
\* (jobs.py:75-93, worker.py:22-49).
THEOREM ChainsSingle ==
    ASSUME \A v, w \in Workers : v = w
    PROVE  Spec => []ChainIsSingle
<1>1. Init => SingleInv
  BY DEF Init, SingleInv, LiveRows, IsLive
<1>2. TypeOK /\ SoleInv /\ SingleInv /\ [Next]_vars => SingleInv'
  BY SingleNext DEF OneWorker
<1>3. SingleInv => ChainIsSingle
  <2> SUFFICES ASSUME SingleInv, NEW t \in Recurring
               PROVE  Cardinality(LiveRows(t)) <= 1
    BY DEF ChainIsSingle
  <2>1. CASE LiveRows(t) = {}
    BY <2>1, FS_EmptySet
  <2>2. CASE LiveRows(t) # {}
    <3>1. PICK r : r \in LiveRows(t)
      BY <2>2
    <3>2. LiveRows(t) = {r}
      BY <3>1 DEF SingleInv
    <3> QED BY <3>2, FS_Singleton
  <2> QED BY <2>1, <2>2
<1>4. Spec => [](TypeOK /\ SoleInv)
  BY SoleAlways DEF OneWorker
<1> QED BY <1>1, <1>2, <1>3, <1>4, PTL DEF Spec

(***************************************************************************)
(* The promise                                                             *)
(***************************************************************************)

\* How many attempts at r have failed, for as long as that matters.
TriesAt(r) == IF IsLive(r) THEN job[r].attempts ELSE 0

\* What JobPromise lets happen to one job, in terms of its row.
RowAllowed(r) ==
    \/ /\ job[r].status \in {"absent", "done", "dead"}
       /\ job'[r].status = "queued"
       /\ TriesAt(r)' = 0
    \/ /\ job[r].status = "queued"
       /\ job'[r].status = "running"
       /\ TriesAt(r)' = TriesAt(r)
    \/ /\ job[r].status = "running"
       /\ job'[r].status \in {"queued", "running"}
       /\ TriesAt(r)' = TriesAt(r)
    \/ /\ job[r].status = "running"
       /\ job'[r].status = "queued"
       /\ TriesAt(r)' = TriesAt(r) + 1
       /\ TriesAt(r)' < MaxAttempts[RowType[r]]
    \/ /\ job[r].status = "running"
       /\ job'[r].status \in {"done", "dead"}
       /\ TriesAt(r)' = 0
    \/ /\ job'[r].status = job[r].status
       /\ TriesAt(r)' = TriesAt(r)

\* What a worker has read as stale, or holds, is running in the table.
HeldRuns == \A w \in Workers : \A q \in stale[w] \cup batch[w] : job[q].status = "running"

LEMMA EveryRowAllowed ==
    ASSUME TypeOK, HeldRuns, [Next]_vars, NEW r \in Rows
    PROVE  RowAllowed(r)
<1> USE TypesAssumption, BoundsAssumption
<1>1. job[r] \in JobRow
  BY DEF TypeOK
<1>2. \A d : NewRow(d).status = "queued" /\ NewRow(d).attempts = 0
  BY DEF NewRow
<1>3. ASSUME job'[r].status = job[r].status, job'[r].attempts = job[r].attempts
      PROVE  RowAllowed(r)
  BY <1>3 DEF RowAllowed, TriesAt, IsLive
<1>4. ASSUME Free(r), NEW d, job'[r] = NewRow(d) PROVE RowAllowed(r)
  BY <1>2, <1>4 DEF RowAllowed, TriesAt, IsLive, Free
<1>5. ASSUME NEW q \in Rows, NEW d \in Delays, Produce(q, d) PROVE RowAllowed(r)
  <2>1. CASE q = r
    <3>1. job'[r] = NewRow(d) /\ Free(r)
      BY <1>5, <2>1 DEF Produce, TypeOK
    <3> QED BY <1>4, <3>1
  <2>2. CASE q # r
    BY <1>3, <1>5, <2>2 DEF Produce, TypeOK
  <2> QED BY <2>1, <2>2
<1>6. ASSUME NEW w \in Workers, BootCommit(w) PROVE RowAllowed(r)
  <2>1. plan[w] \in SUBSET Recurring
    BY DEF TypeOK
  <2>2. \/ job'[r] = job[r]
        \/ Free(r) /\ job'[r] = NewRow(0)
    BY <1>6, <2>1, SuccessorsAreFree DEF BootCommit
  <2> QED BY <1>3, <1>4, <2>2
<1>7. ASSUME NEW w \in Workers, ClaimCommit(w) PROVE RowAllowed(r)
  <2>1. job' = [q \in Rows |->
                  CASE q \in Claimed(w)         -> RunningRow(job[q])
                    [] q \in stale[w] \ seen[w] -> ReclaimedRow(job[q])
                    [] OTHER                    -> job[q]]
    BY <1>7 DEF ClaimCommit
  <2>2. CASE r \in Claimed(w)
    <3>1. job'[r] = RunningRow(job[r])
      BY <2>1, <2>2 DEF Claimed
    <3>2. /\ RunningRow(job[r]).status = "running"
          /\ RunningRow(job[r]).attempts = job[r].attempts
      BY <1>1 DEF RunningRow, JobRow
    <3>3. job[r].status \in {"queued", "running"}
      BY <2>2 DEF Claimed, Queued, HeldRuns
    <3> QED BY <3>1, <3>2, <3>3 DEF RowAllowed, TriesAt, IsLive
  <2>3. CASE r \in stale[w] \ seen[w]
    <3>1. job'[r] = ReclaimedRow(job[r])
      BY <2>1, <2>3 DEF Claimed
    <3>2. /\ ReclaimedRow(job[r]).status = "queued"
          /\ ReclaimedRow(job[r]).attempts = job[r].attempts
      BY <1>1 DEF ReclaimedRow, JobRow
    <3>3. job[r].status = "running"
      BY <2>3 DEF HeldRuns
    <3> QED BY <3>1, <3>2, <3>3 DEF RowAllowed, TriesAt, IsLive
  <2>4. CASE r \notin Claimed(w) /\ r \notin stale[w] \ seen[w]
    BY <1>3, <2>1, <2>4
  <2> QED BY <2>2, <2>3, <2>4
<1>8. ASSUME NEW w \in Workers, SettleCommit(w) PROVE RowAllowed(r)
  <2>1. /\ cur[w] \in batch[w]
        /\ plan[w] \in SUBSET Recurring
        /\ outcome[w] \in Outcome
        /\ job[cur[w]].status = "running"
    BY <1>8 DEF SettleCommit, HeldRuns, TypeOK
  <2>2. PICK new \in Successors(plan[w]) :
          job' = [q \in Rows |->
                    CASE q = cur[w]                    -> SettledRow(q, outcome[w])
                      [] \E t \in plan[w] : new[t] = q -> NewRow(Interval[RowType[q]])
                      [] OTHER                         -> job[q]]
    BY <1>8 DEF SettleCommit
  <2>3. \A t \in plan[w] : Free(new[t]) /\ new[t] # cur[w]
    BY <2>1, SuccessorsAreFree DEF Free, Held
  <2>4. CASE r = cur[w]
    <3>1. job'[r] = SettledRow(r, outcome[w])
      BY <2>2, <2>3, <2>4
    <3>2. CASE Retries(r, outcome[w])
      <4>1. outcome[w] # "ok"
        BY <3>2 DEF Retries
      <4>2. job'[r] = RetryRow(job[r])
        BY <3>1, <3>2, <4>1 DEF SettledRow
      <4>3. /\ job'[r].status = "queued"
            /\ job'[r].attempts = job[r].attempts + 1
        BY <4>2 DEF RetryRow
      <4>4. job[r].attempts + 1 < MaxAttempts[RowType[r]]
        BY <3>2 DEF Retries
      <4> QED BY <2>1, <2>4, <4>3, <4>4 DEF RowAllowed, TriesAt, IsLive
    <3>3. CASE ~Retries(r, outcome[w])
      <4>1. DoneRow(job[r]).status = "done"
        BY <1>1 DEF DoneRow, JobRow
      <4>2. DeadRow(job[r], MaxAttempts[RowType[r]]).status = "dead"
        BY DEF DeadRow
      <4>3. job'[r].status \in {"done", "dead"}
        BY <3>1, <3>3, <4>1, <4>2 DEF SettledRow
      <4> QED BY <2>1, <2>4, <4>3 DEF RowAllowed, TriesAt, IsLive
    <3> QED BY <3>2, <3>3
  <2>5. CASE r # cur[w] /\ \E t \in plan[w] : new[t] = r
    BY <1>4, <2>2, <2>3, <2>5
  <2>6. CASE r # cur[w] /\ ~\E t \in plan[w] : new[t] = r
    BY <1>3, <2>2, <2>6
  <2> QED BY <2>4, <2>5, <2>6
<1>9. ASSUME Elapse PROVE RowAllowed(r)
  <2>1. /\ Later(job[r]).status = job[r].status
        /\ Later(job[r]).attempts = job[r].attempts
    BY <1>1 DEF Later, JobRow
  <2> QED BY <1>3, <1>9, <2>1 DEF Elapse
<1>10. ASSUME UNCHANGED job PROVE RowAllowed(r)
  BY <1>3, <1>10
<1> QED
  BY <1>5, <1>6, <1>7, <1>8, <1>9, <1>10
  DEF Next, WorkerStep, BootRead, TickBegin, RunHandler, SettleRead, Fault, Crash,
      TickCrash, Forget, vars

\* With one worker the queue keeps its promise step by step: whatever crashes, stale
\* locks, late handlers and failed ticks it meets, a row is only ever enqueued, started,
\* taken back while it runs, tried again below its limit, or finished for good, and its
\* attempts are counted in no other step (jobs.py:17-72).  With several it does so while
\* no lock goes stale and no worker dies.
THEOREM PromiseSafe ==
    ASSUME \/ \A v, w \in Workers : v = w
           \/ InTime /\ MaxFaults = 0
    PROVE  Spec => Promise!Safe
<1>1. Init => Promise!Init
  <2> SUFFICES ASSUME Init PROVE Promise!Init
    OBVIOUS
  <2>1. \A r \in Rows : job[r].status = "absent" /\ ~IsLive(r)
    BY DEF Init, IsLive
  <2> QED BY <2>1 DEF Promise!Init
<1>2. ASSUME TypeOK, HeldRuns, [Next]_vars PROVE Promise!Next
  <2> SUFFICES ASSUME NEW r \in Rows
               PROVE  \/ Promise!Enqueue(r) \/ Promise!Start(r) \/ Promise!TakeBack(r)
                      \/ Promise!TryAgain(r) \/ Promise!Finish(r) \/ Promise!Rest(r)
    BY DEF Promise!Next
  <2>1. RowAllowed(r)
    BY <1>2, EveryRowAllowed
  <2> QED
    BY <2>1 DEF RowAllowed, TriesAt, IsLive, Promise!Enqueue, Promise!Start, Promise!TakeBack,
       Promise!TryAgain, Promise!Finish, Promise!Rest, Promise!Moves
<1>3. Spec => [](TypeOK /\ HeldRuns)
  <2>1. CASE \A v, w \in Workers : v = w
    <3>1. SoleInv => HeldRuns
      BY DEF SoleInv, HeldRuns
    <3>2. Spec => [](TypeOK /\ SoleInv)
      BY <2>1, SoleAlways DEF OneWorker
    <3> QED BY <3>1, <3>2, PTL
  <2>2. CASE InTime /\ MaxFaults = 0
    <3>1. ClaimInv => HeldRuns
      BY DEF ClaimInv, HeldRuns
    <3>2. Spec => [](TypeOK /\ ClaimInv)
      BY <2>2, ClaimAlways
    <3> QED BY <3>1, <3>2, PTL
  <2> QED BY <2>1, <2>2
<1> QED BY <1>1, <1>2, <1>3, PTL DEF Spec, Promise!Safe
=============================================================================
