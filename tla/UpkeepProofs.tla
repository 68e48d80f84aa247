---------------------------- MODULE UpkeepProofs ----------------------------
(***************************************************************************)
(* Proofs about the parts of MCUpkeep: work orders, for any number of      *)
(* orders and request threads; their ledger, for any sequence of requests; *)
(* the rounds of a day, for any number of rooms and housekeepers.  Those of*)
(* the sweep, the plans and the sheet are in SweepProofs.  Last, the parts *)
(* together.                                                               *)
(***************************************************************************)
EXTENDS MCUpkeep, SweepProofs, TableProofs

LEMMA OrdersTypeStep == OrdersTypeOK /\ [OrdersNext]_ordersVars => OrdersTypeOK'
<1> SUFFICES ASSUME OrdersTypeOK, [OrdersNext]_ordersVars PROVE OrdersTypeOK'
  OBVIOUS
<1> USE DEF OrdersTypeOK
<1>1. ASSUME NEW o \in Orders, NEW from \in {"conversation", "other"}, NEW s \in {"open", "assigned"},
             Create(o, from, s)
      PROVE  OrdersTypeOK'
  BY <1>1 DEF Create, Status, Origin
<1>2. ASSUME NEW o \in Orders, FireSchedule(o) PROVE OrdersTypeOK'
  BY <1>2 DEF FireSchedule, Status, Origin, PmStatus
<1>3. ASSUME NEW o \in Orders, ResolvePrompt(o) PROVE OrdersTypeOK'
  <2>1. prompts[o].pending - 1 \in Nat
    BY <1>3 DEF ResolvePrompt
  <2> QED BY <1>3, <2>1 DEF ResolvePrompt
<1>4. ASSUME NEW o \in Orders, BeginRun(o) PROVE OrdersTypeOK'
  BY <1>4 DEF BeginRun, Status, PmStatus
<1>5. ASSUME NEW o \in Orders, NEW raised \in SUBSET Orders, CompleteRun(o, raised) PROVE OrdersTypeOK'
  BY <1>5 DEF CompleteRun, Status, PmStatus
<1>6. ASSUME NEW o \in Orders, NEW result \in {"passed", "failed"}, InspectRun(o, result)
      PROVE  OrdersTypeOK'
  BY <1>6 DEF InspectRun, Status, PmStatus
<1>7. ASSUME NEW t \in Threads, NEW o \in Orders, PatchReads(t, o) PROVE OrdersTypeOK'
  <2>1. [phase |-> "read", order |-> o, status |-> order[o], writes |-> FALSE, adds |-> FALSE] \in Patch
    BY <1>7 DEF PatchReads, Exists, Patch
  <2> QED BY <1>7, <2>1 DEF PatchReads
<1>8. ASSUME NEW t \in Threads, NEW how \in Assigning, NEW to \in Status, PatchFlushes(t, how, to)
      PROVE  OrdersTypeOK'
  <2> DEFINE r == request[t]
             s == AfterAssign(r.status, how)
             new == [r EXCEPT !.phase = "written", !.status = to, !.writes = (s # r.status \/ to # s),
                        !.adds = (to = "complete" /\ s # to /\ origin[r.order] = "conversation"
                                  /\ ~Proposed(r.order))]
  <2>1. r \in Patch
    BY <1>8 DEF PatchFlushes
  <2>2. new \in Patch
    BY <2>1 DEF Patch
  <2>3. request' = [request EXCEPT ![t] = new]
    BY <1>8, <2>1 DEF PatchFlushes, Patch
  <2>4. UNCHANGED <<order, origin, run, prompts>>
    BY <1>8 DEF PatchFlushes
  <2> HIDE DEF new
  <2> QED BY <2>2, <2>3, <2>4
<1>9. ASSUME NEW t \in Threads, PatchCommits(t) PROVE OrdersTypeOK'
  <2>1. request[t] \in Patch
    BY <1>9 DEF PatchCommits
  <2>2. order' \in [Orders -> Status \cup {None}]
    BY <1>9, <2>1 DEF PatchCommits, Patch
  <2>3. prompts' \in [Orders -> [pending : Nat, resolved : BOOLEAN]]
    BY <1>9, <2>1 DEF PatchCommits, Patch
  <2> QED BY <1>9, <2>2, <2>3 DEF PatchCommits
<1>10. ASSUME NEW t \in Threads, PatchFails(t) PROVE OrdersTypeOK'
  BY <1>10 DEF PatchFails
<1>11. CASE UNCHANGED ordersVars
  BY <1>11 DEF ordersVars
<1> QED BY <1>1, <1>2, <1>3, <1>4, <1>5, <1>6, <1>7, <1>8, <1>9, <1>10, <1>11 DEF OrdersNext

\* Every variable has its type, always.
THEOREM OrdersTyped == OrdersSpec => []OrdersTypeOK
<1>1. OrdersInit => OrdersTypeOK
  BY DEF OrdersInit, OrdersTypeOK, Origin, PmStatus
<1> QED BY <1>1, OrdersTypeStep, PTL DEF OrdersSpec

----------------------------------------------------------------------------
\* Only one request at a time has written an order, and one that adds a prompt to it is
\* right that there is none.
Writing(t) == request[t] # None /\ request[t].phase = "written"
LockInv ==
    /\ \A t, x \in Threads : Writing(t) /\ Writing(x) /\ request[t].order = request[x].order => t = x
    /\ \A t \in Threads : Writing(t) /\ request[t].adds => prompts[request[t].order].pending = 0
PromptInv == OnePendingPrompt /\ LockInv

LEMMA PromptStep == OrdersTypeOK /\ PromptInv /\ [OrdersNext]_ordersVars => PromptInv'
<1> SUFFICES ASSUME OrdersTypeOK, PromptInv, [OrdersNext]_ordersVars PROVE PromptInv'
  OBVIOUS
<1>0. /\ \A o \in Orders : prompts[o].pending \in Nat
      /\ \A t \in Threads : request[t] # None => request[t] \in Patch /\ request[t].order \in Orders
      /\ request \in [Threads -> Patch \cup {None}]
      /\ prompts \in [Orders -> [pending : Nat, resolved : BOOLEAN]]
  BY DEF OrdersTypeOK, Patch
<1>1. CASE UNCHANGED <<prompts, request>>
  BY <1>1 DEF PromptInv, OnePendingPrompt, LockInv, Writing
<1>2. ASSUME NEW o \in Orders, ResolvePrompt(o) PROVE PromptInv'
  <2>1. /\ \A x \in Orders : prompts'[x].pending =
                IF x = o THEN prompts[x].pending - 1 ELSE prompts[x].pending
        /\ prompts[o].pending > 0 /\ request' = request
    BY <1>0, <1>2 DEF ResolvePrompt
  <2>2. OnePendingPrompt'
    BY <1>0, <2>1 DEF PromptInv, OnePendingPrompt
  <2>3. LockInv'
    BY <1>0, <2>1 DEF PromptInv, LockInv, Writing
  <2> QED BY <2>2, <2>3 DEF PromptInv
<1>3. ASSUME NEW t \in Threads, NEW o \in Orders, PatchReads(t, o) PROVE PromptInv'
  <2>1. ~Writing(t)' /\ \A x \in Threads \ {t} : request'[x] = request[x]
    BY <1>0, <1>3 DEF PatchReads, Writing
  <2> QED BY <1>3, <2>1 DEF PatchReads, PromptInv, OnePendingPrompt, LockInv, Writing
<1>4. ASSUME NEW t \in Threads, NEW how \in Assigning, NEW to \in Status, PatchFlushes(t, how, to)
      PROVE  PromptInv'
  <2>1. /\ request[t] \in Patch /\ UNCHANGED prompts /\ ~Locked(request[t].order)
        /\ request'[t].order = request[t].order
        /\ request'[t].adds => ~Proposed(request[t].order)
        /\ \A x \in Threads \ {t} : request'[x] = request[x]
    BY <1>0, <1>4 DEF PatchFlushes, Patch
  <2>2. \A x \in Threads \ {t} : Writing(x) => request[x].order # request[t].order
    BY <2>1 DEF Locked, Writing
  <2>3. request[t].order \in Orders
    BY <1>0, <1>4 DEF PatchFlushes
  <2>4. request'[t].adds => prompts[request[t].order].pending = 0
    BY <1>0, <2>1, <2>3 DEF Proposed
  <2>5. OnePendingPrompt'
    BY <2>1 DEF PromptInv, OnePendingPrompt
  <2>6. LockInv'
    BY <2>1, <2>2, <2>4 DEF PromptInv, LockInv, Writing
  <2> QED BY <2>5, <2>6 DEF PromptInv
<1>5. ASSUME NEW t \in Threads, PatchCommits(t) PROVE PromptInv'
  <2> DEFINE r == request[t]
  <2>1. /\ Writing(t) /\ r \in Patch /\ r.order \in Orders
        /\ prompts' = IF r.adds THEN [prompts EXCEPT ![r.order].pending = @ + 1] ELSE prompts
        /\ ~Writing(t)' /\ \A x \in Threads \ {t} : request'[x] = request[x]
    BY <1>0, <1>5 DEF PatchCommits, Writing
  <2>2. \A o \in Orders : prompts'[o].pending =
            IF r.adds /\ o = r.order THEN prompts[o].pending + 1 ELSE prompts[o].pending
    BY <1>0, <2>1
  <2>3. r.adds => prompts[r.order].pending = 0
    BY <2>1 DEF PromptInv, LockInv
  <2>4. OnePendingPrompt'
    BY <1>0, <2>2, <2>3 DEF PromptInv, OnePendingPrompt
  <2>5. \A x \in Threads : Writing(x)' =>
            x # t /\ Writing(x) /\ request'[x] = request[x] /\ request[x].order \in Orders
    BY <1>0, <2>1 DEF Writing
  <2>6. LockInv'
    BY <2>1, <2>2, <2>5 DEF PromptInv, LockInv
  <2> QED BY <2>4, <2>6 DEF PromptInv
<1>6. ASSUME NEW t \in Threads, PatchFails(t) PROVE PromptInv'
  <2>1. ~Writing(t)' /\ \A x \in Threads \ {t} : request'[x] = request[x]
    BY <1>0, <1>6 DEF PatchFails, Writing
  <2> QED BY <1>6, <2>1 DEF PatchFails, PromptInv, OnePendingPrompt, LockInv, Writing
<1> QED BY <1>1, <1>2, <1>3, <1>4, <1>5, <1>6 DEF OrdersNext, ordersVars, Create, FireSchedule,
      BeginRun, CompleteRun, InspectRun

\* However many requests complete an order at once, whatever may overlap them, one
\* prompt of it is pending.
THEOREM OnePrompt == OrdersSpec => []OnePendingPrompt
<1>1. OrdersInit => PromptInv
  BY DEF OrdersInit, PromptInv, OnePendingPrompt, LockInv, Writing
<1>2. PromptInv => OnePendingPrompt
  BY DEF PromptInv
<1> QED BY <1>1, <1>2, OrdersTyped, PromptStep, PTL DEF OrdersSpec

----------------------------------------------------------------------------
\* What a run is begun for exists, and a request that has read the order of a run that
\* was begun has not read it as waiting.
RunInv ==
    /\ RunMovesOrder
    /\ \A o \in Orders : order[o] = None => run[o] = "none"
    /\ \A t \in Threads : request[t] # None /\ run[request[t].order] \notin {"none", "pending"}
                            => request[t].status \notin {"open", "assigned"}

LEMMA NoWayBack ==
    ASSUME NEW s \in Status, s \notin {"open", "assigned"}, NEW how \in Assigning,
           NEW to \in {AfterAssign(s, how)} \cup TRANSITIONS[AfterAssign(s, how)]
    PROVE  to \notin {"open", "assigned"}
<1>1. AfterAssign(s, how) = s
  BY DEF AfterAssign
<1> QED BY <1>1 DEF TRANSITIONS, Status

LEMMA RunStep ==
    ASSUME "run" \notin Overlapping
    PROVE  OrdersTypeOK /\ RunInv /\ [OrdersNext]_ordersVars => RunInv'
<1> SUFFICES ASSUME OrdersTypeOK, RunInv, [OrdersNext]_ordersVars PROVE RunInv'
  OBVIOUS
<1>0. /\ order \in [Orders -> Status \cup {None}] /\ run \in [Orders -> PmStatus]
      /\ request \in [Threads -> Patch \cup {None}] /\ None \notin Status
      /\ \A t \in Threads : request[t] # None =>
            request[t] \in Patch /\ request[t].order \in Orders /\ request[t].status \in Status
  BY OrdersAssumption DEF OrdersTypeOK, Patch
<1>1. CASE UNCHANGED <<order, run, request>>
  BY <1>1 DEF RunInv, RunMovesOrder
<1>2. ASSUME NEW o \in Orders, NEW from, NEW s \in {"open", "assigned"}, Create(o, from, s)
      PROVE  RunInv'
  BY <1>0, <1>2 DEF Create, Exists, RunInv, RunMovesOrder
<1>3. ASSUME NEW o \in Orders, FireSchedule(o) PROVE RunInv'
  <2>1. "open" \in Status
    BY DEF Status
  <2> QED BY <1>0, <1>3, <2>1 DEF FireSchedule, Exists, RunInv, RunMovesOrder
<1>4. ASSUME NEW o \in Orders, BeginRun(o) \/ (\E raised \in SUBSET Orders : CompleteRun(o, raised))
                              \/ (\E result \in {"passed", "failed"} : InspectRun(o, result))
      PROVE  RunInv'
  <2>1. request' = request /\ \A t \in Threads : request[t] # None => request[t].order # o
    BY <1>4 DEF BeginRun, CompleteRun, InspectRun, MayBegin
  <2>2. run[o] \in {"pending", "in_progress", "completed"} /\ run'[o] \in PmStatus
    BY <1>0, <1>4 DEF BeginRun, CompleteRun, InspectRun, PmStatus
  <2>3. /\ \A x \in Orders \ {o} : run'[x] = run[x]
        /\ \A x \in Orders \ {o} : order'[x] = order[x] \/ (order[x] = None /\ order'[x] = "open")
    BY <1>0, <1>4 DEF BeginRun, CompleteRun, InspectRun, Exists
  <2>4. order[o] # None
    BY <2>2 DEF RunInv
  <2>5. /\ order'[o] \notin {"open", "assigned"}
        /\ order'[o] = order[o] \/ order'[o] \in {"in_progress", "complete", "verified"}
    <3>1. CASE BeginRun(o)
      BY <1>0, <3>1 DEF BeginRun
    <3>2. ASSUME NEW raised \in SUBSET Orders, CompleteRun(o, raised)
          PROVE  /\ order'[o] \notin {"open", "assigned"}
                 /\ order'[o] = order[o] \/ order'[o] \in {"in_progress", "complete", "verified"}
      BY <1>0, <2>4, <3>2 DEF CompleteRun, Exists
    <3>3. ASSUME NEW result \in {"passed", "failed"}, InspectRun(o, result)
          PROVE  /\ order'[o] \notin {"open", "assigned"}
                 /\ order'[o] = order[o] \/ order'[o] \in {"in_progress", "complete", "verified"}
      BY <1>0, <2>2, <3>3 DEF InspectRun, RunInv, RunMovesOrder
    <3> QED BY <1>4, <3>1, <3>2, <3>3
  <2>6. \A x \in {"open", "in_progress", "complete", "verified"} : x # None
    BY <1>0 DEF Status
  <2>7. RunMovesOrder'
    BY <2>3, <2>5 DEF RunInv, RunMovesOrder
  <2>8. \A x \in Orders : order'[x] = None => run'[x] = "none"
    BY <2>3, <2>4, <2>5, <2>6 DEF RunInv
  <2> QED BY <1>0, <2>1, <2>3, <2>7, <2>8 DEF RunInv
<1>5. ASSUME NEW t \in Threads, NEW o \in Orders, PatchReads(t, o) PROVE RunInv'
  <2>1. /\ UNCHANGED <<order, run>> /\ request'[t].order = o /\ request'[t].status = order[o]
        /\ \A x \in Threads \ {t} : request'[x] = request[x]
    BY <1>0, <1>5 DEF PatchReads
  <2> QED BY <2>1 DEF RunInv, RunMovesOrder
<1>6. ASSUME NEW t \in Threads, NEW how \in Assigning, NEW to \in Status, PatchFlushes(t, how, to)
      PROVE  RunInv'
  <2>1. /\ UNCHANGED <<order, run>> /\ request[t] # None /\ request'[t].order = request[t].order
        /\ request'[t].status = to
        /\ to \in {AfterAssign(request[t].status, how)} \cup TRANSITIONS[AfterAssign(request[t].status, how)]
        /\ \A x \in Threads \ {t} : request'[x] = request[x]
    BY <1>0, <1>6 DEF PatchFlushes, Patch
  <2>2. request[t].status \in Status
    BY <1>0, <2>1
  <2>3. request[t].status \notin {"open", "assigned"} => to \notin {"open", "assigned"}
    BY <2>1, <2>2, NoWayBack
  <2> QED BY <2>1, <2>3 DEF RunInv, RunMovesOrder
<1>7. ASSUME NEW t \in Threads, PatchCommits(t) PROVE RunInv'
  <2> DEFINE r == request[t]
  <2>1. /\ r # None /\ r.order \in Orders /\ r.status \in Status /\ run' = run
        /\ order' = IF r.writes THEN [order EXCEPT ![r.order] = r.status] ELSE order
        /\ request'[t] = None /\ \A x \in Threads \ {t} : request'[x] = request[x]
    BY <1>0, <1>7 DEF PatchCommits
  <2>2. \A o \in Orders : order'[o] = order[o] \/ (o = r.order /\ order'[o] = r.status)
    BY <1>0, <2>1
  <2> QED BY <1>0, <2>1, <2>2 DEF RunInv, RunMovesOrder
<1>8. ASSUME NEW t \in Threads, PatchFails(t) PROVE RunInv'
  BY <1>0, <1>8 DEF PatchFails, RunInv, RunMovesOrder
<1> QED BY <1>1, <1>2, <1>3, <1>4, <1>5, <1>6, <1>7, <1>8 DEF OrdersNext, ordersVars, ResolvePrompt

\* The order of a run that was begun never waits again, if nothing is done to a run while
\* a request on its own order is under way: however many such requests overlap one another,
\* and whatever is done to other runs meanwhile.
THEOREM RunsMoveOrders ==
    ASSUME "run" \notin Overlapping
    PROVE  OrdersSpec => []RunMovesOrder
<1>1. OrdersInit => RunInv
  BY DEF OrdersInit, RunInv, RunMovesOrder
<1>2. RunInv => RunMovesOrder
  BY DEF RunInv
<1> QED BY <1>1, <1>2, OrdersTyped, RunStep, PTL DEF OrdersSpec

----------------------------------------------------------------------------
\* Runs are of scheduled orders, a request is about an order there is, and one about to
\* complete an order of a conversation has seen a prompt or adds one.
Completing(t) ==
    /\ Writing(t) /\ request[t].writes /\ request[t].status = "complete"
    /\ origin[request[t].order] = "conversation"
ProposeInv ==
    /\ \A o \in Orders : run[o] # "none" => order[o] # None /\ origin[o] = "schedule"
    /\ \A t \in Threads : request[t] # None => order[request[t].order] # None
    /\ \A t \in Threads : Completing(t) =>
          request[t].adds \/ prompts[request[t].order].pending > 0

LEMMA ProposeStep ==
    ASSUME "prompt" \notin Overlapping
    PROVE  OrdersTypeOK /\ ProposeInv /\ [OrdersNext]_ordersVars => ProposeInv'
<1> SUFFICES ASSUME OrdersTypeOK, ProposeInv, [OrdersNext]_ordersVars PROVE ProposeInv'
  OBVIOUS
<1>0. /\ order \in [Orders -> Status \cup {None}] /\ run \in [Orders -> PmStatus]
      /\ origin \in [Orders -> Origin] /\ \A o \in Orders : prompts[o].pending \in Nat
      /\ prompts \in [Orders -> [pending : Nat, resolved : BOOLEAN]]
      /\ request \in [Threads -> Patch \cup {None}] /\ \A x \in Status : x # None
      /\ \A t \in Threads : request[t] # None =>
            request[t] \in Patch /\ request[t].order \in Orders /\ request[t].status \in Status
  BY OrdersAssumption DEF OrdersTypeOK, Patch
<1>1. CASE UNCHANGED ordersVars
  BY <1>1 DEF ordersVars, ProposeInv, Completing, Writing
<1>2. ASSUME NEW o \in Orders, NEW from \in Origin, NEW s \in Status, ~Exists(o),
             order' = [order EXCEPT ![o] = s], origin' = [origin EXCEPT ![o] = from],
             run' = run \/ (from = "schedule" /\ run' = [run EXCEPT ![o] = "pending"]),
             UNCHANGED <<prompts, request>>
      PROVE  ProposeInv'
  <2>1. \A t \in Threads : request[t] # None => request[t].order # o
    BY <1>2 DEF ProposeInv, Exists
  <2>2. \A t \in Threads : Completing(t)' => Completing(t)
    BY <1>0, <1>2, <2>1 DEF Completing, Writing
  <2> QED BY <1>0, <1>2, <2>1, <2>2 DEF ProposeInv, Exists
<1>3. ASSUME NEW o \in Orders, ResolvePrompt(o) PROVE ProposeInv'
  <2>1. /\ UNCHANGED <<order, origin, run, request>>
        /\ \A t \in Threads : request[t] # None => request[t].order # o
        /\ \A x \in Orders \ {o} : prompts'[x] = prompts[x]
    BY <1>0, <1>3 DEF ResolvePrompt, MayBegin
  <2> QED BY <1>0, <2>1 DEF ProposeInv, Completing, Writing
<1>4. ASSUME NEW o \in Orders, BeginRun(o) \/ (\E raised \in SUBSET Orders : CompleteRun(o, raised))
                              \/ (\E result \in {"passed", "failed"} : InspectRun(o, result))
      PROVE  ProposeInv'
  <2>1. /\ UNCHANGED <<origin, prompts, request>> /\ run[o] # "none"
        /\ \A x \in Orders \ {o} : run'[x] = run[x]
    BY <1>0, <1>4 DEF BeginRun, CompleteRun, InspectRun
  <2>2. \A x \in Orders : order[x] # None => order'[x] # None
    BY <1>0, <1>4 DEF BeginRun, CompleteRun, InspectRun, Status
  <2> QED BY <1>0, <2>1, <2>2 DEF ProposeInv, Completing, Writing
<1>5. ASSUME NEW t \in Threads, NEW o \in Orders, PatchReads(t, o) PROVE ProposeInv'
  <2>1. /\ UNCHANGED <<order, origin, run, prompts>> /\ ~Writing(t)' /\ request'[t].order = o
        /\ order[o] # None /\ \A x \in Threads \ {t} : request'[x] = request[x]
    BY <1>0, <1>5 DEF PatchReads, Writing, Exists
  <2> QED BY <2>1 DEF ProposeInv, Completing, Writing
<1>6. ASSUME NEW t \in Threads, NEW how \in Assigning, NEW to \in Status, PatchFlushes(t, how, to)
      PROVE  ProposeInv'
  <2> DEFINE r == request[t]
             s == AfterAssign(r.status, how)
  <2>1. /\ UNCHANGED <<order, origin, run, prompts>> /\ r # None /\ r.order \in Orders
        /\ request'[t].order = r.order /\ request'[t].status = to
        /\ request'[t].writes = (s # r.status \/ to # s)
        /\ request'[t].adds = (to = "complete" /\ s # to /\ origin[r.order] = "conversation"
                               /\ ~Proposed(r.order))
        /\ \A x \in Threads \ {t} : request'[x] = request[x]
    BY <1>0, <1>6 DEF PatchFlushes, Patch
  <2>2. Completing(t)' => request'[t].adds \/ prompts[r.order].pending > 0
    <3>1. to = s /\ to = "complete" => s = r.status
      BY DEF AfterAssign
    <3> QED BY <2>1, <3>1 DEF Completing, Proposed
  <2>3. order[r.order] # None
    BY <2>1 DEF ProposeInv
  <2>4. \A x \in Threads \ {t} : Completing(x)' => Completing(x)
    BY <2>1 DEF Completing, Writing
  <2> HIDE DEF r, s
  <2>5. request'[t].order = request[t].order
    BY <2>1 DEF r
  <2> QED BY <2>1, <2>2, <2>3, <2>4, <2>5 DEF ProposeInv, r
<1>7. ASSUME NEW t \in Threads, PatchCommits(t) PROVE ProposeInv'
  <2> DEFINE r == request[t]
  <2>1. /\ r \in Patch /\ r.order \in Orders /\ r.status \in Status /\ UNCHANGED <<origin, run>>
        /\ prompts' = IF r.adds THEN [prompts EXCEPT ![r.order].pending = @ + 1] ELSE prompts
        /\ order' = IF r.writes THEN [order EXCEPT ![r.order] = r.status] ELSE order
        /\ request'[t] = None /\ \A x \in Threads \ {t} : request'[x] = request[x]
    BY <1>0, <1>7 DEF PatchCommits
  <2>2. \A o \in Orders : prompts[o].pending > 0 => prompts'[o].pending > 0
    BY <1>0, <2>1
  <2>3. \A o \in Orders : order[o] # None => order'[o] # None
    BY <1>0, <2>1
  <2>4. \A x \in Threads : request'[x] # None => x # t /\ request'[x] = request[x]
    BY <2>1
  <2> QED BY <1>0, <2>1, <2>2, <2>3, <2>4 DEF ProposeInv, Completing, Writing
<1>8. ASSUME NEW t \in Threads, PatchFails(t) PROVE ProposeInv'
  BY <1>0, <1>8 DEF PatchFails, ProposeInv, Completing, Writing
<1>9. ASSUME NEW o \in Orders, NEW from \in {"conversation", "other"}, NEW s \in {"open", "assigned"},
             Create(o, from, s)
      PROVE  ProposeInv'
  <2>1. from \in Origin /\ s \in Status
    BY DEF Origin, Status
  <2> QED BY <1>2, <1>9, <2>1 DEF Create
<1>10. ASSUME NEW o \in Orders, FireSchedule(o) PROVE ProposeInv'
  <2>1. "schedule" \in Origin /\ "open" \in Status
    BY DEF Origin, Status
  <2> QED BY <1>2, <1>10, <2>1 DEF FireSchedule
<1> QED BY <1>1, <1>3, <1>4, <1>5, <1>6, <1>7, <1>8, <1>9, <1>10 DEF OrdersNext

\* Completing an order of a conversation leaves a prompt to send, if no prompt of an order
\* is resolved while a request on that order is under way.
THEOREM CompletionsPropose ==
    ASSUME "prompt" \notin Overlapping
    PROVE  OrdersSpec => CompletionProposes
<1> DEFINE Proposes(o) == prompts'[o].pending > 0
<1>1. OrdersInit => ProposeInv
  BY DEF OrdersInit, ProposeInv, Completing, Writing
<1>2. OrdersTypeOK /\ ProposeInv /\ [OrdersNext]_ordersVars =>
        [\A o \in Orders : origin[o] = "conversation" /\ order[o] # "complete" /\ order'[o] = "complete"
            => Proposes(o)]_ordersVars
  <2> SUFFICES ASSUME OrdersTypeOK, ProposeInv, OrdersNext, NEW o \in Orders,
                      origin[o] = "conversation", order[o] # "complete", order'[o] = "complete"
               PROVE  Proposes(o)
    OBVIOUS
  <2>1. run[o] = "none" /\ order \in [Orders -> Status \cup {None}]
    BY DEF ProposeInv, OrdersTypeOK
  <2>2. PICK t \in Threads : PatchCommits(t)
    BY <2>1 DEF OrdersNext, Create, FireSchedule, ResolvePrompt, BeginRun, CompleteRun, InspectRun,
          PatchReads, PatchFlushes, PatchFails
  <2>3. request[t] \in Patch /\ request[t] # None /\ request[t].order = o /\ Completing(t)
    BY <2>1, <2>2 DEF PatchCommits, OrdersTypeOK, Completing, Writing
  <2>4. request[t].adds \/ prompts[o].pending > 0
    BY <2>3 DEF ProposeInv
  <2>5. prompts \in [Orders -> [pending : Nat, resolved : BOOLEAN]] /\ prompts[o].pending \in Nat
    BY DEF OrdersTypeOK
  <2>6. prompts'[o].pending = IF request[t].adds THEN prompts[o].pending + 1 ELSE prompts[o].pending
    BY <2>2, <2>3, <2>5 DEF PatchCommits
  <2> QED BY <2>4, <2>5, <2>6
<1> QED BY <1>1, <1>2, OrdersTyped, ProposeStep, PTL DEF OrdersSpec, CompletionProposes

----------------------------------------------------------------------------
\* OrderLedger.

\* The first and the last of the lines of a timeline that a set of indices names.
LEMMA FirstAndLastIndex ==
    ASSUME NEW n \in Nat, NEW T \in SUBSET (1 .. n), T # {}
    PROVE  /\ Min(T) \in T /\ \A k \in T : Min(T) <= k
           /\ Max(T) \in T /\ \A k \in T : Max(T) >= k
<1>1. T \in SUBSET Nat
  OBVIOUS
<1>2. \E m \in T : \A k \in T : m <= k
  BY <1>1, LeastNumber
<1>3. \E m \in T : \A k \in T : m >= k
  <2> DEFINE D == {n - k : k \in T}
  <2>0. \A k \in T : n - k \in Nat
    OBVIOUS
  <2>1. D \in SUBSET Nat /\ D # {}
    BY <2>0
  <2>2. PICK d \in D : \A e \in D : d <= e
    BY <2>1, LeastNumber
  <2>3. PICK m \in T : d = n - m
    OBVIOUS
  <2>4. \A k \in T : n - m <= n - k
    BY <2>2, <2>3
  <2>5. \A k \in T : k \in Nat /\ m \in Nat
    BY <1>1
  <2> QED BY <2>4, <2>5
<1> QED BY <1>2, <1>3 DEF Min, Max

\* An index that is below, or above, all of them is the first, or the last.
LEMMA FirstIndexIs ==
    ASSUME NEW n \in Nat, NEW T \in SUBSET (1 .. n), NEW m \in T
    PROVE  /\ (\A k \in T : m <= k) => Min(T) = m
           /\ (\A k \in T : m >= k) => Max(T) = m
<1>1. \A k \in T : k \in Nat
  OBVIOUS
<1>2. /\ Min(T) \in T /\ \A k \in T : Min(T) <= k
      /\ Max(T) \in T /\ \A k \in T : Max(T) >= k
  BY FirstAndLastIndex
<1>3. Min(T) \in Nat /\ Max(T) \in Nat /\ m \in Nat
  BY <1>1, <1>2
<1>4. Min(T) <= m /\ m <= Max(T)
  BY <1>2, <1>3
<1>5. ASSUME \A k \in T : m <= k PROVE Min(T) = m
  <2>1. m <= Min(T)
    BY <1>2, <1>5
  <2> QED BY <1>3, <1>4, <2>1
<1>6. ASSUME \A k \in T : m >= k PROVE Max(T) = m
  <2>1. m >= Max(T)
    BY <1>2, <1>6
  <2> QED BY <1>3, <1>4, <2>1
<1> QED BY <1>5, <1>6

\* A timeline that goes on.
LEMMA LinesJoined ==
    ASSUME NEW ln \in Seq(Line), NEW new \in Seq(Line)
    PROVE  /\ ln \o new \in Seq(Line)
           /\ Len(ln) \in Nat /\ Len(new) \in Nat
           /\ Len(ln \o new) = Len(ln) + Len(new)
           /\ DOMAIN (ln \o new) = 1 .. Len(ln) + Len(new)
           /\ DOMAIN ln = 1 .. Len(ln)
           /\ \A i \in 1 .. Len(ln) : (ln \o new)[i] = ln[i]
           /\ \A i \in 1 .. Len(new) : (ln \o new)[Len(ln) + i] = new[i]
           /\ \A i \in Len(ln) + 1 .. Len(ln) + Len(new) :
                (ln \o new)[i] = new[i - Len(ln)]
OBVIOUS

\* Lines that move the order to no status s leave the first and last that did.
LEMMA NoSuchMove ==
    ASSUME NEW ln \in Seq(Line), NEW new \in Seq(Line), NEW s,
           \A i \in 1 .. Len(new) : ~(new[i].type = "status_changed" /\ new[i].to = s)
    PROVE  /\ FirstTo(ln \o new, s) = FirstTo(ln, s)
           /\ LastTo(ln \o new, s) = LastTo(ln, s)
<1> DEFINE both == ln \o new
<1>0. /\ Len(ln) \in Nat /\ Len(new) \in Nat
      /\ DOMAIN both = 1 .. Len(ln) + Len(new) /\ DOMAIN ln = 1 .. Len(ln)
      /\ \A i \in 1 .. Len(ln) : both[i] = ln[i]
      /\ \A i \in Len(ln) + 1 .. Len(ln) + Len(new) : both[i] = new[i - Len(ln)]
  BY LinesJoined
<1> HIDE DEF both
<1>1. \A i \in Len(ln) + 1 .. Len(ln) + Len(new) : i - Len(ln) \in 1 .. Len(new)
  BY <1>0
<1>2. MovesTo(both, s) = MovesTo(ln, s)
  <2>1. ASSUME NEW i \in MovesTo(both, s) PROVE i \in MovesTo(ln, s)
    <3>1. CASE i \in 1 .. Len(ln)
      BY <1>0, <3>1 DEF MovesTo
    <3>2. CASE i \in Len(ln) + 1 .. Len(ln) + Len(new)
      BY <1>0, <1>1, <3>2 DEF MovesTo
    <3> QED BY <1>0, <3>1, <3>2 DEF MovesTo
  <2>2. ASSUME NEW i \in MovesTo(ln, s) PROVE i \in MovesTo(both, s)
    BY <1>0 DEF MovesTo
  <2> QED BY <2>1, <2>2
<1>3. CASE MovesTo(ln, s) = {}
  BY <1>2, <1>3 DEF FirstTo, LastTo, both
<1>4. CASE MovesTo(ln, s) # {}
  <2>1. MovesTo(ln, s) \in SUBSET (1 .. Len(ln))
    BY <1>0 DEF MovesTo
  <2>2. Min(MovesTo(ln, s)) \in 1 .. Len(ln) /\ Max(MovesTo(ln, s)) \in 1 .. Len(ln)
    BY <1>0, <1>4, <2>1, FirstAndLastIndex
  <2> QED BY <1>0, <1>2, <1>4, <2>2 DEF FirstTo, LastTo, both
<1> QED BY <1>3, <1>4

\* One that does, at the end, is the last of them, and the first where there was none.
LEMMA OneSuchMove ==
    ASSUME NEW ln \in Seq(Line), NEW new \in Seq(Line), NEW s, Len(new) >= 1,
           new[Len(new)].type = "status_changed", new[Len(new)].to = s,
           \A i \in 1 .. Len(new) - 1 : new[i].type # "status_changed"
    PROVE  /\ LastTo(ln \o new, s) = new[Len(new)].at
           /\ FirstTo(ln \o new, s) = IF MovesTo(ln, s) = {} THEN new[Len(new)].at
                                        ELSE FirstTo(ln, s)
<1> DEFINE both == ln \o new
           n == Len(ln) + Len(new)
<1>0. /\ Len(ln) \in Nat /\ Len(new) \in Nat /\ n \in Nat
      /\ DOMAIN both = 1 .. n /\ DOMAIN ln = 1 .. Len(ln)
      /\ \A i \in 1 .. Len(ln) : both[i] = ln[i]
      /\ \A i \in Len(ln) + 1 .. n : both[i] = new[i - Len(ln)]
  BY LinesJoined
<1> HIDE DEF both, n
<1>1. /\ n \in Len(ln) + 1 .. n /\ n - Len(ln) = Len(new)
      /\ \A i \in Len(ln) + 1 .. n - 1 : i - Len(ln) \in 1 .. Len(new) - 1
  BY <1>0 DEF n
<1>2. MovesTo(both, s) = MovesTo(ln, s) \cup {n}
  <2>1. ASSUME NEW i \in MovesTo(both, s) PROVE i \in MovesTo(ln, s) \cup {n}
    <3>1. CASE i \in 1 .. Len(ln)
      BY <1>0, <3>1 DEF MovesTo
    <3>2. CASE i \in Len(ln) + 1 .. n - 1
      BY <1>0, <1>1, <3>2 DEF MovesTo
    <3>3. i \in 1 .. n
      BY <1>0 DEF MovesTo
    <3>4. i \in 1 .. Len(ln) \/ i \in Len(ln) + 1 .. n - 1 \/ i = n
      BY <1>0, <3>3
    <3> QED BY <3>1, <3>2, <3>4
  <2>2. ASSUME NEW i \in MovesTo(ln, s) PROVE i \in MovesTo(both, s)
    <3>1. i \in 1 .. Len(ln) /\ i \in 1 .. n
      BY <1>0, <1>1 DEF MovesTo
    <3> QED BY <1>0, <3>1 DEF MovesTo
  <2>3. both[n] = new[Len(new)]
    BY <1>0, <1>1
  <2>4. n \in MovesTo(both, s)
    BY <1>0, <1>1, <2>3 DEF MovesTo
  <2> QED BY <2>1, <2>2, <2>4
<1>3. both[n] = new[Len(new)]
  BY <1>0, <1>1
<1>4. MovesTo(ln, s) \in SUBSET (1 .. Len(ln)) /\ MovesTo(both, s) \in SUBSET (1 .. n)
  BY <1>0 DEF MovesTo
<1>5. \A k \in MovesTo(ln, s) : k \in Nat /\ k < n
  BY <1>0, <1>1, <1>4
<1>6. n \in MovesTo(both, s) /\ \A k \in MovesTo(both, s) : n >= k
  BY <1>0, <1>2, <1>5
<1>7. Max(MovesTo(both, s)) = n
  BY <1>0, <1>4, <1>6, FirstIndexIs
<1>8. LastTo(both, s) = new[Len(new)].at
  BY <1>3, <1>6, <1>7 DEF LastTo
<1>9. CASE MovesTo(ln, s) = {}
  <2>1. \A k \in MovesTo(both, s) : n <= k
    BY <1>0, <1>2, <1>9
  <2>2. Min(MovesTo(both, s)) = n
    BY <1>0, <1>4, <1>6, <2>1, FirstIndexIs
  <2> QED BY <1>3, <1>6, <1>8, <1>9, <2>2 DEF FirstTo, both
<1>10. CASE MovesTo(ln, s) # {}
  <2> DEFINE m == Min(MovesTo(ln, s))
  <2>1. m \in MovesTo(ln, s) /\ \A k \in MovesTo(ln, s) : m <= k
    BY <1>0, <1>4, <1>10, FirstAndLastIndex
  <2> HIDE DEF m
  <2>2. m \in MovesTo(both, s) /\ \A k \in MovesTo(both, s) : m <= k
    BY <1>0, <1>2, <1>5, <2>1
  <2>3. Min(MovesTo(both, s)) = m
    BY <1>0, <1>4, <2>2, FirstIndexIs
  <2>4. both[m] = ln[m]
    BY <1>0, <1>4, <2>1
  <2> QED BY <1>8, <1>10, <2>2, <2>3, <2>4 DEF FirstTo, both, m
<1> QED BY <1>9, <1>10

\* A first move has a day.
LEMMA FirstIsNone ==
    ASSUME NEW ln \in Seq(Line), NEW s
    PROVE  FirstTo(ln, s) = None <=> MovesTo(ln, s) = {}
<1>1. CASE MovesTo(ln, s) # {}
  <2>1. MovesTo(ln, s) \in SUBSET (1 .. Len(ln)) /\ Len(ln) \in Nat
    BY DEF MovesTo
  <2>2. Min(MovesTo(ln, s)) \in 1 .. Len(ln)
    BY <1>1, <2>1, FirstAndLastIndex
  <2>3. ln[Min(MovesTo(ln, s))] \in Line
    BY <2>2
  <2>4. ln[Min(MovesTo(ln, s))].at \in Nat
    BY <2>3, LedgerAssumption DEF Line, Days
  <2>5. None \notin Nat
    BY LedgerAssumption
  <2> QED BY <1>1, <2>4, <2>5 DEF FirstTo
<1> QED BY <1>1 DEF FirstTo

----------------------------------------------------------------------------
\* What a PATCH does to one order.

\* What the row and the timeline of one order have to do with one another.
RowAgrees(w, ln) ==
    /\ w.started = FirstTo(ln, "in_progress")
    /\ w.completed = LastTo(ln, "complete")
    /\ w.verified = LastTo(ln, "verified")
    /\ w.assignee # None => AckedByAssignee(w, ln)

LedgerInv ==
    /\ LedgerTypeOK
    /\ \A o \in Tickets : ticket[o] # None => RowAgrees(ticket[o], timeline[o])

\* _event (work_orders.py:97-101).
LEMMA EventIsLine ==
    ASSUME LedgerTypeOK, NEW type \in {"created", "status_changed", "assigned", "commented",
                                       "priority_changed", "photo_attached"},
           NEW by \in Crew, NEW from \in Progress \cup Crew \cup {None},
           NEW to \in Progress \cup Crew \cup {None}
    PROVE  /\ Event(type, by, from, to) \in Line
           /\ Event(type, by, from, to).type = type /\ Event(type, by, from, to).by = by
           /\ Event(type, by, from, to).from = from /\ Event(type, by, from, to).to = to
           /\ Event(type, by, from, to).at = today
BY DEF LedgerTypeOK, Event, Line

\* assign (work_orders.py:209-234): who has the order afterwards, and that a new assignee has
\* acknowledged nothing.
LEMMA AssignedIs ==
    ASSUME NEW w \in TicketRow, NEW ask \in Ask
    PROVE  LET g == Assigned(w, ask) IN
           /\ g \in TicketRow
           /\ g.started = w.started /\ g.completed = w.completed /\ g.verified = w.verified
           /\ g.assignee # None =>
                \/ g.assignee = w.assignee /\ g.acked = w.acked
                \/ g.acked = None
<1> USE LedgerAssumption
<1>1. Assigned(w, ask) \in TicketRow
  <2> DEFINE a == IF ask.user # None THEN ask.user ELSE IF ask.clear THEN None ELSE w.assignee
             k == IF ask.trade # None THEN ask.trade ELSE w.trade
             c == IF ask.user # None THEN None ELSE w.acked
             s == CASE ask.user # None /\ w.status = "open" -> "assigned"
                    [] ask.user = None /\ ask.clear /\ w.status = "assigned" -> "open"
                    [] OTHER -> w.status
  <2>1. a \in Crew \cup {None} /\ k \in Trades \cup {None} /\ c \in Days \cup {None}
    BY DEF TicketRow, Ask
  <2>2. s \in Progress
    BY DEF TicketRow, Progress
  <2>3. Assigned(w, ask) = [w EXCEPT !.assignee = a, !.trade = k, !.acked = c, !.status = s]
    BY DEF Assigned, TicketRow
  <2> HIDE DEF a, k, c, s
  <2> QED BY <2>1, <2>2, <2>3 DEF TicketRow
<1>2. /\ Assigned(w, ask).started = w.started
      /\ Assigned(w, ask).completed = w.completed
      /\ Assigned(w, ask).verified = w.verified
  BY DEF Assigned, TicketRow
<1>3. /\ Assigned(w, ask).assignee =
           IF ask.user # None THEN ask.user ELSE IF ask.clear THEN None ELSE w.assignee
      /\ Assigned(w, ask).acked = IF ask.user # None THEN None ELSE w.acked
  BY DEF Assigned, TicketRow
<1> QED BY <1>1, <1>2, <1>3

\* transition (work_orders.py:181-206).
LEMMA ProgressedIs ==
    ASSUME LedgerTypeOK, NEW w \in TicketRow, NEW by \in Crew, NEW to \in Progress
    PROVE  LET p == Progressed(w, by, to) IN
           /\ p \in TicketRow
           /\ p.started = IF to = "in_progress" /\ w.started = None THEN today ELSE w.started
           /\ p.completed = IF to = "complete" THEN today ELSE w.completed
           /\ p.verified = IF to = "verified" THEN today ELSE w.verified
           /\ p.assignee = w.assignee
           /\ p.acked = IF w.assignee = by /\ w.acked = None THEN today ELSE w.acked
<1>1. today \in Days
  BY DEF LedgerTypeOK
<1>2. Progressed(w, by, to) \in TicketRow
  <2> DEFINE s == IF to = "in_progress" /\ w.started = None THEN today ELSE w.started
             c == IF to = "complete" THEN today ELSE w.completed
             v == IF to = "verified" THEN today ELSE w.verified
             a == IF w.assignee = by /\ w.acked = None THEN today ELSE w.acked
  <2>1. /\ s \in Days \cup {None} /\ c \in Days \cup {None}
        /\ v \in Days \cup {None} /\ a \in Days \cup {None}
    BY <1>1 DEF TicketRow
  <2>2. Progressed(w, by, to) =
          [w EXCEPT !.status = to, !.started = s, !.completed = c, !.verified = v, !.acked = a]
    BY DEF Progressed, TicketRow
  <2> HIDE DEF s, c, v, a
  <2> QED BY <2>1, <2>2 DEF TicketRow
<1> QED BY <1>2 DEF Progressed, TicketRow

\* The acknowledgement after lines that move nobody's order and give the order, if they do, to
\* who has it already.
LEMMA AckStays ==
    ASSUME NEW w, NEW v, NEW ln \in Seq(Line), NEW new \in Seq(Line), w.assignee # None,
           v.assignee = w.assignee, v.acked = w.acked, AckedByAssignee(w, ln),
           \A i \in 1 .. Len(new) : new[i].type = "assigned" => new[i].from = new[i].to,
           \A i \in 1 .. Len(new) : new[i].type = "status_changed" =>
               w.acked # None \/ new[i].by # w.assignee
    PROVE  AckedByAssignee(v, ln \o new)
<1> DEFINE both == ln \o new
           n == Len(ln) + Len(new)
<1>0. /\ Len(ln) \in Nat /\ Len(new) \in Nat /\ n \in Nat
      /\ DOMAIN both = 1 .. n /\ DOMAIN ln = 1 .. Len(ln)
      /\ \A i \in 1 .. Len(ln) : both[i] = ln[i]
      /\ \A i \in Len(ln) + 1 .. n : both[i] = new[i - Len(ln)]
  BY LinesJoined
<1>00. \A i \in 1 .. n : \/ i \in 1 .. Len(ln)
                         \/ i \in Len(ln) + 1 .. n /\ i - Len(ln) \in 1 .. Len(new)
  BY <1>0
<1>01. \A i \in 1 .. Len(ln) : i \in 1 .. n
  BY <1>0
<1> HIDE DEF both, n
<1>1. CASE w.acked = None
  <2>1. ASSUME NEW i \in 1 .. n, both[i].type = "status_changed", both[i].by = w.assignee
        PROVE  \E j \in 1 .. n : both[j].type = "assigned" /\ j > i
    <3>1. i \in 1 .. Len(ln)
      BY <1>0, <1>00, <1>1, <2>1
    <3>2. PICK j \in 1 .. Len(ln) : ln[j].type = "assigned" /\ j > i
      BY <1>0, <1>1, <2>1, <3>1 DEF AckedByAssignee
    <3> QED BY <1>0, <1>01, <3>2
  <2> QED BY <1>0, <1>1, <2>1 DEF AckedByAssignee, both
<1>2. CASE w.acked # None
  <2>1. PICK i \in 1 .. Len(ln) :
            /\ ln[i].type = "status_changed" /\ ln[i].by = w.assignee
            /\ ln[i].at = w.acked
            /\ \A j \in 1 .. Len(ln) :
                 ln[j].type = "assigned" => (j > i => ln[j].from = ln[j].to)
    BY <1>0, <1>2 DEF AckedByAssignee
  <2>2. ASSUME NEW j \in 1 .. n, both[j].type = "assigned", j > i
        PROVE  both[j].from = both[j].to
    BY <1>0, <1>00, <2>1, <2>2
  <2>3. /\ i \in 1 .. n /\ both[i].type = "status_changed" /\ both[i].by = w.assignee
        /\ both[i].at = w.acked
    BY <1>0, <1>01, <2>1
  <2> QED BY <1>0, <1>2, <2>2, <2>3 DEF AckedByAssignee, both
<1> QED BY <1>1, <1>2

\* The lines a PATCH adds: of an assignment the first, of a transition the last
\* (work_orders.py:196-197, 231-232; api/work_orders.py:111-131).
Adds(a, c, x, y, z, new) ==
    /\ new \in Seq(Line)
    /\ c = <<z>> => Len(new) >= 1 /\ new[Len(new)] = z
    /\ \A i \in 1 .. Len(new) :
         \/ a = <<x>> /\ i = 1 /\ new[i] = x
         \/ new[i] = y
         \/ c = <<z>> /\ i = Len(new) /\ new[i] = z
    /\ a = <<x>> => /\ Len(new) >= 1 /\ new[1] = x
                    /\ c = <<z>> => Len(new) > 1

LEMMA LinesAdded ==
    ASSUME NEW a, NEW b, NEW c, NEW x \in Line, NEW y \in Line, NEW z \in Line,
           a = <<>> \/ a = <<x>>, b = <<>> \/ b = <<y>>, c = <<>> \/ c = <<z>>,
           NEW new, new = a \o b \o c
    PROVE  Adds(a, c, x, y, z, new)
<1>0. ASSUME NEW s, NEW e \in Line, s = <<>> \/ s = <<e>>
      PROVE  /\ s \in Seq(Line) /\ Len(s) \in {0, 1}
             /\ s = <<e>> => Len(s) = 1
             /\ Len(s) = 1 => s = <<e>> /\ s[1] = e
  <2>1. <<>> \in Seq(Line) /\ <<e>> \in Seq(Line) /\ Len(<<>>) = 0 /\ Len(<<e>>) = 1 /\ <<e>>[1] = e
    OBVIOUS
  <2>2. CASE s = <<>>
    BY <2>1, <2>2
  <2>3. CASE s = <<e>>
    BY <2>1, <2>3
  <2> QED BY <1>0, <2>2, <2>3
<1>2. /\ a \in Seq(Line) /\ b \in Seq(Line) /\ c \in Seq(Line)
      /\ Len(a) \in {0, 1} /\ Len(b) \in {0, 1} /\ Len(c) \in {0, 1}
      /\ (a = <<x>> <=> Len(a) = 1) /\ (c = <<z>> <=> Len(c) = 1)
      /\ Len(a) = 1 => a[1] = x
      /\ Len(b) = 1 => b[1] = y
      /\ Len(c) = 1 => c[1] = z
  BY <1>0
<1>3. /\ new \in Seq(Line)
      /\ Len(new) = Len(a) + Len(b) + Len(c)
      /\ \A i \in 1 .. Len(new) :
           /\ i <= Len(a) => new[i] = a[i]
           /\ i > Len(a) /\ i <= Len(a) + Len(b) => new[i] = b[i - Len(a)]
           /\ i > Len(a) + Len(b) => new[i] = c[i - Len(a) - Len(b)]
  <2>1. a \in Seq(Line) /\ b \in Seq(Line) /\ c \in Seq(Line)
    BY <1>2
  <2> QED BY <2>1
<1> DEFINE k == Len(a)
           m == Len(b)
           n == Len(c)
<1> HIDE DEF k, m, n
<1>30. k \in {0, 1} /\ m \in {0, 1} /\ n \in {0, 1} /\ Len(new) = k + m + n
  BY <1>2, <1>3 DEF k, m, n
<1>4. ASSUME NEW i \in 1 .. Len(new)
      PROVE  \/ a = <<x>> /\ i = 1 /\ new[i] = x
             \/ new[i] = y
             \/ c = <<z>> /\ i = Len(new) /\ new[i] = z
  <2>0. i \in Nat /\ i >= 1 /\ i <= k + m + n
    BY <1>30
  <2>1. CASE i <= k
    <3>1. i = 1 /\ k = 1
      BY <1>30, <2>0, <2>1
    <3> QED BY <1>2, <1>3, <2>1, <3>1 DEF k
  <2>2. CASE i > k /\ i <= k + m
    <3>1. i - k = 1 /\ m = 1
      BY <1>30, <2>0, <2>2
    <3> QED BY <1>2, <1>3, <2>2, <3>1 DEF k, m
  <2>3. CASE i > k + m
    <3>1. n = 1 /\ i - k - m = 1 /\ i = Len(new)
      BY <1>30, <2>0, <2>3
    <3>2. new[i] = c[1]
      BY <1>3, <2>3, <3>1 DEF k, m
    <3> QED BY <1>2, <3>1, <3>2 DEF n
  <2> QED BY <1>30, <2>0, <2>1, <2>2, <2>3
<1>5. ASSUME c = <<z>> PROVE Len(new) >= 1 /\ new[Len(new)] = z
  <2>0. n = 1
    BY <1>2, <1>5 DEF n
  <2>1. /\ Len(new) >= 1 /\ Len(new) \in 1 .. Len(new) /\ Len(new) > k + m
        /\ Len(new) - k - m = 1
    BY <1>30, <2>0
  <2>2. new[Len(new)] = c[1]
    BY <1>3, <2>1 DEF k, m
  <2> QED BY <1>2, <2>0, <2>1, <2>2 DEF n
<1>6. ASSUME a = <<x>> PROVE Len(new) >= 1 /\ new[1] = x /\ (c = <<z>> => Len(new) > 1)
  <2>0. k = 1 /\ (c = <<z>> => n = 1)
    BY <1>2, <1>6 DEF k, n
  <2>1. 1 \in 1 .. Len(new) /\ 1 <= k /\ Len(new) >= 1 /\ (n = 1 => Len(new) > 1)
    BY <1>30, <2>0
  <2> QED BY <1>2, <1>3, <2>0, <2>1 DEF k
<1> QED BY <1>3, <1>4, <1>5, <1>6 DEF Adds

\* A day is no NULL.
LEMMA TodayIsSome == LedgerInv => today # None
BY LedgerAssumption DEF LedgerInv, LedgerTypeOK, Days

\* Somebody was given the order and has not moved it since.
LEMMA AckAwaits ==
    ASSUME NEW v, NEW ln \in Seq(Line), NEW new \in Seq(Line), v.acked = None,
           Len(new) >= 1, new[1].type = "assigned",
           \A i \in 1 .. Len(new) : new[i].type = "status_changed" => new[i].by # v.assignee
    PROVE  AckedByAssignee(v, ln \o new)
<1> DEFINE both == ln \o new
           n == Len(ln) + Len(new)
           j == Len(ln) + 1
<1>0. /\ Len(ln) \in Nat /\ Len(new) \in Nat /\ n \in Nat
      /\ DOMAIN both = 1 .. n
      /\ \A i \in Len(ln) + 1 .. n : both[i] = new[i - Len(ln)]
  BY LinesJoined
<1> HIDE DEF both
<1>1. j \in 1 .. n /\ j \in Len(ln) + 1 .. n /\ j - Len(ln) = 1
  BY <1>0
<1>2. both[j].type = "assigned"
  BY <1>0, <1>1
<1>3. ASSUME NEW i \in 1 .. n, both[i].type = "status_changed", both[i].by = v.assignee
      PROVE  j > i
  <2>1. CASE i \in 1 .. Len(ln)
    BY <1>0, <2>1
  <2>2. CASE i \in Len(ln) + 1 .. n
    <3>1. i - Len(ln) \in 1 .. Len(new)
      BY <1>0, <2>2
    <3> QED BY <1>0, <1>3, <2>2, <3>1
  <2> QED BY <1>0, <2>1, <2>2
<1> HIDE DEF j, n
<1> QED BY <1>0, <1>1, <1>2, <1>3 DEF AckedByAssignee, both

\* Who has the order has just moved it, and it has not been given to anybody since.
LEMMA AckGiven ==
    ASSUME NEW v, NEW ln \in Seq(Line), NEW new \in Seq(Line), v.acked # None,
           Len(new) >= 1, new[Len(new)].type = "status_changed",
           new[Len(new)].by = v.assignee, new[Len(new)].at = v.acked
    PROVE  AckedByAssignee(v, ln \o new)
<1> DEFINE both == ln \o new
           n == Len(ln) + Len(new)
<1>0. /\ Len(ln) \in Nat /\ Len(new) \in Nat /\ n \in Nat
      /\ DOMAIN both = 1 .. n
      /\ \A i \in Len(ln) + 1 .. n : both[i] = new[i - Len(ln)]
  BY LinesJoined
<1> HIDE DEF both
<1>1. n \in 1 .. n /\ n \in Len(ln) + 1 .. n /\ n - Len(ln) = Len(new)
  BY <1>0
<1>2. both[n] = new[Len(new)]
  BY <1>0, <1>1
<1>3. \A j \in 1 .. n : ~(j > n)
  BY <1>0
<1> HIDE DEF n
<1> QED BY <1>0, <1>1, <1>2, <1>3 DEF AckedByAssignee, both

LEMMA PatchKeeps ==
    ASSUME LedgerInv, NEW o \in Tickets, NEW by \in Crew, NEW ask \in Asks,
           PatchTicket(o, by, ask)
    PROVE  LedgerInv'
<1> USE DEF LedgerInv
<1> DEFINE w == ticket[o]
           ln == timeline[o]
           held == IF Assigns(ask) THEN Assigned(w, ask) ELSE w
           moved == IF ask.status # None THEN Progressed(held, by, ask.status) ELSE held
           x == Event("assigned", by, w.assignee, held.assignee)
           y == Event("priority_changed", by, None, None)
           z == IF ask.status # None THEN Event("status_changed", by, held.status, ask.status)
                ELSE Event("commented", by, None, None)
           a == IF Assigns(ask) THEN <<x>> ELSE <<>>
           b == IF ask.priority THEN <<y>> ELSE <<>>
           c == IF ask.status # None THEN <<z>> ELSE IF ask.comment THEN <<z>> ELSE <<>>
           new == a \o b \o c
<1>1. /\ w # None
      /\ ticket' = [ticket EXCEPT ![o] = moved]
      /\ timeline' = [timeline EXCEPT ![o] = ln \o new]
      /\ today' = today
  BY DEF PatchTicket
<1>2. ask \in Ask /\ w \in TicketRow /\ ln \in Seq(Line) /\ RowAgrees(w, ln)
  BY <1>1, LedgerAssumption DEF LedgerTypeOK
<1>3. /\ held \in TicketRow
      /\ held.started = w.started /\ held.completed = w.completed
      /\ held.verified = w.verified
      /\ held.assignee # None =>
           \/ held.assignee = w.assignee /\ held.acked = w.acked
           \/ Assigns(ask) /\ held.acked = None
  BY <1>2, AssignedIs
<1>4. ask.status \in Progress \cup {None}
  BY <1>2 DEF Ask
<1>5. ask.status # None =>
      /\ moved \in TicketRow
      /\ moved.started = IF ask.status = "in_progress" /\ held.started = None
                         THEN today ELSE held.started
      /\ moved.completed = IF ask.status = "complete" THEN today ELSE held.completed
      /\ moved.verified = IF ask.status = "verified" THEN today ELSE held.verified
      /\ moved.assignee = held.assignee
      /\ moved.acked = IF held.assignee = by /\ held.acked = None THEN today ELSE held.acked
  <2> HIDE DEF held
  <2> QED BY <1>3, <1>4, ProgressedIs
<1>6. ask.status = None => moved = held
  OBVIOUS
<1>7. held.status \in Progress /\ held.assignee \in Crew \cup {None}
      /\ w.assignee \in Crew \cup {None}
  BY <1>2, <1>3 DEF TicketRow
<1> HIDE DEF held, moved
<1>8. /\ x \in Line /\ x.type = "assigned" /\ x.from = w.assignee /\ x.to = held.assignee
      /\ y \in Line /\ y.type = "priority_changed"
      /\ z \in Line /\ z.by = by /\ z.at = today
      /\ z.type = IF ask.status # None THEN "status_changed" ELSE "commented"
      /\ ask.status # None => z.to = ask.status
  <2>1. LedgerTypeOK /\ None \in Progress \cup Crew \cup {None}
    OBVIOUS
  <2>2. x \in Line /\ x.type = "assigned" /\ x.from = w.assignee /\ x.to = held.assignee
    BY <1>7, <2>1, EventIsLine
  <2>3. y \in Line /\ y.type = "priority_changed"
    BY <2>1, EventIsLine
  <2>4. CASE ask.status # None
    <3>1. z = Event("status_changed", by, held.status, ask.status)
      BY <2>4
    <3>2. /\ held.status \in Progress \cup Crew \cup {None}
          /\ ask.status \in Progress \cup Crew \cup {None}
      BY <1>4, <1>7
    <3> HIDE DEF z
    <3>3. /\ z.type = "status_changed" /\ z.by = by /\ z.to = ask.status
          /\ z.at = today
      BY <3>1 DEF Event
    <3>4. today \in Days
      BY DEF LedgerTypeOK
    <3>5. z \in Line
      BY <3>1, <3>2, <3>4 DEF Event, Line
    <3> QED BY <2>2, <2>3, <2>4, <3>3, <3>5
  <2>5. CASE ask.status = None
    <3>1. z = Event("commented", by, None, None)
      BY <2>5
    <3> HIDE DEF z
    <3>2. z \in Line /\ z.type = "commented" /\ z.by = by /\ z.at = today
      BY <2>1, <3>1, EventIsLine
    <3> QED BY <2>2, <2>3, <2>5, <3>2
  <2> QED BY <2>4, <2>5
<1> HIDE DEF x, y, z
<1>9. (a = <<>> \/ a = <<x>>) /\ (b = <<>> \/ b = <<y>>) /\ (c = <<>> \/ c = <<z>>)
  OBVIOUS
<1>10. (a = <<x>> <=> Assigns(ask)) /\ (ask.status # None => c = <<z>>)
  OBVIOUS
<1> HIDE DEF a, b, c
<1>11. /\ new \in Seq(Line)
       /\ ask.status # None => Len(new) >= 1 /\ new[Len(new)] = z
       /\ \A i \in 1 .. Len(new) :
            \/ Assigns(ask) /\ i = 1 /\ new[i] = x
            \/ new[i] = y
            \/ c = <<z>> /\ i = Len(new) /\ new[i] = z
       /\ Assigns(ask) => /\ Len(new) >= 1 /\ new[1] = x
                          /\ ask.status # None => Len(new) > 1
  <2>1. x \in Line /\ y \in Line /\ z \in Line /\ new = a \o b \o c
    BY <1>8
  <2> HIDE DEF new
  <2>2. Adds(a, c, x, y, z, new)
    BY <1>9, <2>1, LinesAdded
  <2> QED BY <1>10, <2>2 DEF Adds
<1>12. Len(new) \in Nat
  BY <1>11
<1> HIDE DEF new
<1>13. moved \in TicketRow
  BY <1>3, <1>5, <1>6
<1>14. LedgerTypeOK'
  <2>1. ln \o new \in Seq(Line)
    BY <1>2, <1>11, LinesJoined
  <2> HIDE DEF ln
  <2> QED BY <1>1, <1>13, <2>1 DEF LedgerTypeOK
<1>15. RowAgrees(moved, ln \o new)
  <2> HIDE DEF w, ln
  <2>1. ASSUME ask.status = None, NEW s
        PROVE  /\ FirstTo(ln \o new, s) = FirstTo(ln, s)
               /\ LastTo(ln \o new, s) = LastTo(ln, s)
    <3>1. \A i \in 1 .. Len(new) : ~(new[i].type = "status_changed" /\ new[i].to = s)
      BY <1>8, <1>11, <2>1
    <3> QED BY <1>2, <1>11, <3>1, NoSuchMove
  <2>2. ASSUME ask.status # None, NEW s, s # ask.status
        PROVE  /\ FirstTo(ln \o new, s) = FirstTo(ln, s)
               /\ LastTo(ln \o new, s) = LastTo(ln, s)
    <3>1. \A i \in 1 .. Len(new) : ~(new[i].type = "status_changed" /\ new[i].to = s)
      BY <1>8, <1>11, <2>2
    <3> QED BY <1>2, <1>11, <3>1, NoSuchMove
  <2>3. ASSUME ask.status # None
        PROVE  /\ LastTo(ln \o new, ask.status) = today
               /\ FirstTo(ln \o new, ask.status) =
                    IF FirstTo(ln, ask.status) = None THEN today
                    ELSE FirstTo(ln, ask.status)
    <3>1. \A i \in 1 .. Len(new) - 1 : new[i].type # "status_changed"
      <4> SUFFICES ASSUME NEW i \in 1 .. Len(new) - 1 PROVE new[i].type # "status_changed"
        OBVIOUS
      <4>1. i \in 1 .. Len(new) /\ i # Len(new)
        BY <1>12
      <4> QED BY <1>8, <1>11, <4>1
    <3>2. new[Len(new)] = z /\ Len(new) >= 1
      BY <1>11, <2>3
    <3>3. /\ LastTo(ln \o new, ask.status) = new[Len(new)].at
          /\ FirstTo(ln \o new, ask.status) =
               IF MovesTo(ln, ask.status) = {} THEN new[Len(new)].at
               ELSE FirstTo(ln, ask.status)
      BY <1>2, <1>8, <1>11, <2>3, <3>1, <3>2, OneSuchMove
    <3> QED BY <1>2, <1>8, <3>2, <3>3, FirstIsNone
  <2>4. /\ moved.started = FirstTo(ln \o new, "in_progress")
        /\ moved.completed = LastTo(ln \o new, "complete")
        /\ moved.verified = LastTo(ln \o new, "verified")
    <3>1. CASE ask.status = None
      BY <1>2, <1>3, <1>6, <2>1, <3>1 DEF RowAgrees
    <3>2. CASE ask.status # None
      <4>1. moved.started = FirstTo(ln \o new, "in_progress")
        BY <1>2, <1>3, <1>5, <2>2, <2>3, <3>2 DEF RowAgrees
      <4>2. moved.completed = LastTo(ln \o new, "complete")
        BY <1>2, <1>3, <1>5, <2>2, <2>3, <3>2 DEF RowAgrees
      <4>3. moved.verified = LastTo(ln \o new, "verified")
        BY <1>2, <1>3, <1>5, <2>2, <2>3, <3>2 DEF RowAgrees
      <4> QED BY <4>1, <4>2, <4>3
    <3> QED BY <3>1, <3>2
  <2>5. moved.assignee = held.assignee
    BY <1>5, <1>6
  <2>6. ASSUME moved.assignee # None PROVE AckedByAssignee(moved, ln \o new)
    \* The order was given to somebody: nobody has moved it since, or its new assignee now.
    <3>1. CASE Assigns(ask) /\ held.acked = None
      <4>1. Len(new) >= 1 /\ new[1] = x /\ (ask.status # None => Len(new) > 1)
        BY <1>11, <3>1
      <4>2. \A i \in 1 .. Len(new) :
              /\ new[i].type = "assigned" => i = 1
              /\ new[i].type = "status_changed" =>
                   ask.status # None /\ i = Len(new) /\ new[i] = z
        BY <1>8, <1>11
      <4>3. CASE moved.acked = None
        <5>1. ask.status = None \/ held.assignee # by
          BY <1>5, <3>1, <4>3, TodayIsSome
        <5>2. \A i \in 1 .. Len(new) : new[i].type = "status_changed" =>
                  new[i].by # moved.assignee
          BY <1>8, <2>5, <4>2, <5>1
        <5>3. new[1].type = "assigned"
          BY <1>8, <4>1
        <5> QED BY <1>2, <1>11, <4>1, <4>3, <5>2, <5>3, AckAwaits
      <4>4. CASE moved.acked # None
        <5>1. ask.status # None /\ held.assignee = by /\ moved.acked = today
          BY <1>5, <1>6, <3>1, <4>4
        <5>2. new[Len(new)] = z /\ Len(new) >= 1
          BY <1>11, <5>1
        <5>3. new[Len(new)].type # "assigned"
          BY <1>8, <5>1, <5>2
        <5> QED BY <1>2, <1>8, <1>11, <2>5, <4>4, <5>1, <5>2, AckGiven
      <4> QED BY <4>3, <4>4
    \* It was not, or to who has it and without an acknowledgement: that of before.
    <3>2. CASE held.assignee = w.assignee /\ held.acked = w.acked
      <4>1. w.assignee # None /\ AckedByAssignee(w, ln)
        BY <1>2, <2>5, <2>6, <3>2 DEF RowAgrees
      <4>2. \A i \in 1 .. Len(new) : new[i].type = "assigned" => new[i].from = new[i].to
        BY <1>8, <1>11, <3>2
      <4>3. CASE moved.acked = w.acked
        <5>1. \A i \in 1 .. Len(new) : new[i].type = "status_changed" =>
                  w.acked # None \/ new[i].by # w.assignee
          <6>1. \A i \in 1 .. Len(new) : new[i].type = "status_changed" =>
                    ask.status # None /\ new[i].by = by
            BY <1>8, <1>11
          <6>2. ask.status # None => w.acked # None \/ w.assignee # by
            BY <1>5, <3>2, <4>3, TodayIsSome
          <6> QED BY <6>1, <6>2
        <5> QED BY <1>2, <1>11, <2>5, <3>2, <4>1, <4>2, <4>3, <5>1, AckStays
      <4>4. CASE moved.acked # w.acked
        <5>1. ask.status # None /\ held.assignee = by /\ moved.acked = today
          BY <1>5, <1>6, <3>2, <4>4
        <5>2. new[Len(new)] = z /\ Len(new) >= 1
          BY <1>11, <5>1
        <5> QED BY <1>2, <1>8, <1>11, <2>5, <5>1, <5>2, TodayIsSome, AckGiven
      <4> QED BY <4>3, <4>4
    <3> QED BY <1>3, <2>5, <2>6, <3>1, <3>2
  <2> QED BY <2>4, <2>6 DEF RowAgrees
<1>16. ASSUME NEW p \in Tickets, p # o PROVE ticket'[p] = ticket[p] /\ timeline'[p] = timeline[p]
  BY <1>1, <1>16 DEF LedgerTypeOK
<1>17. ticket'[o] = moved /\ timeline'[o] = ln \o new
  BY <1>1 DEF LedgerTypeOK
<1>18. ASSUME NEW p \in Tickets, ticket'[p] # None PROVE RowAgrees(ticket'[p], timeline'[p])
  <2>1. CASE p = o
    BY <1>15, <1>17, <2>1, Zenon
  <2>2. CASE p # o
    BY <1>16, <1>18, <2>2
  <2> QED BY <2>1, <2>2
<1> HIDE DEF w, ln
<1> QED BY <1>14, <1>18 DEF RowAgrees, AckedByAssignee

\* A photo on the order is a line that tells nothing of it (work_orders.py:294-320).
LEMMA PhotoKeeps ==
    ASSUME LedgerInv, NEW o \in Tickets, NEW by \in Crew, AddOrderPhoto(o, by)
    PROVE  LedgerInv'
<1> USE DEF LedgerInv
<1> DEFINE ln == timeline[o]
           e == Event("photo_attached", by, None, None)
           new == <<e>>
<1>1. /\ ticket[o] # None /\ timeline' = [timeline EXCEPT ![o] = Append(ln, e)]
      /\ UNCHANGED <<today, ticket>>
  BY DEF AddOrderPhoto
<1>2. ln \in Seq(Line) /\ RowAgrees(ticket[o], ln)
  BY <1>1 DEF LedgerTypeOK
<1>3. e \in Line /\ e.type = "photo_attached"
  <2>1. LedgerTypeOK /\ None \in Progress \cup Crew \cup {None}
    OBVIOUS
  <2> QED BY <2>1, EventIsLine
<1> HIDE DEF e, ln
<1>4. new \in Seq(Line) /\ \A i \in 1 .. Len(new) : new[i] = e
  BY <1>3
<1>5. Append(ln, e) = ln \o new /\ Append(ln, e) \in Seq(Line)
  BY <1>2, <1>3
<1> HIDE DEF new
<1>6. \A s : /\ FirstTo(ln \o new, s) = FirstTo(ln, s)
             /\ LastTo(ln \o new, s) = LastTo(ln, s)
  BY <1>2, <1>3, <1>4, NoSuchMove
<1>7. ticket[o].assignee # None => AckedByAssignee(ticket[o], ln \o new)
  BY <1>2, <1>3, <1>4, AckStays DEF RowAgrees
<1>8. RowAgrees(ticket[o], ln \o new)
  BY <1>2, <1>6, <1>7 DEF RowAgrees
<1>9. LedgerTypeOK'
  BY <1>1, <1>5 DEF LedgerTypeOK
<1>10. \A p \in Tickets : timeline'[p] = IF p = o THEN ln \o new ELSE timeline[p]
  BY <1>1, <1>5 DEF LedgerTypeOK
<1>11. ASSUME NEW p \in Tickets, ticket'[p] # None PROVE RowAgrees(ticket'[p], timeline'[p])
  <2>1. ticket'[p] = ticket[p]
    BY <1>1
  <2>2. CASE p = o
    BY <1>8, <1>10, <2>1, <2>2
  <2>3. CASE p # o
    BY <1>10, <1>11, <2>1, <2>3
  <2> QED BY <2>2, <2>3
<1> QED BY <1>9, <1>11 DEF RowAgrees, AckedByAssignee

\* An order that is made has no stamps, and one line that moved it nowhere
\* (work_orders.py:120-151).
LEMMA CreateKeeps ==
    ASSUME LedgerInv, NEW o \in Tickets, NEW by \in Crew, NEW user \in Crew \cup {None},
           NEW trade \in Trades \cup {None}, CreateTicket(o, by, user, trade)
    PROVE  LedgerInv'
<1> USE DEF LedgerInv
<1> DEFINE status == IF user # None THEN "assigned" ELSE "open"
           e == Event("created", by, None, status)
           row == [status |-> status, assignee |-> user, trade |-> trade, born |-> today,
                   started |-> None, completed |-> None, verified |-> None, acked |-> None]
<1>1. /\ ticket' = [ticket EXCEPT ![o] = row] /\ timeline' = [timeline EXCEPT ![o] = <<e>>]
      /\ today' = today
  BY DEF CreateTicket
<1>2. status \in Progress
  BY DEF Progress
<1>3. e \in Line /\ e.type = "created"
  <2>1. LedgerTypeOK /\ None \in Progress \cup Crew \cup {None}
    OBVIOUS
  <2>2. status \in Progress \cup Crew \cup {None}
    BY <1>2
  <2>3. PICK s : s = status
    OBVIOUS
  <2>4. s \in Progress \cup Crew \cup {None} /\ e = Event("created", by, None, s)
    BY <2>2, <2>3
  <2> HIDE DEF status, e, row
  <2>5. today \in Days
    BY DEF LedgerTypeOK
  <2> QED BY <2>1, <2>4, <2>5 DEF Event, Line
<1> HIDE DEF status, e
<1>4. row \in TicketRow
  BY <1>2 DEF TicketRow, LedgerTypeOK
<1>5. <<e>> \in Seq(Line) /\ DOMAIN <<e>> = {1} /\ <<e>>[1] = e
  BY <1>3
<1> DEFINE ln == <<e>>
<1>6. ln \in Seq(Line) /\ DOMAIN ln = {1} /\ ln[1] = e
  BY <1>5
<1> HIDE DEF ln
<1>7. \A s : MovesTo(ln, s) = {}
  BY <1>3, <1>6 DEF MovesTo
<1>8. row.acked = None /\ AckedByAssignee(row, ln)
  BY <1>3, <1>6 DEF AckedByAssignee
<1>9. RowAgrees(row, ln)
  BY <1>7, <1>8 DEF RowAgrees, FirstTo, LastTo
<1> HIDE DEF row
<1>10. LedgerTypeOK'
  BY <1>1, <1>4, <1>6 DEF LedgerTypeOK, ln
<1>11. \A p \in Tickets : /\ ticket'[p] = IF p = o THEN row ELSE ticket[p]
                          /\ timeline'[p] = IF p = o THEN ln ELSE timeline[p]
  BY <1>1 DEF LedgerTypeOK, ln
<1>12. ASSUME NEW p \in Tickets, ticket'[p] # None PROVE RowAgrees(ticket'[p], timeline'[p])
  BY <1>9, <1>11, <1>12
<1> QED BY <1>10, <1>12 DEF RowAgrees, AckedByAssignee

LEMMA LedgerInvInit == LedgerInit => LedgerInv
<1> SUFFICES ASSUME LedgerInit PROVE LedgerInv
  OBVIOUS
<1>1. 0 \in Days /\ <<>> \in Seq(Line)
  BY LedgerAssumption DEF Days
<1> QED BY <1>1 DEF LedgerInit, LedgerInv, LedgerTypeOK

LEMMA LedgerInvStep == LedgerInv /\ [LedgerNext]_ledgerVars => LedgerInv'
<1> SUFFICES ASSUME LedgerInv, [LedgerNext]_ledgerVars PROVE LedgerInv'
  OBVIOUS
<1>1. ASSUME NEW o \in Tickets, NEW by \in Crew, NEW user \in Crew \cup {None},
             NEW trade \in Trades \cup {None}, CreateTicket(o, by, user, trade)
      PROVE  LedgerInv'
  BY <1>1, CreateKeeps
<1>2. ASSUME NEW o \in Tickets, NEW by \in Crew, NEW ask \in Asks, PatchTicket(o, by, ask)
      PROVE  LedgerInv'
  BY <1>2, PatchKeeps
<1>3. ASSUME NEW o \in Tickets, NEW by \in Crew, AddOrderPhoto(o, by) PROVE LedgerInv'
  BY <1>3, PhotoKeeps
<1>4. CASE NextDay
  <2>1. today' \in Days
    BY <1>4, LedgerAssumption DEF NextDay, LedgerInv, LedgerTypeOK, Days
  <2> QED BY <1>4, <2>1 DEF NextDay, LedgerInv, LedgerTypeOK, RowAgrees, AckedByAssignee
<1>5. CASE UNCHANGED ledgerVars
  BY <1>5 DEF ledgerVars, LedgerInv, LedgerTypeOK, RowAgrees, AckedByAssignee
<1> QED BY <1>1, <1>2, <1>3, <1>4, <1>5 DEF LedgerNext

\* An order that is done counts on the day of its last completion, and on no other.
LEMMA CountedOnTheDay ==
    ASSUME LedgerInv, NEW o \in Tickets, ticket[o] # None, NEW d \in Days
    PROVE  o \in ClosedIn(d, d + 1) <=>
               /\ ticket[o].status \in {"complete", "verified"}
               /\ LastTo(timeline[o], "complete") = d
<1>1. /\ ticket[o] \in TicketRow
      /\ ticket[o].completed = LastTo(timeline[o], "complete")
  BY DEF LedgerInv, LedgerTypeOK, RowAgrees
<1>2. ticket[o].completed \in Days \cup {None}
  BY <1>1 DEF TicketRow
<1>3. d \in Nat /\ d # None
  BY LedgerAssumption DEF Days
<1>4. CASE ticket[o].completed = None
  BY <1>1, <1>3, <1>4 DEF ClosedIn
<1>5. CASE ticket[o].completed # None
  <2>1. ticket[o].completed \in Nat
    BY <1>2, <1>5, LedgerAssumption DEF Days
  <2>2. d <= ticket[o].completed /\ ticket[o].completed < d + 1 <=> ticket[o].completed = d
    BY <1>3, <2>1
  <2> QED BY <1>1, <1>5, <2>2 DEF ClosedIn
<1> QED BY <1>4, <1>5

LEMMA LedgerAlways == LedgerSpec => []LedgerInv
BY LedgerInvInit, LedgerInvStep, PTL DEF LedgerSpec

\* The stamps of an order, its timeline and the weekly figures tell one story, for any number of
\* orders, members and days and any sequence of requests, each of which may give, take back,
\* move and comment at once (work_orders.py:181-234; analytics.py:97-105).
THEOREM LedgerAlwaysAgrees == LedgerSpec => []LedgerAgrees
<1>1. LedgerInv => LedgerAgrees
  <2> SUFFICES ASSUME LedgerInv PROVE LedgerAgrees
    OBVIOUS
  <2>1. \A o \in Tickets : ticket[o] # None => RowAgrees(ticket[o], timeline[o])
    BY DEF LedgerInv
  <2> QED BY <2>1, CountedOnTheDay DEF LedgerAgrees, RowAgrees
<1> QED BY <1>1, LedgerAlways, PTL

(***************************************************************************)
(* The lists of today                                                      *)
(***************************************************************************)

\* A set of numbers that has a bound has a greatest one.
LEMMA GreatestNumber ==
    ASSUME NEW bound \in Nat, NEW T \in SUBSET (0 .. bound), T # {}
    PROVE  Max(T) \in T /\ \A k \in T : k <= Max(T)
<1> DEFINE R == OpToRel(<, Nat)
           S == {bound - k : k \in T}
<1>1. S \in SUBSET Nat /\ S # {}
  <2>1. \A k \in T : bound - k \in Nat
    OBVIOUS
  <2> QED BY <2>1
<1>2. IsWellFoundedOn(R, Nat)
  BY NatLessThanWellFounded
<1>3. \A k, n \in Nat : k < n => <<k, n>> \in R
  BY DEF OpToRel
<1> HIDE DEF R
<1>4. PICK m \in S : \A k \in S : ~(<<k, m>> \in R)
  BY <1>1, <1>2, WFMin
<1>5. m \in Nat /\ \A k \in S : k \in Nat /\ ~(k < m)
  BY <1>1, <1>3, <1>4
<1>6. PICK g \in T : m = bound - g
  BY <1>4
<1>7. \A k \in T : g >= k
  <2> SUFFICES ASSUME NEW k \in T PROVE g >= k
    OBVIOUS
  <2>1. bound - k \in S /\ k \in Nat /\ g \in Nat
    OBVIOUS
  <2>2. ~(bound - k < bound - g)
    BY <1>5, <1>6, <2>1
  <2> QED BY <2>1, <2>2
<1>8. \E x \in T : \A y \in T : x >= y
  BY <1>7
<1>9. Max(T) \in T /\ \A y \in T : Max(T) >= y
  BY <1>8 DEF Max
<1>10. ASSUME NEW k \in T PROVE k <= Max(T)
  <2>1. k \in 0 .. bound /\ Max(T) \in 0 .. bound
    BY <1>9
  <2>2. Max(T) >= k
    BY <1>9
  <2> QED BY <2>1, <2>2
<1> QED BY <1>9, <1>10

\* No two rooms of a list have one place.
PlacesApart ==
    \A h \in Keepers : \A c, d \in Mine(h) : turn[c].place = turn[d].place => c = d

RoundsInv == RoundsTypeOK /\ RoundsAsGiven /\ PlacesApart

\* A place after every one on the list.
LEMMA NextIsLast ==
    ASSUME RoundsTypeOK, NEW h \in Keepers
    PROVE  /\ NextPlace(h) \in 1 .. LastPlace + 1
           /\ \A d \in Mine(h) : turn[d].place \in Nat /\ turn[d].place < NextPlace(h)
<1> DEFINE T == {turn[d].place : d \in Mine(h)} \cup {spent[h]}
<1>1. \A d \in Mine(h) : turn[d].place \in 1 .. LastPlace
  BY DEF RoundsTypeOK, Mine, Turn
<1>2. spent[h] \in 0 .. LastPlace /\ LastPlace \in Nat
  BY RoundsAssumption DEF RoundsTypeOK
<1>3. T \in SUBSET (0 .. LastPlace) /\ T # {}
  BY <1>1, <1>2
<1>4. NextPlace(h) = Max(T) + 1
  BY DEF NextPlace
<1>5. \A d \in Mine(h) : turn[d].place \in T
  OBVIOUS
<1> HIDE DEF T
<1>6. Max(T) \in 0 .. LastPlace /\ \A k \in T : k <= Max(T)
  BY <1>2, <1>3, GreatestNumber
<1>7. ASSUME NEW d \in Mine(h) PROVE turn[d].place \in Nat /\ turn[d].place < NextPlace(h)
  <2>1. turn[d].place \in Nat /\ turn[d].place <= Max(T) /\ Max(T) \in Nat
    BY <1>1, <1>2, <1>5, <1>6
  <2> QED BY <1>4, <2>1
<1> QED BY <1>2, <1>4, <1>6, <1>7

\* A list has each of its rooms at one place.
LEMMA ListPlaces ==
    ASSUME NEW ds \in SUBSET Doors, NEW s \in ListsOf(ds)
    PROVE  /\ Cardinality(ds) \in Nat /\ IsFiniteSet(ds) /\ Range(s) = ds
           /\ \A d \in ds : PlaceIn(s, d) \in 1 .. Cardinality(ds) /\ s[PlaceIn(s, d)] = d
<1> DEFINE n == Cardinality(ds)
<1>1. IsFiniteSet(ds) /\ n \in Nat
  BY RoundsAssumption, FS_Subset, FS_CardinalityType
<1>2. IsFiniteSet(1 .. n) /\ Cardinality(1 .. n) = n
  <2>1. 1 \in Int /\ n \in Int
    BY <1>1
  <2>2. IsFiniteSet(1 .. n) /\ Cardinality(1 .. n) = IF 1 > n THEN 0 ELSE n - 1 + 1
    BY <2>1, FS_Interval
  <2> QED BY <1>1, <2>2
<1>3. s \in Injection(1 .. n, ds)
  BY DEF ListsOf
<1>4. s \in Surjection(1 .. n, ds)
  BY <1>1, <1>2, <1>3, FS_Injection
<1> HIDE DEF n
<1>5. s \in [1 .. n -> ds] /\ \A d \in ds : \E i \in 1 .. n : s[i] = d
  BY <1>4 DEF Surjection
<1>6. Range(s) = ds
  BY <1>5 DEF Range
<1>7. \A d \in ds : PlaceIn(s, d) \in 1 .. n /\ s[PlaceIn(s, d)] = d
  BY <1>5 DEF PlaceIn
<1> QED BY <1>1, <1>6, <1>7 DEF n

\* The rooms of a list, and their order, when what a room's row says of both is as it was.
LEMMA SameRows ==
    ASSUME RoundsInv, given' = given,
           \A d \in Doors : /\ turn'[d] = None <=> turn[d] = None
                            /\ turn[d] # None => /\ turn'[d].keeper = turn[d].keeper
                                                 /\ turn'[d].place = turn[d].place
    PROVE  RoundsAsGiven' /\ PlacesApart'
<1> SUFFICES ASSUME NEW h \in Keepers
             PROVE  /\ MyRooms(h)' = given'[h]
                    /\ \A c, d \in Mine(h)' : turn'[c].place = turn'[d].place => c = d
  BY DEF RoundsAsGiven, PlacesApart
<1>1. Mine(h)' = Mine(h) /\ Mine(h) \subseteq Doors
  BY DEF Mine
<1>2. \A d \in Mine(h) : turn'[d].place = turn[d].place
  BY DEF Mine
<1>3. MyRooms(h)' = MyRooms(h)
  BY <1>1, <1>2 DEF MyRooms
<1> QED BY <1>1, <1>2, <1>3 DEF RoundsInv, RoundsAsGiven, PlacesApart

\* Rooms that leave every list leave the others of it in their order.
LEMMA RowsLeave ==
    ASSUME RoundsInv, NEW ds \in SUBSET Doors,
           turn' = [d \in Doors |-> IF d \in ds THEN None ELSE turn[d]], given' = Dropped(ds)
    PROVE  /\ RoundsAsGiven' /\ PlacesApart' /\ turn' \in [Doors -> Turn \cup {None}]
           /\ given' \in [Keepers -> SUBSET (Doors \X Doors)]
<1>0. RoundsTypeOK /\ RoundsAsGiven /\ PlacesApart
  BY DEF RoundsInv
<1>1. turn' \in [Doors -> Turn \cup {None}]
  BY <1>0 DEF RoundsTypeOK
<1>2. ASSUME NEW h \in Keepers
      PROVE  /\ given'[h] = Without(given[h], ds) /\ given'[h] \in SUBSET (Doors \X Doors)
             /\ MyRooms(h)' = given'[h]
             /\ \A c, d \in Mine(h)' : turn'[c].place = turn'[d].place => c = d
  <2>1. given'[h] = Without(given[h], ds)
    BY DEF Dropped
  <2>2. given'[h] \in SUBSET (Doors \X Doors)
    BY <1>0, <2>1 DEF Without, RoundsTypeOK
  <2>3. Mine(h)' = Mine(h) \ ds /\ Mine(h) \subseteq Doors
    BY DEF Mine
  <2>4. \A d \in Mine(h) \ ds : turn'[d] = turn[d]
    BY <2>3
  <2>5. MyRooms(h)' = Without(MyRooms(h), ds)
    BY <2>3, <2>4 DEF MyRooms, Without
  <2>6. \A c, d \in Mine(h)' : turn'[c].place = turn'[d].place => c = d
    BY <1>0, <2>3, <2>4 DEF PlacesApart
  <2> QED BY <1>0, <2>1, <2>2, <2>5, <2>6 DEF RoundsAsGiven
<1>3. given' \in [Keepers -> SUBSET (Doors \X Doors)]
  BY <1>2 DEF Dropped
<1> QED BY <1>1, <1>2, <1>3 DEF RoundsAsGiven, PlacesApart

\* Rooms that come to a list, each behind all of those on it and in the order of s among
\* themselves, and leave whatever list they were on.
LEMMA RowsCome ==
    ASSUME RoundsInv, NEW h \in Keepers, NEW new \in SUBSET (Doors \ Mine(h)),
           NEW s, \A d \in new : PlaceIn(s, d) \in Nat,
           \A c, d \in new : PlaceIn(s, c) = PlaceIn(s, d) => c = d,
           NEW row \in [new -> Turn],
           \A d \in new : row[d].keeper = h /\ row[d].place >= NextPlace(h),
           \A c, d \in new : PlaceIn(s, c) < PlaceIn(s, d) => row[c].place < row[d].place,
           turn' = [d \in Doors |-> IF d \in new THEN row[d] ELSE turn[d]],
           given' = [Dropped(new) EXCEPT ![h] = Behind(@, s, new)]
    PROVE  /\ RoundsAsGiven' /\ PlacesApart' /\ turn' \in [Doors -> Turn \cup {None}]
           /\ given' \in [Keepers -> SUBSET (Doors \X Doors)]
<1>0. RoundsTypeOK /\ RoundsAsGiven /\ PlacesApart
  BY DEF RoundsInv
<1>1. turn' \in [Doors -> Turn \cup {None}]
  BY <1>0 DEF RoundsTypeOK
<1>2. \A d \in new : turn'[d] = row[d] /\ row[d] # None /\ row[d].place \in Nat
  BY RoundsAssumption DEF Turn
<1>3. ASSUME NEW k \in Keepers \ {h}
      PROVE  /\ given'[k] \in SUBSET (Doors \X Doors) /\ MyRooms(k)' = given'[k]
             /\ \A c, d \in Mine(k)' : turn'[c].place = turn'[d].place => c = d
  <2>1. given'[k] = Without(given[k], new)
    BY <1>0 DEF Dropped
  <2>2. given'[k] \in SUBSET (Doors \X Doors)
    BY <1>0, <2>1 DEF Without, RoundsTypeOK
  <2>3. Mine(k)' = Mine(k) \ new /\ Mine(k) \subseteq Doors
    BY <1>2 DEF Mine
  <2>4. \A d \in Mine(k) \ new : turn'[d] = turn[d]
    BY <2>3
  <2>5. MyRooms(k)' = Without(MyRooms(k), new)
    BY <2>3, <2>4 DEF MyRooms, Without
  <2>6. \A c, d \in Mine(k)' : turn'[c].place = turn'[d].place => c = d
    BY <1>0, <2>3, <2>4 DEF PlacesApart
  <2> QED BY <1>0, <2>1, <2>2, <2>5, <2>6 DEF RoundsAsGiven
<1>4. /\ given'[h] \in SUBSET (Doors \X Doors) /\ MyRooms(h)' = given'[h]
      /\ \A c, d \in Mine(h)' : turn'[c].place = turn'[d].place => c = d
  <2>1. given[h] = MyRooms(h)
    BY <1>0 DEF RoundsAsGiven
  <2>2. Mine(h)' = Mine(h) \cup new /\ Mine(h) \subseteq Doors /\ Mine(h) \cap new = {}
    BY <1>2 DEF Mine
  <2>3. Without(given[h], new) = MyRooms(h)
    BY <2>1, <2>2 DEF Without, MyRooms
  <2>4. {p[1] : p \in MyRooms(h)} = Mine(h)
    <3>1. \A d \in Mine(h) : turn[d].place \in Nat /\ d \in Nat
      BY <1>0, NextIsLast, RoundsAssumption, <2>2
    <3>2. \A d \in Mine(h) : <<d, d>> \in MyRooms(h)
      BY <3>1 DEF MyRooms
    <3>3. \A p \in MyRooms(h) : p[1] \in Mine(h)
      BY DEF MyRooms
    <3>4. ASSUME NEW d \in Mine(h) PROVE d \in {p[1] : p \in MyRooms(h)}
      <4>1. <<d, d>>[1] = d
        OBVIOUS
      <4> QED BY <3>2, <4>1
    <3> QED BY <3>3, <3>4
  <2>5. given'[h] = MyRooms(h) \cup (Mine(h) \X new) \cup InTurn(s, new)
    BY <2>3, <2>4 DEF Dropped, Behind
  <2>6. given'[h] \in SUBSET (Doors \X Doors)
    BY <2>2, <2>5 DEF MyRooms, InTurn
  <2>7. \A d \in Mine(h) : turn'[d] = turn[d]
    BY <2>2
  <2>8. \A c \in Mine(h), d \in new : turn'[c].place < turn'[d].place
    <3> SUFFICES ASSUME NEW c \in Mine(h), NEW d \in new PROVE turn'[c].place < turn'[d].place
      OBVIOUS
    <3>1. turn[c].place \in Nat /\ turn[c].place < NextPlace(h) /\ NextPlace(h) \in Nat
      BY <1>0, NextIsLast, RoundsAssumption
    <3>2. row[d].place >= NextPlace(h) /\ row[d].place \in Nat
      BY <1>2
    <3> QED BY <1>2, <2>7, <3>1, <3>2
  <2>9. ASSUME NEW c \in Mine(h) \cup new, NEW d \in Mine(h) \cup new
        PROVE  <<c, d>> \in MyRooms(h)' <=> <<c, d>> \in given'[h]
    <3> DEFINE Not(a, b) == \/ turn'[a].place < turn'[b].place
                            \/ turn'[a].place = turn'[b].place /\ a <= b
    <3>0. <<c, d>> \in MyRooms(h)' <=> Not(c, d)
      BY <2>2 DEF MyRooms
    <3>1. CASE c \in Mine(h) /\ d \in Mine(h)
      <4>1. <<c, d>> \in MyRooms(h) <=> Not(c, d)
        BY <2>7, <3>1 DEF MyRooms
      <4>2. <<c, d>> \notin Mine(h) \X new /\ <<c, d>> \notin InTurn(s, new)
        BY <2>2, <3>1 DEF InTurn
      <4> QED BY <2>5, <3>0, <4>1, <4>2
    <3>2. CASE c \in Mine(h) /\ d \in new
      <4>1. <<c, d>> \in Mine(h) \X new
        BY <3>2
      <4> QED BY <2>5, <2>8, <3>0, <3>2, <4>1
    <3>3. CASE c \in new /\ d \in Mine(h)
      <4>1. turn'[d].place < turn'[c].place /\ turn'[d].place \in Nat /\ turn'[c].place \in Nat
        BY <1>0, <1>2, <2>7, <2>8, <3>3, NextIsLast
      <4>2. ~Not(c, d)
        BY <4>1
      <4>3. <<c, d>> \notin given'[h]
        BY <2>2, <2>5, <3>3 DEF MyRooms, InTurn
      <4> QED BY <3>0, <4>2, <4>3
    <3>4. CASE c \in new /\ d \in new
      <4>0. <<c, d>> \in given'[h] <=> PlaceIn(s, c) <= PlaceIn(s, d)
        BY <2>2, <2>5, <3>4 DEF MyRooms, InTurn
      <4>1. /\ turn'[c].place = row[c].place /\ turn'[d].place = row[d].place
            /\ row[c].place \in Nat /\ row[d].place \in Nat
            /\ PlaceIn(s, c) \in Nat /\ PlaceIn(s, d) \in Nat /\ c \in Nat /\ d \in Nat
        BY <1>2, <3>4, RoundsAssumption
      <4>2. CASE PlaceIn(s, c) < PlaceIn(s, d)
        <5>1. row[c].place < row[d].place
          BY <3>4, <4>2
        <5> QED BY <3>0, <4>0, <4>1, <4>2, <5>1
      <4>3. CASE PlaceIn(s, d) < PlaceIn(s, c)
        <5>1. row[d].place < row[c].place
          BY <3>4, <4>3
        <5> QED BY <3>0, <4>0, <4>1, <4>3, <5>1
      <4>4. CASE PlaceIn(s, c) = PlaceIn(s, d)
        <5>1. c = d
          BY <3>4, <4>4
        <5> QED BY <3>0, <4>0, <4>1, <5>1
      <4> QED BY <4>1, <4>2, <4>3, <4>4
    <3> QED BY <3>1, <3>2, <3>3, <3>4
  <2>10. MyRooms(h)' \subseteq (Mine(h) \cup new) \X (Mine(h) \cup new)
    BY <2>2 DEF MyRooms
  <2>11. given'[h] \subseteq (Mine(h) \cup new) \X (Mine(h) \cup new)
    BY <2>5 DEF MyRooms, InTurn
  <2>12. \A p \in (Mine(h) \cup new) \X (Mine(h) \cup new) : p \in MyRooms(h)' <=> p \in given'[h]
    <3> DEFINE A == MyRooms(h)'
               B == given'[h]
               P == Mine(h) \cup new
    <3>1. \A c, d \in P : <<c, d>> \in A <=> <<c, d>> \in B
      BY <2>9
    <3> HIDE DEF A, B, P
    <3>2. \A p \in P \X P : p \in A <=> p \in B
      BY <3>1
    <3> QED BY <3>2 DEF A, B, P
  <2>13. MyRooms(h)' = given'[h]
    BY <2>10, <2>11, <2>12
  <2>14. ASSUME NEW c \in Mine(h)', NEW d \in Mine(h)', turn'[c].place = turn'[d].place
         PROVE  c = d
    <3>1. CASE c \in Mine(h) /\ d \in Mine(h)
      BY <1>0, <2>7, <2>14, <3>1 DEF PlacesApart
    <3>2. \A b \in Mine(h) \cup new : turn'[b].place \in Nat
      BY <1>0, <1>2, <2>7, NextIsLast
    <3>3. CASE c \in Mine(h) /\ d \in new
      BY <2>8, <2>14, <3>2, <3>3
    <3>4. CASE c \in new /\ d \in Mine(h)
      BY <2>8, <2>14, <3>2, <3>4
    <3>5. CASE c \in new /\ d \in new
      <4>1. ~(PlaceIn(s, c) < PlaceIn(s, d)) /\ ~(PlaceIn(s, d) < PlaceIn(s, c))
        BY <1>2, <2>14, <3>5
      <4>2. PlaceIn(s, c) \in Nat /\ PlaceIn(s, d) \in Nat
        BY <3>5
      <4>3. PlaceIn(s, c) = PlaceIn(s, d)
        BY <4>1, <4>2
      <4> QED BY <3>5, <4>3
    <3> QED BY <2>2, <3>1, <3>3, <3>4, <3>5
  <2> QED BY <2>6, <2>13, <2>14
<1>5. given' \in [Keepers -> SUBSET (Doors \X Doors)]
  <2>1. \A k \in Keepers : given'[k] \in SUBSET (Doors \X Doors)
    BY <1>3, <1>4
  <2>2. given' = [k \in Keepers |-> given'[k]]
    BY DEF Dropped
  <2> QED BY <2>1, <2>2
<1> QED BY <1>1, <1>3, <1>4, <1>5 DEF RoundsAsGiven, PlacesApart

LEMMA GiveRoomsKeeps ==
    ASSUME RoundsInv, NEW h \in Keepers, NEW ds \in SUBSET Doors, NEW s \in ListsOf(ds),
           GiveRooms(h, s)
    PROVE  RoundsInv'
<1> DEFINE new == Range(s) \ Mine(h)
           earlier(d) == {c \in new : PlaceIn(s, c) < PlaceIn(s, d)}
           count(d) == Cardinality(earlier(d))
           row == [d \in new |->
                     [keeper |-> h, place |-> NextPlace(h) + count(d),
                      status |-> IF turn[d] = None THEN "assigned" ELSE turn[d].status]]
<1>1. /\ \A d \in new : turn[d] # None => turn[d].status \in {"assigned", "in_progress"}
      /\ NextPlace(h) + Cardinality(new) - 1 <= LastPlace
      /\ turn' = [d \in Doors |-> IF d \notin new THEN turn[d] ELSE row[d]]
      /\ given' = [Dropped(new) EXCEPT ![h] = Behind(@, s, new)]
      /\ UNCHANGED <<door, spent>>
  BY DEF GiveRooms
<1>2. RoundsTypeOK /\ RoundsAsGiven /\ PlacesApart
  BY DEF RoundsInv
<1>3. /\ Range(s) = ds
      /\ \A d \in ds : PlaceIn(s, d) \in Nat /\ s[PlaceIn(s, d)] = d
  BY ListPlaces
<1>4. new \in SUBSET (Doors \ Mine(h)) /\ new \subseteq ds
  BY <1>3
<1>5. IsFiniteSet(new) /\ Cardinality(new) \in Nat
  BY <1>4, RoundsAssumption, FS_Subset, FS_CardinalityType
<1>6. NextPlace(h) \in Nat /\ NextPlace(h) >= 1 /\ LastPlace \in Nat
  BY <1>2, NextIsLast, RoundsAssumption
<1>7. ASSUME NEW d \in new
      PROVE  count(d) \in Nat /\ count(d) < Cardinality(new) /\ IsFiniteSet(earlier(d))
  <2>1. earlier(d) \in SUBSET new /\ d \notin earlier(d)
    BY <1>3, <1>4
  <2> QED BY <1>5, <2>1, FewerThan, FS_Subset
<1>8. ASSUME NEW c \in new, NEW d \in new, PlaceIn(s, c) < PlaceIn(s, d)
      PROVE  count(c) < count(d)
  <2>1. PlaceIn(s, c) \in Nat /\ PlaceIn(s, d) \in Nat
    BY <1>3, <1>4
  <2>2. \A b \in new : PlaceIn(s, b) \in Nat
    BY <1>3, <1>4
  <2>3. earlier(c) \in SUBSET earlier(d) /\ c \in earlier(d) /\ c \notin earlier(c)
    BY <1>8, <2>1, <2>2
  <2> QED BY <1>7, <2>3, FewerThan
<1>9. \A c, d \in new : PlaceIn(s, c) = PlaceIn(s, d) => c = d
  BY <1>3, <1>4
<1> HIDE DEF new, count
<1>10. ASSUME NEW d \in new
       PROVE  row[d] \in Turn /\ row[d].keeper = h /\ row[d].place = NextPlace(h) + count(d)
  <2> DEFINE place == NextPlace(h) + count(d)
             status == IF turn[d] = None THEN "assigned" ELSE turn[d].status
  <2>1. place \in 1 .. LastPlace
    <3>0. count(d) \in Nat /\ Cardinality(new) \in Nat /\ count(d) < Cardinality(new)
      BY <1>5, <1>7
    <3>1. count(d) \in Nat /\ count(d) + 1 <= Cardinality(new)
      BY <3>0
    <3>2. place \in Nat /\ place >= 1
      BY <1>6, <3>1
    <3>3. place <= NextPlace(h) + Cardinality(new) - 1
      BY <1>5, <1>6, <3>1
    <3>4. place <= LastPlace
      BY <1>1, <1>5, <1>6, <3>2, <3>3
    <3> QED BY <1>6, <3>2, <3>4
  <2>2. status \in {"assigned", "in_progress", "done"}
    BY <1>1
  <2>3. row[d] = [keeper |-> h, place |-> place, status |-> status]
    OBVIOUS
  <2> HIDE DEF place, status, row
  <2>4. row[d] \in Turn /\ row[d].keeper = h /\ row[d].place = place
    BY <2>1, <2>2, <2>3 DEF Turn
  <2> QED BY <2>4 DEF place
<1>11. row \in [new -> Turn]
  BY <1>10
<1> HIDE DEF row
<1>12. ASSUME NEW d \in new PROVE row[d].keeper = h /\ row[d].place >= NextPlace(h)
  <2>1. count(d) \in Nat /\ row[d].place = NextPlace(h) + count(d) /\ row[d].keeper = h
    BY <1>7, <1>10
  <2> QED BY <1>6, <2>1
<1>13. ASSUME NEW c \in new, NEW d \in new, PlaceIn(s, c) < PlaceIn(s, d)
       PROVE  row[c].place < row[d].place
  <2>1. count(c) < count(d) /\ count(c) \in Nat /\ count(d) \in Nat
    BY <1>7, <1>8, <1>13
  <2>2. row[c].place = NextPlace(h) + count(c) /\ row[d].place = NextPlace(h) + count(d)
    BY <1>10
  <2> QED BY <1>6, <2>1, <2>2
<1>14. turn' = [d \in Doors |-> IF d \in new THEN row[d] ELSE turn[d]]
  BY <1>1
<1>15. \A d \in new : PlaceIn(s, d) \in Nat
  BY <1>3, <1>4
<1>16. /\ RoundsAsGiven' /\ PlacesApart' /\ turn' \in [Doors -> Turn \cup {None}]
       /\ given' \in [Keepers -> SUBSET (Doors \X Doors)]
  BY <1>1, <1>2, <1>4, <1>9, <1>11, <1>12, <1>13, <1>14, <1>15, RowsCome
<1> QED BY <1>1, <1>2, <1>16 DEF RoundsInv, RoundsTypeOK

LEMMA SelfStartKeeps ==
    ASSUME RoundsInv, NEW h \in Keepers, NEW d \in Doors, SelfStart(h, d)
    PROVE  RoundsInv'
<1> DEFINE new == {d}
           r == [keeper |-> h, place |-> NextPlace(h), status |-> "in_progress"]
           row == [c \in new |-> r]
           s == <<d>>
<1>1. /\ turn[d] = None /\ NextPlace(h) <= LastPlace
      /\ turn' = [turn EXCEPT ![d] = r]
      /\ door' = [door EXCEPT ![d] = "in_progress"]
      /\ given' = [given EXCEPT ![h] = Behind(@, s, new)]
      /\ UNCHANGED spent
  BY DEF SelfStart
<1>2. RoundsTypeOK /\ RoundsAsGiven /\ PlacesApart
  BY DEF RoundsInv
<1>3. NextPlace(h) \in 1 .. LastPlace /\ NextPlace(h) \in Nat
  BY <1>1, <1>2, NextIsLast, RoundsAssumption
<1>4. r \in Turn /\ r.keeper = h /\ r.place = NextPlace(h)
  BY <1>3 DEF Turn
<1>5. \A c \in new : PlaceIn(s, c) = 1
  <2>1. DOMAIN s = {1} /\ s[1] = d
    OBVIOUS
  <2>2. PlaceIn(s, d) \in DOMAIN s
    BY <2>1 DEF PlaceIn
  <2> QED BY <2>1, <2>2
<1>6. new \in SUBSET (Doors \ Mine(h))
  BY <1>1 DEF Mine
<1>7. given' = [Dropped(new) EXCEPT ![h] = Behind(@, s, new)]
  <2>1. \A k \in Keepers : Without(given[k], new) = given[k]
    <3>1. \A k \in Keepers : d \notin Mine(k) /\ given[k] = MyRooms(k)
      BY <1>1, <1>2 DEF Mine, RoundsAsGiven
    <3> QED BY <3>1 DEF Without, MyRooms
  <2>2. Dropped(new) = given
    BY <1>2, <2>1 DEF Dropped, RoundsTypeOK
  <2> QED BY <1>1, <2>2
<1> HIDE DEF r, s
<1>8. row \in [new -> Turn] /\ \A c \in new : row[c] = r
  BY <1>4
<1>9. turn' = [c \in Doors |-> IF c \in new THEN row[c] ELSE turn[c]]
  BY <1>1, <1>2 DEF RoundsTypeOK
<1>10. \A c \in new : row[c].keeper = h /\ row[c].place >= NextPlace(h)
  BY <1>3, <1>4, <1>8
<1>11. /\ \A c \in new : PlaceIn(s, c) \in Nat
       /\ \A b, c \in new : ~(PlaceIn(s, b) < PlaceIn(s, c))
       /\ \A b, c \in new : PlaceIn(s, b) = PlaceIn(s, c) => b = c
  BY <1>5
<1> HIDE DEF new, row
<1>12. /\ RoundsAsGiven' /\ PlacesApart' /\ turn' \in [Doors -> Turn \cup {None}]
       /\ given' \in [Keepers -> SUBSET (Doors \X Doors)]
  BY <1>2, <1>6, <1>7, <1>8, <1>9, <1>10, <1>11, RowsCome
<1> QED BY <1>1, <1>2, <1>12 DEF RoundsInv, RoundsTypeOK, DoorStatus

LEMMA ReorderRoomsKeeps ==
    ASSUME RoundsInv, NEW h \in Keepers, NEW s \in ListsOf(Mine(h)), ReorderRooms(h, s)
    PROVE  RoundsInv'
<1> DEFINE mine == Mine(h)
           n == Cardinality(mine)
           row(d) == [turn[d] EXCEPT !.place = PlaceIn(s, d)]
<1>1. /\ turn' = [d \in Doors |-> IF d \in mine THEN row(d) ELSE turn[d]]
      /\ given' = [given EXCEPT ![h] = InTurn(s, mine)]
      /\ UNCHANGED <<door, spent>>
  BY DEF ReorderRooms
<1>2. RoundsTypeOK /\ RoundsAsGiven /\ PlacesApart /\ mine \in SUBSET Doors
  BY DEF RoundsInv, Mine
<1>3. \A d \in mine : PlaceIn(s, d) \in 1 .. n /\ s[PlaceIn(s, d)] = d
  BY <1>2, ListPlaces
<1>4. n \in Nat /\ n <= LastPlace /\ LastPlace \in Nat
  <2> DEFINE place == [d \in mine |-> turn[d].place]
             T == 1 .. LastPlace
  <2>1. \A d \in mine : turn[d].place \in T
    BY <1>2 DEF RoundsTypeOK, Mine, Turn
  <2>2. place \in Injection(mine, T)
    BY <1>2, <2>1 DEF PlacesApart, Injection, IsInjective
  <2>3. 1 \in Int /\ LastPlace \in Int /\ LastPlace \in Nat
    BY RoundsAssumption
  <2>4. IsFiniteSet(T) /\ Cardinality(T) = IF 1 > LastPlace THEN 0 ELSE LastPlace - 1 + 1
    BY <2>3, FS_Interval
  <2>5. Cardinality(T) = LastPlace
    BY <2>3, <2>4
  <2> HIDE DEF place, T
  <2>6. IsFiniteSet(mine) /\ n <= Cardinality(T)
    BY <2>2, <2>4, FS_Injection
  <2> QED BY <2>3, <2>5, <2>6, FS_CardinalityType
<1> HIDE DEF mine, n
<1>5. ASSUME NEW d \in mine
      PROVE  /\ turn'[d] \in Turn /\ turn'[d] # None
             /\ turn'[d].keeper = h /\ turn'[d].place = PlaceIn(s, d)
             /\ PlaceIn(s, d) \in Nat
  <2> DEFINE place == PlaceIn(s, d)
  <2>1. turn[d] \in Turn /\ turn[d].keeper = h /\ d \in Doors
    BY <1>2 DEF RoundsTypeOK, Mine, mine
  <2>2. place \in 1 .. LastPlace /\ place \in Nat
    BY <1>3, <1>4
  <2>3. turn'[d] = [turn[d] EXCEPT !.place = place]
    BY <1>1, <2>1
  <2> HIDE DEF place
  <2>4. turn'[d] \in Turn /\ turn'[d].keeper = h /\ turn'[d].place = place
    BY <2>1, <2>2, <2>3 DEF Turn
  <2> QED BY <2>2, <2>4, RoundsAssumption DEF place
<1>6. \A d \in Doors \ mine : turn'[d] = turn[d]
  BY <1>1
<1>7. turn' \in [Doors -> Turn \cup {None}]
  <2>1. \A d \in Doors : turn'[d] \in Turn \cup {None}
    BY <1>2, <1>5, <1>6 DEF RoundsTypeOK
  <2> QED BY <1>1, <2>1
<1>8. InTurn(s, mine) \in SUBSET (Doors \X Doors)
  BY <1>2 DEF InTurn
<1>9. given' \in [Keepers -> SUBSET (Doors \X Doors)]
  BY <1>1, <1>2, <1>8 DEF RoundsTypeOK
<1>10. \A c, d \in mine : PlaceIn(s, c) = PlaceIn(s, d) => c = d
  BY <1>3
<1>11. \A k \in Keepers : Mine(k)' = Mine(k) /\ Mine(k) \subseteq Doors
  <2> SUFFICES ASSUME NEW k \in Keepers, NEW d \in Doors
               PROVE  turn'[d] # None /\ turn'[d].keeper = k <=> turn[d] # None /\ turn[d].keeper = k
    BY DEF Mine
  <2>1. CASE d \in mine
    <3>1. turn[d] # None /\ turn[d].keeper = h
      BY <2>1 DEF mine, Mine
    <3> QED BY <1>5, <2>1, <3>1
  <2>2. CASE d \notin mine
    BY <1>6, <2>2
  <2> QED BY <2>1, <2>2
<1>12. ASSUME NEW k \in Keepers \ {h}
       PROVE  /\ MyRooms(k)' = given'[k]
              /\ \A c, d \in Mine(k)' : turn'[c].place = turn'[d].place => c = d
  <2>1. \A d \in Mine(k) : turn'[d] = turn[d]
    BY <1>6, <1>11 DEF Mine, mine
  <2>2. MyRooms(k)' = MyRooms(k)
    BY <1>11, <2>1 DEF MyRooms
  <2>3. given'[k] = given[k]
    BY <1>1, <1>2 DEF RoundsTypeOK
  <2> QED BY <1>2, <1>11, <2>1, <2>2, <2>3 DEF RoundsAsGiven, PlacesApart
<1>13. MyRooms(h)' = given'[h]
  <2>1. given'[h] = InTurn(s, mine) /\ Mine(h)' = mine
    BY <1>1, <1>2, <1>11 DEF RoundsTypeOK, mine
  <2>2. \A c, d \in mine :
          PlaceIn(s, c) <= PlaceIn(s, d) <=>
            \/ turn'[c].place < turn'[d].place
            \/ turn'[c].place = turn'[d].place /\ c <= d
    <3> SUFFICES ASSUME NEW c \in mine, NEW d \in mine
                 PROVE  PlaceIn(s, c) <= PlaceIn(s, d) <=>
                          \/ turn'[c].place < turn'[d].place
                          \/ turn'[c].place = turn'[d].place /\ c <= d
      OBVIOUS
    <3>1. /\ turn'[c].place = PlaceIn(s, c) /\ turn'[d].place = PlaceIn(s, d)
          /\ PlaceIn(s, c) \in Nat /\ PlaceIn(s, d) \in Nat
      BY <1>5
    <3>2. PlaceIn(s, c) = PlaceIn(s, d) => c = d
      BY <1>10
    <3>3. c \in Nat /\ d \in Nat
      BY <1>2, RoundsAssumption
    <3> QED BY <3>1, <3>2, <3>3
  <2> QED BY <2>1, <2>2 DEF MyRooms, InTurn
<1>14. \A c, d \in Mine(h)' : turn'[c].place = turn'[d].place => c = d
  BY <1>5, <1>10, <1>11 DEF mine
<1> QED BY <1>1, <1>2, <1>7, <1>9, <1>12, <1>13, <1>14
        DEF RoundsInv, RoundsTypeOK, RoundsAsGiven, PlacesApart

LEMMA TakeBackKeeps ==
    ASSUME RoundsInv, NEW d \in Doors, TakeBack(d)
    PROVE  RoundsInv'
<1>1. /\ turn' = [c \in Doors |-> IF c \in {d} THEN None ELSE turn[c]]
      /\ given' = Dropped({d}) /\ UNCHANGED <<door, spent>>
  BY DEF TakeBack, RoundsInv, RoundsTypeOK
<1>2. /\ RoundsAsGiven' /\ PlacesApart' /\ turn' \in [Doors -> Turn \cup {None}]
      /\ given' \in [Keepers -> SUBSET (Doors \X Doors)]
  BY <1>1, RowsLeave
<1> QED BY <1>1, <1>2 DEF RoundsInv, RoundsTypeOK

LEMMA PassTurnKeeps ==
    ASSUME RoundsInv, NEW d \in Doors, PassTurn(d)
    PROVE  RoundsInv'
<1>1. /\ turn' = [c \in Doors |-> IF c \in {d} THEN None ELSE turn[c]]
      /\ given' = Dropped({d}) /\ door' = [door EXCEPT ![d] = "inspected"]
  BY DEF PassTurn, RoundsInv, RoundsTypeOK
<1>2. /\ RoundsAsGiven' /\ PlacesApart' /\ turn' \in [Doors -> Turn \cup {None}]
      /\ given' \in [Keepers -> SUBSET (Doors \X Doors)]
  BY <1>1, RowsLeave
<1>3. door' \in [Doors -> DoorStatus]
  BY <1>1 DEF RoundsInv, RoundsTypeOK, DoorStatus
<1>4. spent' \in [Keepers -> 0 .. LastPlace]
  <2>1. \A h \in Keepers : d \in Mine(h) => turn[d].place \in 0 .. LastPlace
    BY RoundsAssumption DEF RoundsInv, RoundsTypeOK, Mine, Turn
  <2> QED BY <2>1 DEF PassTurn, RoundsInv, RoundsTypeOK
<1> QED BY <1>2, <1>3, <1>4 DEF RoundsInv, RoundsTypeOK

LEMMA PutOutKeeps ==
    ASSUME RoundsInv, NEW d \in Doors, PutOut(d)
    PROVE  RoundsInv'
<1>1. /\ turn' = [c \in Doors |-> IF c \in {d} THEN None ELSE turn[c]]
      /\ given' = Dropped({d}) /\ door' = [door EXCEPT ![d] = "inspected"] /\ UNCHANGED spent
  BY DEF PutOut, RoundsInv, RoundsTypeOK
<1>2. /\ RoundsAsGiven' /\ PlacesApart' /\ turn' \in [Doors -> Turn \cup {None}]
      /\ given' \in [Keepers -> SUBSET (Doors \X Doors)]
  BY <1>1, RowsLeave
<1> QED BY <1>1, <1>2 DEF RoundsInv, RoundsTypeOK, DoorStatus

LEMMA NextMorningKeeps ==
    ASSUME RoundsInv, NextMorning
    PROVE  RoundsInv'
<1> DEFINE over == {d \in Doors : turn[d] # None /\ turn[d].status # "in_progress"}
<1>1. /\ turn' = [d \in Doors |-> IF d \in over THEN None ELSE turn[d]]
      /\ given' = Dropped(over) /\ spent' = [h \in Keepers |-> 0]
      /\ \E ds \in SUBSET {d \in Doors : door[d] \in {"clean", "inspected"}} :
            door' = [d \in Doors |-> IF d \in ds THEN "dirty" ELSE door[d]]
  BY DEF NextMorning
<1>2. over \in SUBSET Doors
  OBVIOUS
<1> HIDE DEF over
<1>3. /\ RoundsAsGiven' /\ PlacesApart' /\ turn' \in [Doors -> Turn \cup {None}]
      /\ given' \in [Keepers -> SUBSET (Doors \X Doors)]
  BY <1>1, <1>2, RowsLeave
<1>4. door' \in [Doors -> DoorStatus]
  BY <1>1 DEF RoundsInv, RoundsTypeOK, DoorStatus
<1>5. spent' \in [Keepers -> 0 .. LastPlace]
  BY <1>1, RoundsAssumption
<1> QED BY <1>3, <1>4, <1>5 DEF RoundsInv, RoundsTypeOK

\* How far a room is says nothing of where it stands.
LEMMA StatusKeeps ==
    ASSUME RoundsInv, NEW d \in Doors, NEW status \in {"assigned", "in_progress", "done"},
           turn' = IF turn[d] = None THEN turn ELSE [turn EXCEPT ![d].status = status],
           door' \in [Doors -> DoorStatus], UNCHANGED <<spent, given>>
    PROVE  RoundsInv'
<1>0. RoundsTypeOK
  BY DEF RoundsInv
<1>1. ASSUME turn[d] # None
      PROVE  /\ turn'[d] \in Turn /\ turn'[d].keeper = turn[d].keeper
             /\ turn'[d].place = turn[d].place /\ \A c \in Doors \ {d} : turn'[c] = turn[c]
  <2>1. turn[d] \in Turn
    BY <1>0, <1>1 DEF RoundsTypeOK
  <2>2. turn'[d] = [turn[d] EXCEPT !.status = status]
    BY <1>0, <1>1 DEF RoundsTypeOK
  <2>3. \A c \in Doors \ {d} : turn'[c] = turn[c]
    BY <1>0, <1>1 DEF RoundsTypeOK
  <2> QED BY <2>1, <2>2, <2>3 DEF Turn
<1>2. turn' \in [Doors -> Turn \cup {None}]
  <2>1. CASE turn[d] = None
    BY <1>0, <2>1 DEF RoundsTypeOK
  <2>2. CASE turn[d] # None
    <3>1. \A c \in Doors : turn'[c] \in Turn \cup {None}
      BY <1>0, <1>1, <2>2 DEF RoundsTypeOK
    <3>2. turn' = [c \in Doors |-> turn'[c]]
      BY <1>0, <2>2 DEF RoundsTypeOK
    <3> QED BY <3>1, <3>2
  <2> QED BY <2>1, <2>2
<1>3. \A c \in Doors : /\ turn'[c] = None <=> turn[c] = None
                       /\ turn[c] # None => /\ turn'[c].keeper = turn[c].keeper
                                            /\ turn'[c].place = turn[c].place
  BY <1>1, RoundsAssumption
<1>4. RoundsAsGiven' /\ PlacesApart'
  BY <1>3, SameRows
<1> QED BY <1>0, <1>2, <1>4 DEF RoundsInv, RoundsTypeOK

LEMMA RoundsAlways == RoundsSpec => []RoundsInv
<1>1. RoundsInit => RoundsInv
  <2> SUFFICES ASSUME RoundsInit PROVE RoundsInv
    OBVIOUS
  <2>1. RoundsTypeOK
    BY RoundsAssumption DEF RoundsInit, RoundsTypeOK, DoorStatus
  <2>2. \A h \in Keepers : Mine(h) = {} /\ given[h] = {}
    BY DEF RoundsInit, Mine
  <2> QED BY <2>1, <2>2 DEF RoundsInv, RoundsAsGiven, PlacesApart, MyRooms
<1>2. RoundsInv /\ [RoundsNext]_roundsVars => RoundsInv'
  <2> SUFFICES ASSUME RoundsInv, [RoundsNext]_roundsVars PROVE RoundsInv'
    OBVIOUS
  <2>0. RoundsTypeOK
    BY DEF RoundsInv
  <2>1. ASSUME NEW h \in Keepers, NEW ds \in SUBSET Doors, NEW s \in ListsOf(ds), GiveRooms(h, s)
        PROVE  RoundsInv'
    BY <2>1, GiveRoomsKeeps
  <2>2. ASSUME NEW h \in Keepers, NEW s \in ListsOf(Mine(h)), ReorderRooms(h, s) PROVE RoundsInv'
    BY <2>2, ReorderRoomsKeeps
  <2>3. ASSUME NEW h \in Keepers, NEW d \in Doors, SelfStart(h, d) PROVE RoundsInv'
    BY <2>3, SelfStartKeeps
  <2>4. ASSUME NEW d \in Doors, TakeBack(d) PROVE RoundsInv'
    BY <2>4, TakeBackKeeps
  <2>5. ASSUME NEW d \in Doors, StartTurn(d) PROVE RoundsInv'
    <3>1. door' \in [Doors -> DoorStatus]
      BY <2>0, <2>5 DEF StartTurn, RoundsTypeOK, DoorStatus
    <3>2. /\ turn[d] # None /\ turn' = [turn EXCEPT ![d].status = "in_progress"]
          /\ UNCHANGED <<spent, given>>
      BY <2>5 DEF StartTurn
    <3> QED BY <3>1, <3>2, StatusKeeps
  <2>6. ASSUME NEW d \in Doors, FinishTurn(d) PROVE RoundsInv'
    <3>1. door' \in [Doors -> DoorStatus]
      BY <2>0, <2>6 DEF FinishTurn, RoundsTypeOK, DoorStatus
    <3>2. /\ turn[d] # None /\ turn' = [turn EXCEPT ![d].status = "done"]
          /\ UNCHANGED <<spent, given>>
      BY <2>6 DEF FinishTurn
    <3> QED BY <3>1, <3>2, StatusKeeps
  <2>7. ASSUME NEW d \in Doors, PassTurn(d) PROVE RoundsInv'
    BY <2>7, PassTurnKeeps
  <2>8. ASSUME NEW d \in Doors, ReturnTurn(d) PROVE RoundsInv'
    <3>1. door' \in [Doors -> DoorStatus]
      BY <2>0, <2>8 DEF ReturnTurn, RoundsTypeOK, DoorStatus
    <3>2. /\ turn' = IF turn[d] = None THEN turn ELSE [turn EXCEPT ![d].status = "assigned"]
          /\ UNCHANGED <<spent, given>>
      BY <2>8 DEF ReturnTurn
    <3> QED BY <3>1, <3>2, StatusKeeps
  <2>9. ASSUME NEW d \in Doors, Soil(d) PROVE RoundsInv'
    <3>1. door' \in [Doors -> DoorStatus]
      BY <2>0, <2>9 DEF Soil, RoundsTypeOK, DoorStatus
    <3>2. UNCHANGED <<turn, spent, given>>
      BY <2>9 DEF Soil
    <3>3. RoundsAsGiven' /\ PlacesApart'
      BY <3>2, SameRows
    <3> QED BY <2>0, <3>1, <3>2, <3>3 DEF RoundsInv, RoundsTypeOK
  <2>10. ASSUME NEW d \in Doors, PutOut(d) PROVE RoundsInv'
    BY <2>10, PutOutKeeps
  <2>11. CASE NextMorning
    BY <2>11, NextMorningKeeps
  <2>12. CASE UNCHANGED roundsVars
    <3>1. UNCHANGED <<door, turn, spent, given>>
      BY <2>12 DEF roundsVars
    <3>2. RoundsAsGiven' /\ PlacesApart'
      BY <3>1, SameRows
    <3> QED BY <2>0, <3>1, <3>2 DEF RoundsInv, RoundsTypeOK
  <2> QED BY <2>1, <2>2, <2>3, <2>4, <2>5, <2>6, <2>7, <2>8, <2>9, <2>10, <2>11, <2>12
          DEF RoundsNext
<1> QED BY <1>1, <1>2, PTL DEF RoundsSpec

\* A housekeeper's list is in the order it was asked for, for any number of rooms and
\* housekeepers (hk_assignments.py:67-93, 115-132; hk_views.py:141-145): for the next place is
\* behind every one on the list (hk_rooms.py:183-188), so that no two rooms of one list ever
\* share a place, whatever is handed on, taken back, passed, failed or carried over.
THEOREM RoundsStayAsGiven == RoundsSpec => []RoundsAsGiven
<1>1. RoundsInv => RoundsAsGiven
  BY DEF RoundsInv
<1> QED BY <1>1, RoundsAlways, PTL

----------------------------------------------------------------------------
\* The parts together.

\* A step of the whole is a step of one part, and the others stand still.
LEMMA UpkeepStep ==
    ASSUME [Next]_upkeepVars
    PROVE  /\ [SweepNext]_sweepVars /\ [OrdersNext]_ordersVars /\ [PlansNext]_plansVars
           /\ [SheetNext]_sheetVars /\ [LedgerNext]_ledgerVars /\ [RoundsNext]_roundsVars
<1>1. CASE Next
  BY <1>1 DEF Next, Others
<1>2. CASE UNCHANGED upkeepVars
  BY <1>2 DEF upkeepVars
<1> QED BY <1>1, <1>2

\* What happens in the whole is, for each part, something that happens in it alone.
LEMMA UpkeepParts ==
    Spec => SweepSpec /\ OrdersSpec /\ PlansSpec /\ SheetSpec /\ LedgerSpec /\ RoundsSpec
<1>1. Init => /\ SweepInit /\ OrdersInit /\ PlansInit /\ SheetInit /\ LedgerInit
              /\ RoundsInit
  BY DEF Init
<1> QED
  BY <1>1, UpkeepStep, PTL
  DEF Spec, SweepSpec, OrdersSpec, PlansSpec, SheetSpec, LedgerSpec, RoundsSpec

\* Every variable of every part has its type, for any orders, threads, templates, units and
\* rooms, and however long a tick takes (pm_runs.py, work_orders.py, pm_templates.py,
\* housekeeping.py).
THEOREM UpkeepTyped == Spec => []UpkeepTypeOK
<1>1. LedgerSpec => []LedgerTypeOK
  <2>1. LedgerInv => LedgerTypeOK
    BY DEF LedgerInv
  <2> QED BY <2>1, LedgerAlways, PTL
<1>2. RoundsSpec => []RoundsTypeOK
  <2>1. RoundsInv => RoundsTypeOK
    BY DEF RoundsInv
  <2> QED BY <2>1, RoundsAlways, PTL
<1>3. SheetSpec => []SheetTypeOK
  BY SheetAlways, PTL
<1>4. SweepTypeOK /\ OrdersTypeOK /\ PlansTypeOK /\ SheetTypeOK /\ LedgerTypeOK /\ RoundsTypeOK
        => UpkeepTypeOK
  BY DEF UpkeepTypeOK
<1> QED
  BY <1>1, <1>2, <1>3, <1>4, UpkeepParts, SweepTyped, OrdersTyped, PlansTyped, PTL

\* What each part promises it keeps beside the others: no tick goes past an instant, no run
\* is driven and no prompt resolved within a PATCH of the same order (queue/handlers/pm.py,
\* work_orders.py:228-330).
THEOREM UpkeepHolds ==
    ASSUME ~Overrun, Overlapping \subseteq {"patch"}
    PROVE  Spec => /\ [](ClosedAccounts /\ CycleOfTheMonth /\ OnePendingPrompt /\ RunMovesOrder)
                   /\ [](ScheduleKept /\ SheetSettles /\ LedgerAgrees /\ RoundsAsGiven)
                   /\ EvidenceFrozen /\ CompletionProposes
<1>1. "run" \notin Overlapping /\ "prompt" \notin Overlapping
  OBVIOUS
<1>2. (OrdersSpec => []RunMovesOrder) /\ (OrdersSpec => CompletionProposes)
  BY <1>1, RunsMoveOrders, CompletionsPropose
<1>3. PlansSpec => []ScheduleKept
  BY SchedulesKept
<1> QED
  BY <1>2, <1>3, UpkeepParts, ClosedCyclesAccount, CycleIsTheMonths, EvidenceStays, OnePrompt,
     SheetAlwaysSettles, LedgerAlwaysAgrees, RoundsStayAsGiven, PTL
=============================================================================
