----------------------------- MODULE WorkOrders -----------------------------
(***************************************************************************)
(* Work orders, the draft prompt a completed one leaves in its guest's     *)
(* conversation, and the scheduled maintenance run an order may belong to. *)
(* domain/work_orders.py, draft_prompts.py, api/work_orders.py, and of     *)
(* pm_runs.py, pm_inspection.py and queue/handlers/pm.py what they do to   *)
(* the order of a scheduled run.                                           *)
(*                                                                         *)
(* A PATCH reads the order and decides; its flush waits for the row's lock *)
(* (SQLite: the database's) and from then on it looks for a prompt; its    *)
(* commit makes both visible.  Other operations are one step.  Priority,   *)
(* comments, photos, events and notifications decide nothing and are left  *)
(* out, and so is the assignee: assigning reads and writes the status only.*)
(***************************************************************************)
EXTENDS Naturals, Table

CONSTANTS
    Orders,      \* work orders; bounds their number
    Threads,     \* request threads
    Overlapping  \* the operations ("patch", "run", "prompt") on an order that may overlap
                 \* a PATCH of it

VARIABLES
    order,   \* the status of a work order, None while there is no such order
    origin,  \* raised from a conversation, from a schedule, or neither
    run,     \* the status of a scheduled order's maintenance run
    prompts, \* an order's prompts: how many are pending; whether one was ever resolved
    request  \* the PATCH a thread is handling

ordersVars == <<order, origin, run, prompts, request>>

Status == {"open", "assigned", "in_progress", "blocked", "complete", "verified", "cancelled"}
Origin == {"conversation", "schedule", "other"}
PmStatus == {"none", "pending", "in_progress", "completed", "passed", "failed"}
Assigning == {"no", "user", "clear"}

\* status: as it was read, then as it is to be; writes: it is written; adds: with a new prompt.
Patch == [phase : {"read", "written"}, order : Orders, status : Status, writes : BOOLEAN,
          adds : BOOLEAN]

ASSUME OrdersAssumption ==
    /\ Overlapping \subseteq {"patch", "run", "prompt"}
    /\ None \notin Status \cup Patch

TRANSITIONS ==
    [s \in Status |->
        CASE s = "open"        -> {"assigned", "in_progress", "cancelled"}
          [] s = "assigned"    -> {"in_progress", "open", "cancelled"}
          [] s = "in_progress" -> {"blocked", "complete", "cancelled"}
          [] s = "blocked"     -> {"in_progress", "cancelled"}
          [] s = "complete"    -> {"verified", "in_progress"}
          [] OTHER             -> {}]

Exists(o) == order[o] # None
Locked(o) == \E t \in Threads : request[t] # None /\ request[t].phase = "written"
                                                  /\ request[t].order = o
MayBegin(op, o) ==
    \/ {op, "patch"} \subseteq Overlapping
    \/ \A t \in Threads : request[t] # None => request[t].order # o

\* assign: who is assigned moves an open order on, a cleared assignee moves it back.
\* (One that is cleared and given at once comes to the same as one that is given.)
AfterAssign(s, how) ==
    CASE how = "user" /\ s = "open" -> "assigned"
      [] how = "clear" /\ s = "assigned" -> "open"
      [] OTHER -> s

\* The definitions named ..Slip are mistakes one could make in the next one: the
\* checks are tried on them, and the specification does not use them.
ProposedSlip(o) == prompts[o].pending > 0 \/ prompts[o].resolved

\* create_for_completion finds a prompt of the order that is pending.
Proposed(o) == prompts[o].pending > 0

----------------------------------------------------------------------------
OrdersInit ==
    /\ order = [o \in Orders |-> None]
    /\ origin = [o \in Orders |-> "other"]
    /\ run = [o \in Orders |-> "none"]
    /\ prompts = [o \in Orders |-> [pending |-> 0, resolved |-> FALSE]]
    /\ request = [t \in Threads |-> None]

\* create, from the board or a conversation.
Create(o, from, s) ==
    /\ ~Exists(o)
    /\ order' = [order EXCEPT ![o] = s]
    /\ origin' = [origin EXCEPT ![o] = from]
    /\ UNCHANGED <<run, prompts, request>>

\* _create_scheduled_run: an order and its run.
FireSchedule(o) ==
    /\ ~Exists(o)
    /\ order' = [order EXCEPT ![o] = "open"]
    /\ origin' = [origin EXCEPT ![o] = "schedule"]
    /\ run' = [run EXCEPT ![o] = "pending"]
    /\ UNCHANGED <<prompts, request>>

\* patch_work_order reads the order...
PatchReads(t, o) ==
    /\ MayBegin("patch", o)
    /\ request[t] = None
    /\ Exists(o)
    /\ request' = [request EXCEPT ![t] = [phase |-> "read", order |-> o, status |-> order[o],
                                          writes |-> FALSE, adds |-> FALSE]]
    /\ UNCHANGED <<order, origin, run, prompts>>

\* Slip: the pending prompt is looked for before the flush, so without the lock.
PatchFlushesSlip(t, how, to) ==
    /\ request[t] # None
    /\ LET r == request[t]
           s == AfterAssign(r.status, how)
       IN  /\ r.phase = "read"
           /\ to = s \/ to \in TRANSITIONS[s]
           /\ request' = [request EXCEPT ![t].phase = "written", ![t].status = to,
                  ![t].writes = (s # r.status \/ to # s),
                  ![t].adds = (to = "complete" /\ s # to /\ origin[r.order] = "conversation"
                               /\ ~Proposed(r.order))]
    /\ UNCHANGED <<order, origin, run, prompts>>

\* ... assigns and moves it as it was read, and flushes: it has the row's lock.  On
\* completion it looks for a pending prompt, and adds one if it sees none.
PatchFlushes(t, how, to) ==
    /\ request[t] # None
    /\ LET r == request[t]
           s == AfterAssign(r.status, how)
       IN  /\ r.phase = "read"
           /\ ~Locked(r.order)
           /\ to = s \/ to \in TRANSITIONS[s]
           /\ request' = [request EXCEPT ![t].phase = "written", ![t].status = to,
                  ![t].writes = (s # r.status \/ to # s),
                  ![t].adds = (to = "complete" /\ s # to /\ origin[r.order] = "conversation"
                               /\ ~Proposed(r.order))]
    /\ UNCHANGED <<order, origin, run, prompts>>

\* A status it has not moved is not written.
PatchCommits(t) ==
    /\ request[t] # None
    /\ LET r == request[t]
       IN  /\ r.phase = "written"
           /\ order' = IF r.writes THEN [order EXCEPT ![r.order] = r.status] ELSE order
           /\ prompts' = IF r.adds THEN [prompts EXCEPT ![r.order].pending = @ + 1] ELSE prompts
    /\ request' = [request EXCEPT ![t] = None]
    /\ UNCHANGED <<origin, run>>

\* assert_transition refuses, or the request fails: nothing is written.
PatchFails(t) ==
    /\ request[t] # None
    /\ request' = [request EXCEPT ![t] = None]
    /\ UNCHANGED <<order, origin, run, prompts>>

\* dismiss, or messages.send with the prompt's id.
ResolvePrompt(o) ==
    /\ MayBegin("prompt", o)
    /\ prompts[o].pending > 0
    /\ prompts' = [prompts EXCEPT ![o] = [pending |-> @.pending - 1, resolved |-> TRUE]]
    /\ UNCHANGED <<order, origin, run, request>>

\* Slip: an assigned order stays assigned.
BeginRunSlip(o) ==
    /\ MayBegin("run", o)
    /\ run[o] = "pending"
    /\ ~Locked(o)
    /\ run' = [run EXCEPT ![o] = "in_progress"]
    /\ order' = IF order[o] = "open" THEN [order EXCEPT ![o] = "in_progress"] ELSE order
    /\ UNCHANGED <<origin, prompts, request>>

\* begin_pending
BeginRun(o) ==
    /\ MayBegin("run", o)
    /\ run[o] = "pending"
    /\ ~Locked(o)
    /\ run' = [run EXCEPT ![o] = "in_progress"]
    /\ order' = IF order[o] \in {"open", "assigned"} THEN [order EXCEPT ![o] = "in_progress"]
                ELSE order
    /\ UNCHANGED <<origin, prompts, request>>

\* complete: the order goes first, and one that is blocked refuses.  Every answer that
\* is out of range raises an order.
CompleteRun(o, raised) ==
    /\ MayBegin("run", o)
    /\ run[o] = "in_progress"
    /\ ~Locked(o)
    /\ order[o] # "blocked"
    /\ run' = [run EXCEPT ![o] = "completed"]
    /\ raised \cap {x \in Orders : Exists(x)} = {}
    /\ order' = [x \in Orders |->
                    IF x \in raised THEN "open"
                    ELSE IF x = o /\ order[o] \in {"open", "assigned", "in_progress"} THEN "complete"
                    ELSE order[x]]
    /\ UNCHANGED <<origin, prompts, request>>

\* inspect: a pass verifies the order if it is complete.
InspectRun(o, result) ==
    /\ MayBegin("run", o)
    /\ run[o] = "completed"
    /\ ~Locked(o)
    /\ run' = [run EXCEPT ![o] = result]
    /\ order' = IF result = "passed" /\ order[o] = "complete"
                  THEN [order EXCEPT ![o] = "verified"] ELSE order
    /\ UNCHANGED <<origin, prompts, request>>

OrdersNext ==
    \/ \E o \in Orders :
        \/ \E from \in {"conversation", "other"}, s \in {"open", "assigned"} : Create(o, from, s)
        \/ FireSchedule(o)
        \/ ResolvePrompt(o)
        \/ BeginRun(o)
        \/ \E raised \in SUBSET Orders : CompleteRun(o, raised)
        \/ \E result \in {"passed", "failed"} : InspectRun(o, result)
        \/ \E t \in Threads : PatchReads(t, o)
    \/ \E t \in Threads :
        \/ \E how \in Assigning, to \in Status : PatchFlushes(t, how, to)
        \/ PatchCommits(t)
        \/ PatchFails(t)

OrdersSpec == OrdersInit /\ [][OrdersNext]_ordersVars

----------------------------------------------------------------------------
\* Every variable has its type.
OrdersTypeOK ==
    /\ order \in [Orders -> Status \cup {None}]
    /\ origin \in [Orders -> Origin]
    /\ run \in [Orders -> PmStatus]
    /\ prompts \in [Orders -> [pending : Nat, resolved : BOOLEAN]]
    /\ request \in [Threads -> Patch \cup {None}]

\* A conversation is proposed one text per order, however often the order is completed
\* and by however many requests at once (create_for_completion).
OnePendingPrompt == \A o \in Orders : prompts[o].pending <= 1

\* Completing an order of a conversation always leaves a prompt to send, also when
\* another was sent or dismissed before it was reopened (transition).
CompletionProposes ==
    [][\A o \in Orders :
          origin[o] = "conversation" /\ order[o] # "complete" /\ order'[o] = "complete"
            => prompts'[o].pending > 0]_ordersVars

\* The order of a run that was begun never shows as waiting: nothing puts it back
\* among the open and assigned ones (begin_pending, TRANSITIONS, assign).
RunMovesOrder ==
    \A o \in Orders : run[o] \notin {"none", "pending"} => order[o] \notin {"open", "assigned"}
=============================================================================
