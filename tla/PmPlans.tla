------------------------------ MODULE PmPlans -------------------------------
(***************************************************************************)
(* The maintenance templates of a property beside one another: create and  *)
(* patch of domain/pm_templates.py, and phase B of queue/handlers/pm.py,   *)
(* which makes the runs of the scheduled ones.  Sweep has the cycles of a  *)
(* sweep template, WorkOrders what becomes of a scheduled run.             *)
(*                                                                         *)
(* Requests are transactions one after another; pm.tick reads all          *)
(* templates, and any number of requests are handled before it commits.    *)
(* Only instants at which some rule may have an occurrence are counted.    *)
(* The runs of an occurrence, one a unit, are written together.            *)
(***************************************************************************)
EXTENDS Naturals, FiniteSets, Table

CONSTANTS
    Plans,     \* templates, those not yet created included
    Kinds,     \* kinds of unit
    Rules,     \* a recurrence rule with its start: the instants at which it is due
    LastTime,  \* bounds the instants
    Scheduled, \* the templates that may be scheduled; bounds the states
    Overrun    \* a tick may still be under way at the next instant

Instants == 0 .. LastTime

\* What a request says of a template; cadence: one is given.
Fields == [mode : {"sweep", "scheduled"}, kind : Kinds \cup {None}, cadence : BOOLEAN,
           rule : Rules \cup {None}]

\* _validate_mode_fields, and the CHECK of the table.
Valid(f) ==
    \/ f.mode = "sweep" /\ f.kind # None /\ f.cadence /\ f.rule = None
    \/ f.mode = "scheduled" /\ f.rule # None /\ ~f.cadence

Plan == [fields : {f \in Fields : Valid(f)}, active : BOOLEAN, last : Instants \cup {None}]

Firing == [now : Instants, due : [Plans -> SUBSET Instants], plans : SUBSET Plans,
           aimed : SUBSET Plans]

ASSUME PlansAssumption ==
    /\ LastTime \in Nat
    /\ Rules \subseteq SUBSET Instants
    /\ None \notin Nat \cup Kinds \cup Rules \cup Plan \cup Firing
    /\ Scheduled \subseteq Plans
    /\ Overrun \in BOOLEAN

VARIABLES
    instant, \* now
    plan,    \* each template's row, None while there is no such template
    aimed,   \* the templates with an active unit among those they target
    runs,    \* how often the runs of an occurrence were made
    swept,   \* the templates with a run in a cycle
    firing,  \* what a tick under way has read
    since,   \* history: from when a template was active with its present rule
    visited,  \* history: the last tick that went through it
    bare     \* history: the occurrences a tick found no unit for

plansVars == <<instant, plan, aimed, runs, swept, firing, since, visited, bare>>

Due(row) == row.active /\ row.fields.mode = "scheduled"

\* has_runs
HasRuns(p) == p \in swept \/ \E o \in Instants : runs[p][o] > 0

\* _assert_single_active_sweep
Sole(p, f, active) ==
    active /\ f.mode = "sweep" =>
        ~\E q \in Plans \ {p} : /\ plan[q] # None /\ plan[q].active
                                /\ plan[q].fields.mode = "sweep" /\ plan[q].fields.kind = f.kind

\* Slip: one that is switched on goes on from where it was.
FromSlip(row, f, active) ==
    IF f.mode = "scheduled" /\ (f.mode # row.fields.mode \/ f.rule # row.fields.rule)
    THEN instant ELSE row.last

\* last_fired_at after a patch: a changed schedule, or one switched on, starts now.
From(row, f, active) ==
    IF /\ f.mode = "scheduled"
       /\ \/ f.mode # row.fields.mode \/ f.rule # row.fields.rule
          \/ ~row.active /\ active
    THEN instant ELSE row.last

\* Slip: the left edge is not dropped.
OccurrencesSlip(row) ==
    IF row.last = None THEN {} ELSE {o \in row.fields.rule : row.last <= o /\ o <= instant}

\* occurrences_between
Occurrences(row) ==
    IF row.last = None THEN {} ELSE {o \in row.fields.rule : row.last < o /\ o <= instant}

----------------------------------------------------------------------------
PlansInit ==
    /\ instant = 0
    /\ plan = [p \in Plans |-> None]
    /\ aimed = {}
    /\ runs = [p \in Plans |-> [o \in Instants |-> 0]]
    /\ swept = {}
    /\ firing = None
    /\ since = [p \in Plans |-> 0]
    /\ visited = [p \in Plans |-> 0]
    /\ bare = [p \in Plans |-> {}]

\* create, with the units it targets
CreatePlan(p, f, active) ==
    /\ plan[p] = None
    /\ Valid(f)
    /\ Sole(p, f, active)
    /\ plan' = [plan EXCEPT ![p] = [fields |-> f, active |-> active,
                    last |-> IF f.mode = "scheduled" THEN instant ELSE None]]
    /\ \E us \in {aimed, aimed \cup {p}} : aimed' = us
    /\ since' = [since EXCEPT ![p] = instant]
    /\ UNCHANGED <<instant, runs, swept, firing, visited, bare>>

\* patch: any of the fields, the others as they are.
PatchPlan(p, f, active) ==
    /\ plan[p] # None
    /\ f.mode # plan[p].fields.mode => ~HasRuns(p)
    /\ Valid(f)
    /\ Sole(p, f, active)
    /\ plan' = [plan EXCEPT ![p] = [fields |-> f, active |-> active,
                                    last |-> From(plan[p], f, active)]]
    /\ since' = IF Due(plan[p]) /\ plan[p].fields.rule = f.rule THEN since
                ELSE [since EXCEPT ![p] = instant]
    /\ UNCHANGED <<instant, aimed, runs, swept, firing, visited, bare>>

\* _set_units, or a unit is switched on or off (pm_units.patch): a template loses its last
\* active one, or has one again.
AimPlan(p) ==
    /\ plan[p] # None
    /\ aimed' = IF p \in aimed THEN aimed \ {p} ELSE aimed \cup {p}
    /\ UNCHANGED <<instant, plan, runs, swept, firing, since, visited, bare>>

\* pm_runs.start
StartSweepRun(p) ==
    /\ plan[p] # None /\ plan[p].active /\ plan[p].fields.mode = "sweep"
    /\ swept' = swept \cup {p}
    /\ UNCHANGED <<instant, plan, aimed, runs, firing, since, visited, bare>>

\* fire_scheduled reads the active scheduled templates and their units.
FireReads ==
    /\ firing = None
    /\ LET ps == {p \in Plans : plan[p] # None /\ Due(plan[p])} IN
       firing' = [now |-> instant, plans |-> ps, aimed |-> aimed \cap ps,
                  due |-> [p \in Plans |-> IF p \in ps THEN Occurrences(plan[p]) ELSE {}]]
    /\ UNCHANGED <<instant, plan, aimed, runs, swept, since, visited, bare>>

\* It writes the runs, and last_fired_at over whatever a patch has made of it.
FireCommits ==
    /\ firing # None
    /\ runs' = [p \in Plans |-> [o \in Instants |->
                    IF p \in firing.aimed /\ o \in firing.due[p] THEN runs[p][o] + 1
                    ELSE runs[p][o]]]
    /\ plan' = [p \in Plans |-> IF p \in firing.plans THEN [plan[p] EXCEPT !.last = firing.now]
                                ELSE plan[p]]
    /\ visited' = [p \in Plans |-> IF p \in firing.plans THEN firing.now ELSE visited[p]]
    /\ bare' = [p \in Plans |-> IF p \in firing.aimed THEN bare[p]
                                ELSE bare[p] \cup firing.due[p]]
    /\ firing' = None
    /\ UNCHANGED <<instant, aimed, swept, since>>

\* Its transaction fails; the job is retried.
FireFails ==
    /\ firing # None
    /\ firing' = None
    /\ UNCHANGED <<instant, plan, aimed, runs, swept, since, visited, bare>>

\* Time passes, whether or not the worker runs.
Later ==
    /\ instant < LastTime
    /\ firing = None \/ Overrun
    /\ instant' = instant + 1
    /\ UNCHANGED <<plan, aimed, runs, swept, firing, since, visited, bare>>

PlansNext ==
    \/ \E p \in Plans :
        \/ \E f \in Fields, active \in BOOLEAN :
            /\ f.mode = "scheduled" => p \in Scheduled
            /\ CreatePlan(p, f, active) \/ PatchPlan(p, f, active)
        \/ AimPlan(p) \/ StartSweepRun(p)
    \/ FireReads \/ FireCommits \/ FireFails \/ Later

PlansSpec == PlansInit /\ [][PlansNext]_plansVars

----------------------------------------------------------------------------
PlansTypeOK ==
    /\ instant \in Instants
    /\ plan \in [Plans -> Plan \cup {None}]
    /\ aimed \in SUBSET Plans /\ swept \in SUBSET Plans
    /\ runs \in [Plans -> [Instants -> Nat]]
    /\ firing \in Firing \cup {None}
    /\ since \in [Plans -> Instants] /\ visited \in [Plans -> Instants]
    /\ bare \in [Plans -> SUBSET Instants]

\* A schedule is kept, whatever is edited, switched off and on again or done while a tick
\* is under way: of the occurrences since a template was switched on with its present rule,
\* each that a tick has gone past has its runs, once, and no other has any ("must not fire
\* twice", queue/handlers/pm.py:46-48); and those that passed while it slept, or before its
\* rule was changed, the next tick does not make up for ("never backfills",
\* pm_templates.py:197-198).
ScheduleKept ==
    \A p \in Plans : plan[p] # None /\ Due(plan[p]) =>
        /\ \A o \in Instants : o > since[p] =>
             runs[p][o] = IF o \in plan[p].fields.rule \ bare[p] /\ o <= visited[p] THEN 1 ELSE 0
        /\ \A o \in Occurrences(plan[p]) : o > since[p]
=============================================================================
