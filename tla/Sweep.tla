-------------------------------- MODULE Sweep --------------------------------
(***************************************************************************)
(* A sweep template of preventive maintenance: its cycles, its units and   *)
(* their runs.  domain/pm_cycles.py, pm_runs.py, pm_inspection.py, phase A *)
(* of queue/handlers/pm.py, pm_templates.patch, pm_units.py and the counts *)
(* of pm_reports.py.                                                       *)
(*                                                                         *)
(* Requests are transactions one after another.  pm.tick goes through all  *)
(* templates in one transaction, so between what it reads of this one and  *)
(* its commit any number of requests are handled.  The calendar is counted *)
(* in months: every window begins and ends with one.  Checklist answers    *)
(* are left out (whether a required one is missing is the environment's    *)
(* choice), and so are failed runs, which nothing reads but a list.        *)
(***************************************************************************)
EXTENDS Naturals, FiniteSets

CONSTANTS
    Units,     \* maintainable units of the property
    Spans,     \* lengths of a window in months, one per cadence; each divides the year
    LastMonth, \* bounds the calendar
    NoRead

VARIABLES
    month,  \* the month of today, in the property's time zone
    tpl,    \* the template: is it active, its cadence
    scope,  \* the active units of the template's kind
    cycles, \* for the month it starts in, the cycle's row
    rows,   \* how many runs a cycle has of a unit in each status
    read,   \* what a pm.tick under way has read of this template
    ticked, \* a pm.tick of this month has been through it since the template was last edited
    recast, \* history: the cadence was changed
    due     \* history: the units that were in scope when a cycle closed

sweepVars == <<month, tpl, scope, cycles, rows, read, ticked, recast, due>>

Months == 1 .. LastMonth
Template == [active : BOOLEAN, span : Spans]
CycleStatus == {"none", "open", "closed"}
Cycle == [status : CycleStatus, ends : Nat]
RunStatus == {"in_progress", "completed", "passed", "missed"}
Read == [today : Months, span : Spans, closing : SUBSET Months, opening : SUBSET Months,
         scope : SUBSET Units, passed : SUBSET Units]

ASSUME SweepAssumption ==
    /\ LastMonth \in Nat \ {0}
    /\ Spans \subseteq Nat \ {0}
    /\ NoRead \notin Read

\* window_for: the month the window containing today starts in, and the one it ends in.
StartOf(span, today) == today - ((today - 1) % span)
EndOf(span, today) == StartOf(span, today) + span - 1

OpenCycles == {c \in Months : cycles[c].status = "open"}
PassedIn(c) == {u \in Units : rows[c][u]["passed"] > 0}
MissedIn(c) == {u \in Units : rows[c][u]["missed"] > 0} \ PassedIn(c)

\* What the reports divide by: an open cycle's total is the scope of today.
Total(c) == CASE cycles[c].status = "open" -> Cardinality(scope)
              [] cycles[c].status = "closed" -> Cardinality(PassedIn(c) \cup MissedIn(c))
              [] OTHER -> 0

\* A run moves from a status to another; "none" is no row, and failed ones are not counted.
Moved(c, u, from, to) ==
    rows' = [rows EXCEPT ![c][u] =
                [s \in RunStatus |-> IF s = from THEN @[s] - 1 ELSE IF s = to THEN @[s] + 1 ELSE @[s]]]

\* The definitions named ..Slip are mistakes one could make in the next one: the
\* checks are tried on them, and the specification does not use them.
OpenedSlip(cs, span, today) ==
    LET s == StartOf(span, today)
    IN  IF \E c \in Months : cs[c].status = "open" /\ cs[c].ends >= today THEN cs
        ELSE [cs EXCEPT ![s] = [status |-> "open", ends |-> EndOf(span, today)]]

\* ensure_open_cycle of an active template.  A window that has run is not reopened.
Opened(cs, span, today) ==
    LET s == StartOf(span, today)
    IN  IF (\E c \in Months : cs[c].status = "open") \/ cs[s].status # "none" THEN cs
        ELSE [cs EXCEPT ![s] = [status |-> "open", ends |-> EndOf(span, today)]]

----------------------------------------------------------------------------
\* pm_templates.create, of a template that may wait to be activated.
SweepInit ==
    /\ month = 1
    /\ tpl \in Template
    /\ scope \in SUBSET Units
    /\ cycles = LET none == [c \in Months |-> [status |-> "none", ends |-> 0]]
                IN  IF tpl.active THEN Opened(none, tpl.span, month) ELSE none
    /\ rows = [c \in Months |-> [u \in Units |-> [s \in RunStatus |-> 0]]]
    /\ read = NoRead
    /\ ticked = FALSE
    /\ recast = FALSE
    /\ due = [c \in Months |-> {}]

\* pm_templates.patch: a new cadence, or kind of unit, or the template is switched.
PatchTemplate(t, inKind) ==
    /\ tpl' = t
    /\ scope' = inKind
    /\ cycles' = IF t.active THEN Opened(cycles, t.span, month) ELSE cycles
    /\ ticked' = FALSE
    /\ recast' = (recast \/ t.span # tpl.span)
    /\ UNCHANGED <<month, rows, read, due>>

\* pm_units: a unit, or a file of them, is created or edited: some enter the scope, some
\* leave it.
EditUnits(us) ==
    /\ scope' = (scope \ us) \cup (us \ scope)
    /\ UNCHANGED <<month, tpl, cycles, rows, read, ticked, recast, due>>

\* pm_runs.start, in the open cycle.  Nothing asks whether its window is over.
Start(c, u) ==
    /\ tpl.active
    /\ u \in scope
    /\ c \in OpenCycles
    /\ rows[c][u]["in_progress"] + rows[c][u]["completed"] = 0
    /\ rows[c][u]["passed"] = 0
    /\ Moved(c, u, "none", "in_progress")
    /\ UNCHANGED <<month, tpl, scope, cycles, read, ticked, recast, due>>

\* pm_runs.complete, in whatever cycle the run was started.
Complete(c, u) ==
    /\ rows[c][u]["in_progress"] > 0
    /\ Moved(c, u, "in_progress", "completed")
    /\ UNCHANGED <<month, tpl, scope, cycles, read, ticked, recast, due>>

\* Slip: any run can be inspected.
InspectSlip(c, u, result) ==
    /\ rows[c][u]["in_progress"] + rows[c][u]["completed"] > 0
    /\ Moved(c, u, "completed", result)
    /\ UNCHANGED <<month, tpl, scope, cycles, read, ticked, recast, due>>

\* pm_inspection.inspect: it passes, or fails and the unit is to be done again.
Inspect(c, u, result) ==
    /\ rows[c][u]["completed"] > 0
    /\ Moved(c, u, "completed", result)
    /\ UNCHANGED <<month, tpl, scope, cycles, read, ticked, recast, due>>

\* open_cycle: one of the open cycles there are.
OpenCycle == IF OpenCycles = {} THEN {{}} ELSE {{c} : c \in OpenCycles}

Closed(over) == [c \in Months |-> IF c \in over THEN [cycles[c] EXCEPT !.status = "closed"]
                                  ELSE cycles[c]]

\* Slip: the new window is opened before the old one is closed.
OpeningSlip(over) == {c \in Months : cycles[c] # Opened(cycles, tpl.span, month)[c]}

\* The window ensure_open_cycle opens after close_expired has closed the cycles over.
Opening(over) == {c \in Months : Closed(over)[c] # Opened(Closed(over), tpl.span, month)[c]}

\* roll_cycles reads an active template: the cycle to close, the units in scope and
\* those that have passed, and the window to open after that.
TickReads ==
    /\ read = NoRead
    /\ tpl.active
    /\ \E found \in OpenCycle :
        LET over == {c \in found : cycles[c].ends < month}
        IN  read' = [today |-> month, span |-> tpl.span, closing |-> over, scope |-> scope,
                     opening |-> Opening(over), passed |-> UNION {PassedIn(c) : c \in over}]
    /\ UNCHANGED <<month, tpl, scope, cycles, rows, ticked, recast, due>>

\* Slip: a unit whose run is under way is not missed.
MissedSlip(c, u) ==
    c \in read.closing /\ u \in read.scope \ read.passed
    /\ rows[c][u]["in_progress"] + rows[c][u]["completed"] = 0

\* close_expired: the units that get a missed row.
Missed(c, u) == c \in read.closing /\ u \in read.scope \ read.passed

\* It writes and commits.  A window has one row by uq_pm_cycle_template_start.
TickCommits ==
    /\ read # NoRead
    /\ \A c \in read.opening : cycles[c].status = "none"
    /\ cycles' = [c \in Months |-> IF c \in read.opening
                    THEN [status |-> "open", ends |-> EndOf(read.span, read.today)]
                    ELSE Closed(read.closing)[c]]
    /\ rows' = [c \in Months |-> [u \in Units |->
                    IF Missed(c, u) THEN [rows[c][u] EXCEPT !["missed"] = @ + 1] ELSE rows[c][u]]]
    /\ due' = [c \in Months |-> IF c \in read.closing THEN read.scope ELSE due[c]]
    /\ ticked' = (ticked \/ (tpl.active /\ read.today = month))
    /\ read' = NoRead
    /\ UNCHANGED <<month, tpl, scope, recast>>

\* Its transaction fails, on that constraint or for any other reason; the job is retried.
TickFails ==
    /\ read # NoRead
    /\ read' = NoRead
    /\ UNCHANGED <<month, tpl, scope, cycles, rows, ticked, recast, due>>

\* Months pass, whether or not the worker runs.
NextMonth ==
    /\ month < LastMonth
    /\ month' = month + 1
    /\ ticked' = FALSE
    /\ UNCHANGED <<tpl, scope, cycles, rows, read, recast, due>>

SweepNext ==
    \/ \E t \in Template, k \in {scope, Units \ scope} : PatchTemplate(t, k)
    \/ \E us \in SUBSET Units : EditUnits(us)
    \/ \E c \in Months, u \in Units :
        \/ Start(c, u)
        \/ Complete(c, u)
        \/ \E result \in {"passed", "failed"} : Inspect(c, u, result)
    \/ TickReads \/ TickCommits \/ TickFails
    \/ NextMonth

SweepSpec == SweepInit /\ [][SweepNext]_sweepVars

----------------------------------------------------------------------------
\* Every variable has its type.
SweepTypeOK ==
    /\ month \in Months
    /\ tpl \in Template
    /\ scope \in SUBSET Units
    /\ cycles \in [Months -> Cycle]
    /\ rows \in [Months -> [Units -> [RunStatus -> Nat]]]
    /\ read \in Read \cup {NoRead}
    /\ ticked \in BOOLEAN
    /\ recast \in BOOLEAN
    /\ due \in [Months -> SUBSET Units]

\* A unit is done once in a cycle: it has at most one run that is under way, awaits
\* inspection or has passed, whatever closes or is edited meanwhile (pm_runs.start).
UnitDoneOnce ==
    \A c \in Months, u \in Units :
        rows[c][u]["in_progress"] + rows[c][u]["completed"] + rows[c][u]["passed"] <= 1

\* The frozen evidence (close_expired): a closed cycle accounts for every unit that was
\* in scope, as passed or as missed, and has one missed row of it at most.
ClosedAccounts ==
    \A c \in Months, u \in Units :
        /\ u \in due[c] => u \in PassedIn(c) \cup MissedIn(c)
        /\ rows[c][u]["missed"] <= (IF u \in due[c] THEN 1 ELSE 0)

\* open_cycle expects one row: a template has at most one open cycle, although a tick
\* and a patch may each have found none, unless its cadence was ever changed.
OneOpenCycle == ~recast => \A c, d \in OpenCycles : c = d

\* Once a tick of the month has been through an active template, today is in its open
\* cycle (roll_cycles), unless its cadence was ever changed.
TickedMeansCovered ==
    ticked /\ tpl.active /\ ~recast =>
        \E c \in OpenCycles : c <= month /\ month <= cycles[c].ends

\* Both: the one open cycle is the one of the month.
CycleOfTheMonth == OneOpenCycle /\ TickedMeansCovered

\* What is closed is evidence: a closed cycle is not reopened or moved, and its missed
\* rows are neither added to nor taken away (close_expired, ensure_open_cycle).
EvidenceFrozen ==
    [][\A c \in Months : cycles[c].status = "closed" =>
          /\ cycles'[c] = cycles[c]
          /\ \A u \in Units : rows'[c][u]["missed"] = rows[c][u]["missed"]]_sweepVars

\* compliance reports "percentages 0-100": no cycle has more units passed than in its
\* total (pm_reports.py).
PercentAtMost100 == \A c \in Months : Total(c) > 0 => Cardinality(PassedIn(c)) <= Total(c)
=============================================================================
