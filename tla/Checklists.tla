----------------------------- MODULE Checklists -----------------------------
(***************************************************************************)
(* The shift checklists of one template (domain/ck_instances.py,           *)
(* ck_tick.py, shifts.py) and what an edit of the template does to them.   *)
(*                                                                         *)
(* The clock counts quarters of a day, cut where the shifts are: 0 before  *)
(* the am boundary, then am, pm and overnight, which ends at the next am.  *)
(* checklist.tick is a transaction in two steps, what it reads and what it *)
(* commits, and so is a completion; every other request is one.            *)
(***************************************************************************)
EXTENDS Naturals, FiniteSets, Table

CONSTANTS
    Items,    \* of the template
    Readings, \* the items answered by a number, which may be out of range
    Plans,    \* what the template's schedule may be edited to
    Extra,    \* the instances started on demand
    Clerks,   \* requests that complete an instance at the same time
    Beside,   \* which other requests on an instance may commit during a completion of it
    LastHour  \* bounds the clock

Shifts == {"am", "pm", "overnight"}

ASSUME ChecklistsAssumption ==
    /\ IsFiniteSet(Items)
    /\ Readings \subseteq Items
    /\ Beside \subseteq {"save", "complete"}
    /\ LastHour \in Nat
    /\ \A p \in Plans : p.schedule = "weekly" => p.shift \in Shifts

VARIABLES
    ckPlan,     \* the template: its schedule, shift, weekdays, whether it is active
    current,    \* its active items
    required, \* its required items
    ckRow,    \* the instances: status, end of the shift, answers, orders raised
    closing,  \* per clerk, the completion under way: what it has read
    sweeping, \* the tick under way: what it has read
    swept,    \* history: the time of the last tick that committed
    hour

ckVars == <<ckPlan, current, required, ckRow, closing, sweeping, swept, hour>>

\* Slot 0 of a day and a shift, which is the schema's unique key, or a run on demand.
DueSlots == (0 .. LastHour \div 4) \X Shifts
Slots == DueSlots \cup Extra

Live == {"open", "in_progress"}
CkRow == [status : Live \cup {"absent", "complete", "missed"}, ends : Nat,
          answers : [Items -> {"none", "blank", "in", "out"}], raised : Nat]

\* shift_window's end; the night's is on the next day.
ShiftEnd(day, shift) ==
    4 * day + (CASE shift = "am" -> 2 [] shift = "pm" -> 3 [] shift = "overnight" -> 5)

\* The end of current_shift: before the am boundary it is yesterday's night.
CurrentEnd(t) == IF t % 4 = 3 THEN t + 2 ELSE t + 1

Absent == [status |-> "absent", ends |-> 0,
           answers |-> [i \in Items |-> "none"], raised |-> 0]

Generated(k) == [Absent EXCEPT !.status = "open", !.ends = ShiftEnd(k[1], k[2])]

\* _begin: an answer row for each active item.
Begun(r) == [r EXCEPT !.status = "in_progress",
                      !.answers = [i \in Items |-> IF i \in current THEN "blank" ELSE "none"]]

\* The items are joined as they are now, not as they were at the start.
Missing(k) == {i \in required : ckRow[k].answers[i] = "blank"}
OutOfRange(r) == {i \in Items : r.answers[i] = "out"}

\* No completion of k is under way that op may not come between.
MayCommit(op, k) == op \in Beside \/ \A c \in Clerks : closing[c] # None => closing[c].key # k

Rewrite(k, r) == ckRow' = [ckRow EXCEPT ![k] = r]

----------------------------------------------------------------------------
CkInit ==
    /\ ckPlan \in Plans
    /\ current \in (SUBSET Items) \ {{}}
    /\ required \in SUBSET Items
    /\ ckRow = [k \in Slots |-> Absent]
    /\ closing = [c \in Clerks |-> None]
    /\ sweeping = None
    /\ swept = 0
    /\ hour = 1

\* patch: schedule, shift and days, or active.
EditPlan(p) ==
    /\ ckPlan' = p
    /\ UNCHANGED <<current, required, ckRow, closing, sweeping, swept, hour>>

\* patch: replace-by-list.  A retired item keeps its row as it was.
EditItems(kept, req) ==
    /\ current' = kept
    /\ required' = req \cup (required \ kept)
    /\ UNCHANGED <<ckPlan, ckRow, closing, sweeping, swept, hour>>

BeginChecklist(k) ==
    /\ ckRow[k].status = "open"
    /\ Rewrite(k, Begun(ckRow[k]))
    /\ UNCHANGED <<ckPlan, current, required, closing, sweeping, swept, hour>>

StartOnDemand(k) ==
    /\ ckPlan.schedule = "on_demand" /\ ckPlan.active
    /\ ckRow[k].status = "absent"
    /\ Rewrite(k, [Begun(Absent) EXCEPT !.ends = CurrentEnd(hour)])
    /\ UNCHANGED <<ckPlan, current, required, closing, sweeping, swept, hour>>

\* A number, a tick, a text or a photo; a cleared answer is blank again.
SaveAnswer(k, i, v) ==
    /\ MayCommit("save", k)
    /\ ckRow[k].status = "in_progress"
    /\ ckRow[k].answers[i] # "none"
    /\ v = "out" => i \in Readings
    /\ Rewrite(k, [ckRow[k] EXCEPT !.answers[i] = v])
    /\ UNCHANGED <<ckPlan, current, required, closing, sweeping, swept, hour>>

\* complete: its guards, and the readings it will raise orders for.
CompleteReads(c, k) ==
    /\ MayCommit("complete", k)
    /\ closing[c] = None
    /\ ckRow[k].status = "in_progress"
    /\ Missing(k) = {}
    /\ closing' = [closing EXCEPT ![c] = [key |-> k, outs |-> OutOfRange(ckRow[k])]]
    /\ UNCHANGED <<ckPlan, current, required, ckRow, sweeping, swept, hour>>

\* Slip: an order for each answer.
RaiseSlip(c) == {i \in Items : ckRow[closing[c].key].answers[i] \in {"in", "out"}}
Raising(c) == closing[c].outs

\* The status is written by id alone, whatever it is by now.
CompleteCommits(c) ==
    /\ closing[c] # None
    /\ LET k == closing[c].key IN
         Rewrite(k, [ckRow[k] EXCEPT !.status = "complete",
                                    !.raised = @ + Cardinality(Raising(c))])
    /\ closing' = [closing EXCEPT ![c] = None]
    /\ UNCHANGED <<ckPlan, current, required, sweeping, swept, hour>>

CompleteFails(c) ==
    /\ closing[c] # None
    /\ closing' = [closing EXCEPT ![c] = None]
    /\ UNCHANGED <<ckPlan, current, required, ckRow, sweeping, swept, hour>>

----------------------------------------------------------------------------
\* Today's instance, unless its shift has ended.
Wanted ==
    LET day == hour \div 4 IN
    {k \in DueSlots : /\ ckPlan.schedule = "weekly" /\ ckPlan.active
                 /\ k = <<day, ckPlan.shift>>
                 /\ day % 7 \in ckPlan.days
                 /\ hour < ShiftEnd(day, ckPlan.shift)}

\* Slip: a shift that ends now has not ended.
EndedSlip == {k \in Slots : ckRow[k].status \in Live /\ hour > ckRow[k].ends}
Ended == {k \in Slots : ckRow[k].status \in Live /\ hour >= ckRow[k].ends}

SweepReads ==
    /\ sweeping = None
    /\ sweeping' = [at |-> hour, wanted |-> Wanted, ended |-> Ended]
    /\ UNCHANGED <<ckPlan, current, required, ckRow, closing, swept, hour>>

\* Slip: the UPDATE does not ask for the status again.
LapsedSlip(k) == k \in sweeping.ended
Lapsed(k) == k \in sweeping.ended /\ ckRow[k].status \in Live

SweepCommits ==
    /\ sweeping # None
    /\ ckRow' = [k \in Slots |->
           IF ckRow[k].status = "absent" /\ k \in sweeping.wanted THEN Generated(k)
           ELSE IF Lapsed(k) THEN [ckRow[k] EXCEPT !.status = "missed"]
           ELSE ckRow[k]]
    /\ swept' = sweeping.at
    /\ sweeping' = None
    /\ UNCHANGED <<ckPlan, current, required, closing, hour>>

SweepFails ==
    /\ sweeping # None
    /\ sweeping' = None
    /\ UNCHANGED <<ckPlan, current, required, ckRow, closing, swept, hour>>

NextHour ==
    /\ hour < LastHour
    /\ hour' = hour + 1
    /\ UNCHANGED <<ckPlan, current, required, ckRow, closing, sweeping, swept>>

----------------------------------------------------------------------------
Clerk ==
    \/ \E p \in Plans : EditPlan(p)
    \/ \E kept \in (SUBSET Items) \ {{}} : \E req \in SUBSET kept : EditItems(kept, req)
    \/ \E k \in Slots : BeginChecklist(k)
    \/ \E k \in Extra : StartOnDemand(k)
    \/ \E k \in Slots, i \in Items, v \in {"blank", "in", "out"} : SaveAnswer(k, i, v)
    \/ \E c \in Clerks, k \in Slots : CompleteReads(c, k)
    \/ \E c \in Clerks : CompleteCommits(c) \/ CompleteFails(c)

CkNext == Clerk \/ SweepReads \/ SweepCommits \/ SweepFails \/ NextHour

CkSpec == CkInit /\ [][CkNext]_ckVars

----------------------------------------------------------------------------
CkTypeOK ==
    /\ ckPlan \in Plans
    /\ current \in SUBSET Items
    /\ required \in SUBSET Items
    /\ ckRow \in [Slots -> CkRow]
    /\ closing \in [Clerks -> [key : Slots, outs : SUBSET Items] \cup {None}]
    /\ sweeping \in [at : Nat, wanted : SUBSET DueSlots, ended : SUBSET Slots] \cup {None}
    /\ swept \in Nat
    /\ hour \in Nat

\* Whether a checklist is missed depends on nothing but the last tick and the end of
\* its shift, however long the tick took and whatever was edited meanwhile: no live one
\* had ended, no missed one had not, and none is born missed (ck_tick.py:27-28, 37-47).
WindowDecides ==
    \A k \in Slots :
        /\ ckRow[k].status \in Live => swept < ckRow[k].ends
        /\ ckRow[k].status = "missed" => ckRow[k].ends <= swept

\* A completed checklist raised one work order for each reading it holds that is out of
\* range, and any other raised none (ck_instances.py:215-241).
ReadingsReported ==
    \A k \in Slots : ckRow[k].raised =
        IF ckRow[k].status = "complete" THEN Cardinality(OutOfRange(ckRow[k])) ELSE 0

\* Both: what becomes of a checklist follows from its shift and its answers.
ShiftsAccounted == WindowDecides /\ ReadingsReported

\* A completed checklist stays as it is, though a tick may have read it as live
\* (ck_tick.py:40-44, "someone may have just completed the instance").
CompleteIsFinal ==
    [][\A k \in Slots : ckRow[k].status = "complete" => ckRow'[k] = ckRow[k]]_ckVars

\* "editing a template never alters a started instance"
\* (docs/superpowers/specs/2026-09-25-shift-checklists-design.md:133-134): what it still
\* needs before it can be completed changes with its own answers only.
EditsSpareStarted ==
    [][\A k \in Slots : ckRow[k].status = "in_progress" /\ ckRow'[k] = ckRow[k]
                            => Missing(k)' = Missing(k)]_ckVars
=============================================================================
