------------------------------ MODULE RunSheet ------------------------------
(***************************************************************************)
(* The sheet of one preventive-maintenance run: what has to be answered,   *)
(* which reading is out of range, and who may inspect it.                  *)
(* domain/pm_runs.py, pm_inspection.py and typed_items.py.  What the run's *)
(* status does to its cycle and its work order is in Sweep and WorkOrders. *)
(*                                                                         *)
(* The sheet has an answer per item that was active at the start; whether  *)
(* an item is required, and its limits, are read from the template when    *)
(* they are needed.  Of two limits the upper one stands for both.  One     *)
(* request follows another.                                                *)
(***************************************************************************)
EXTENDS Naturals, Table

CONSTANTS
    Entered,  \* items of the template, those not yet created included
    EntryKind, \* item_type of each: "checkbox", "text", "number" or "photo"
    Measured, \* numbers that may be entered
    Tops,     \* upper limits an item may have
    Fitters   \* members of the property

ASSUME SheetAssumption ==
    /\ EntryKind \in [Entered -> {"checkbox", "text", "number", "photo"}]
    /\ Measured \subseteq Nat /\ Tops \subseteq Nat
    /\ None \notin Nat \cup Fitters \cup {"ticked", "clear", "written"}

VARIABLES
    line,   \* the rows of the template's items
    answer, \* per item, the answer of the run
    proof,  \* the items a photo of the run carries
    job,    \* the run: its status, who started it and who inspected it
    orders, \* the items whose reading has raised a work order
    rank    \* per member: role, and whether the account is active, which is set by hand

sheetVars == <<line, answer, proof, job, orders, rank>>

LineRow == [active : BOOLEAN, required : BOOLEAN, top : Tops \cup {None}]
JobStatus == {"pending", "in_progress", "completed", "passed", "failed"}
Job == [status : JobStatus, by : Fitters \cup {None}, inspector : Fitters \cup {None}]

\* supervisor: a manager or an administrator too.
Rank == [role : {"agent", "dept_staff", "supervisor"}, active : BOOLEAN]

\* Values of an answer, by the column of its type (VALUE_COLUMN).
Values(i) ==
    CASE EntryKind[i] = "checkbox" -> {"ticked", "clear"}
      [] EntryKind[i] = "text" -> {"written"}
      [] EntryKind[i] = "number" -> Measured
      [] OTHER -> {}

\* on: there is a row;  far: out_of_range.
NoAnswer == [on |-> FALSE, value |-> None, far |-> FALSE]
AnswerType(i) == [on : BOOLEAN, value : Values(i) \cup {None}, far : BOOLEAN]

Performs(u) == rank[u].active /\ rank[u].role # "agent"
Inspects(u) == rank[u].active /\ rank[u].role = "supervisor"

\* is_answered
IsAnswered(i) ==
    CASE EntryKind[i] = "checkbox" -> answer[i].value = "ticked"
      [] EntryKind[i] = "photo" -> i \in proof
      [] OTHER -> answer[i].value # None

\* missing_required
MissingItems == {i \in Entered : answer[i].on /\ line[i].required /\ ~IsAnswered(i)}

OutOfRange == {i \in Entered : answer[i].on /\ answer[i].far}

\* Slip: an account that is switched off counts.
SoleSlip(u) == {v \in Fitters : rank[v].role = "supervisor"} = {u}

\* _sole_inspector
SoleInspector(u) == {v \in Fitters : Inspects(v)} = {u}

MayInspect(u) == Inspects(u) /\ (job.by = u => SoleInspector(u))

----------------------------------------------------------------------------
SheetInit ==
    /\ line = [i \in Entered |-> [active |-> FALSE, required |-> TRUE, top |-> None]]
    /\ answer = [i \in Entered |-> NoAnswer]
    /\ proof = {}
    /\ job = [status |-> "pending", by |-> None, inspector |-> None]
    /\ orders = {}
    /\ rank \in [Fitters -> [role : {"dept_staff", "supervisor"}, active : {TRUE}]]

\* sync_items: an item is created or brought back as it is given, or retired as it is.  Only
\* a number has limits.
SaveItem(i, row) ==
    /\ row.top # None => EntryKind[i] = "number"
    /\ row.active \/ row = [line[i] EXCEPT !.active = FALSE]
    /\ line' = [line EXCEPT ![i] = row]
    /\ UNCHANGED <<answer, proof, job, orders, rank>>

\* start and begin_pending, with create_answers.
BeginSheet(u) ==
    /\ job.status = "pending"
    /\ Performs(u)
    /\ job' = [job EXCEPT !.status = "in_progress", !.by = u]
    /\ answer' = [i \in Entered |-> [NoAnswer EXCEPT !.on = line[i].active]]
    /\ UNCHANGED <<line, proof, orders, rank>>

\* Slip: out_of_range is decided only where there is a value.
SaveSlip(u, i, v) ==
    /\ job.status = "in_progress"
    /\ Performs(u)
    /\ answer[i].on /\ EntryKind[i] # "photo"
    /\ answer' = [answer EXCEPT ![i].value = v,
           ![i].far = IF v = None THEN @ ELSE EntryKind[i] = "number" /\ line[i].top # None
                                                  /\ v > line[i].top]
    /\ UNCHANGED <<line, proof, job, orders, rank>>

\* save_answer with apply_answer; None clears it.
SaveAnswer(u, i, v) ==
    /\ job.status = "in_progress"
    /\ Performs(u)
    /\ answer[i].on /\ EntryKind[i] # "photo"
    /\ answer' = [answer EXCEPT ![i].value = v,
           ![i].far = EntryKind[i] = "number" /\ v # None /\ line[i].top # None
                          /\ v > line[i].top]
    /\ UNCHANGED <<line, proof, job, orders, rank>>

\* attach_photo: of any photo item of the template, whether the run asks for it or not.
AttachPhoto(u, i) ==
    /\ job.status = "in_progress"
    /\ Performs(u)
    /\ EntryKind[i] = "photo"
    /\ proof' = proof \cup {i}
    /\ UNCHANGED <<line, answer, job, orders, rank>>

\* complete with _raise_out_of_range.
CompleteSheet(u) ==
    /\ job.status = "in_progress"
    /\ Performs(u)
    /\ MissingItems = {}
    /\ job' = [job EXCEPT !.status = "completed"]
    /\ orders' = OutOfRange
    /\ UNCHANGED <<line, answer, proof, rank>>

\* inspect
InspectSheet(u, result) ==
    /\ job.status = "completed"
    /\ MayInspect(u)
    /\ job' = [job EXCEPT !.status = result, !.inspector = u]
    /\ UNCHANGED <<line, answer, proof, orders, rank>>

\* A role is changed, an account switched off or on.
Rerank(u, r) ==
    /\ rank' = [rank EXCEPT ![u] = r]
    /\ UNCHANGED <<line, answer, proof, job, orders>>

SheetNext ==
    \/ \E i \in Entered, row \in LineRow : SaveItem(i, row)
    \/ \E u \in Fitters : BeginSheet(u) \/ CompleteSheet(u)
    \/ \E u \in Fitters, i \in Entered : \E v \in Values(i) \cup {None} : SaveAnswer(u, i, v)
    \/ \E u \in Fitters, i \in Entered : AttachPhoto(u, i)
    \/ \E u \in Fitters, result \in {"passed", "failed"} : InspectSheet(u, result)
    \/ \E u \in Fitters, r \in Rank : Rerank(u, r)

SheetSpec == SheetInit /\ [][SheetNext]_sheetVars

----------------------------------------------------------------------------
SheetTypeOK ==
    /\ line \in [Entered -> LineRow]
    /\ DOMAIN answer = Entered /\ \A i \in Entered : answer[i] \in AnswerType(i)
    /\ proof \subseteq Entered /\ orders \subseteq Entered
    /\ job \in Job
    /\ rank \in [Fitters -> Rank]

\* A run that was completed leaves nothing that nobody can settle: whoever starts it and
\* whoever comes and goes, somebody may inspect it as long as there is an active inspector
\* ("must not be locked out of PM entirely", pm_inspection.py:90-92), and the work orders
\* it raised are those of the readings that were out of range, each of a reading that is
\* there to be seen, however its item has been edited since.
SheetSettles ==
    job.status \in {"completed", "passed", "failed"} =>
        /\ (\E u \in Fitters : Inspects(u)) => \E u \in Fitters : MayInspect(u)
        /\ orders = OutOfRange
        /\ \A i \in orders : answer[i].value # None
=============================================================================
