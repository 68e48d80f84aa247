----------------------------- MODULE SweepProofs -----------------------------
(***************************************************************************)
(* Proofs about Sweep, for any number of units and months and any cadences.*)
(* What holds whatever is edited comes first; what takes a cadence that is *)
(* never changed, second.  Then the sheet of one run, for any items and    *)
(* inspectors, and the scheduled templates, for any rules and edits.       *)
(***************************************************************************)
EXTENDS Sweep, PmPlans, RunSheet, Integers, TLAPS

\* The window containing today contains it.
LEMMA Window ==
    ASSUME NEW span \in Spans, NEW today \in Months
    PROVE  /\ StartOf(span, today) \in 1 .. today
           /\ StartOf(span, today) \in Months
           /\ EndOf(span, today) = StartOf(span, today) + span - 1
           /\ EndOf(span, today) \in Nat
           /\ today <= EndOf(span, today)
<1>1. span \in Nat \ {0} /\ today \in Nat \ {0} /\ LastMonth \in Nat /\ today <= LastMonth
  BY SweepAssumption DEF Months
<1>2. (today - 1) % span \in 0 .. (span - 1)
  BY <1>1
<1>3. (today - 1) % span <= today - 1
  BY <1>1
<1> QED BY <1>1, <1>2, <1>3 DEF StartOf, EndOf, Months

\* What ensure_open_cycle does to the cycles cs.
LEMMA OpenedOne ==
    ASSUME NEW cs \in [Months -> Cycle], NEW span \in Spans, NEW today \in Months
    PROVE  /\ Opened(cs, span, today) \in [Months -> Cycle]
           /\ \A c \in Months : Opened(cs, span, today)[c] # cs[c] =>
                /\ c = StartOf(span, today)
                /\ cs[c].status = "none"
                /\ \A d \in Months : cs[d].status # "open"
                /\ Opened(cs, span, today)[c] = [status |-> "open", ends |-> EndOf(span, today)]
           /\ (\A d \in Months : cs[d].status # "open") /\ cs[StartOf(span, today)].status = "none"
                => Opened(cs, span, today)[StartOf(span, today)]
                    = [status |-> "open", ends |-> EndOf(span, today)]
<1> DEFINE s == StartOf(span, today)
           new == [status |-> "open", ends |-> EndOf(span, today)]
<1>1. s \in Months /\ new \in Cycle
  BY Window DEF Cycle, CycleStatus
<1>2. CASE (\E c \in Months : cs[c].status = "open") \/ cs[s].status # "none"
  <2>1. Opened(cs, span, today) = cs
    BY <1>2 DEF Opened
  <2> QED BY <1>2, <2>1
<1>3. CASE ~((\E c \in Months : cs[c].status = "open") \/ cs[s].status # "none")
  <2>1. Opened(cs, span, today) = [cs EXCEPT ![s] = new]
    BY <1>3 DEF Opened
  <2> QED BY <1>1, <1>3, <2>1
<1> QED BY <1>2, <1>3

LEMMA UpDown == \A n \in Nat : n + 1 \in Nat /\ (n > 0 => n - 1 \in Nat)
OBVIOUS

\* A run that was there moves.
LEMMA MovedTyped ==
    ASSUME SweepTypeOK, NEW c \in Months, NEW u \in Units, NEW from \in RunStatus \cup {"none", "failed"},
           NEW to \in RunStatus \cup {"none", "failed"}, Moved(c, u, from, to),
           from \notin {"none", "failed"} => rows[c][u][from] > 0
    PROVE  rows' \in [Months -> [Units -> [RunStatus -> Nat]]]
<1>1. rows[c][u] \in [RunStatus -> Nat]
  BY DEF SweepTypeOK
<1>2. \A s \in RunStatus : (IF s = from THEN rows[c][u][s] - 1 ELSE IF s = to THEN rows[c][u][s] + 1
                            ELSE rows[c][u][s]) \in Nat
  <2> TAKE s \in RunStatus
  <2>1. rows[c][u][s] \in Nat
    BY <1>1
  <2>2. CASE s = from
    <3>1. rows[c][u][s] > 0
      BY <2>2 DEF RunStatus
    <3>2. rows[c][u][s] - 1 \in Nat
      BY <2>1, <3>1, UpDown, Zenon
    <3> QED BY <2>2, <3>2
  <2>3. CASE s # from
    <3>1. rows[c][u][s] + 1 \in Nat
      BY <2>1, UpDown, Zenon
    <3> QED BY <2>1, <2>3, <3>1
  <2> QED BY <2>2, <2>3
<1> QED BY <1>2 DEF Moved, SweepTypeOK

LEMMA TypeStep == SweepTypeOK /\ [SweepNext]_sweepVars => SweepTypeOK'
<1> SUFFICES ASSUME SweepTypeOK, [SweepNext]_sweepVars PROVE SweepTypeOK'
  OBVIOUS
<1> USE SweepAssumption DEF SweepTypeOK
<1>1. ASSUME NEW t \in Template, NEW k \in {scope, Units \ scope}, PatchTemplate(t, k)
      PROVE  SweepTypeOK'
  <2>1. Opened(cycles, t.span, month) \in [Months -> Cycle]
    BY OpenedOne DEF Template
  <2> QED BY <1>1, <2>1 DEF PatchTemplate
<1>2. ASSUME NEW us \in SUBSET Units, EditUnits(us) PROVE SweepTypeOK'
  BY <1>2 DEF EditUnits
<1>3. ASSUME NEW c \in Months, NEW u \in Units, Start(c, u) PROVE SweepTypeOK'
  BY <1>3, MovedTyped DEF Start, RunStatus
<1>4. ASSUME NEW c \in Months, NEW u \in Units, Complete(c, u) PROVE SweepTypeOK'
  BY <1>4, MovedTyped DEF Complete, RunStatus
<1>5. ASSUME NEW c \in Months, NEW u \in Units, NEW result \in {"passed", "failed"},
             Inspect(c, u, result)
      PROVE  SweepTypeOK'
  BY <1>5, MovedTyped DEF Inspect, RunStatus
<1>6. CASE TickReads
  <2>1. PICK found \in OpenCycle :
          LET over == {c \in found : cycles[c].ends < month}
          IN  read' = [today |-> month, span |-> tpl.span, closing |-> over, scope |-> scope,
                       opening |-> Opening(over), passed |-> UNION {PassedIn(c) : c \in over}]
    BY <1>6 DEF TickReads
  <2>2. found \subseteq Months
    BY DEF OpenCycle, OpenCycles
  <2>3. read' \in Read
    BY <2>1, <2>2 DEF Read, Template, Opening, PassedIn
  <2> QED BY <1>6, <2>3 DEF TickReads
<1>7. CASE TickCommits
  <2>1. read \in Read
    BY <1>7 DEF TickCommits
  <2>2. EndOf(read.span, read.today) \in Nat
    BY <2>1, Window DEF Read
  <2>3. cycles' \in [Months -> Cycle]
    BY <1>7, <2>2 DEF TickCommits, Closed, Cycle, CycleStatus
  <2>4. rows' \in [Months -> [Units -> [RunStatus -> Nat]]]
    BY <1>7 DEF TickCommits, RunStatus
  <2> QED BY <1>7, <2>1, <2>3, <2>4 DEF TickCommits, Read
<1>8. CASE TickFails
  BY <1>8 DEF TickFails
<1>9. CASE NextMonth
  <2>1. month' \in Months
    BY <1>9 DEF NextMonth, Months
  <2> QED BY <1>9, <2>1 DEF NextMonth
<1>10. CASE UNCHANGED sweepVars
  BY <1>10 DEF sweepVars
<1> QED BY <1>1, <1>2, <1>3, <1>4, <1>5, <1>6, <1>7, <1>8, <1>9, <1>10 DEF SweepNext

LEMMA InitTyped == SweepInit => SweepTypeOK
<1> SUFFICES ASSUME SweepInit PROVE SweepTypeOK
  OBVIOUS
<1> DEFINE none == [c \in Months |-> [status |-> "none", ends |-> 0]]
<1>1. month \in Months
  BY SweepAssumption DEF SweepInit, Months
<1>2. none \in [Months -> Cycle]
  BY DEF Cycle, CycleStatus
<1>3. Opened(none, tpl.span, month) \in [Months -> Cycle]
  <2> HIDE DEF none
  <2> QED BY <1>1, <1>2, OpenedOne DEF SweepInit, Template
<1> QED BY <1>1, <1>2, <1>3 DEF SweepInit, SweepTypeOK

\* Every variable has its type, always.
THEOREM SweepTyped == SweepSpec => []SweepTypeOK
BY InitTyped, TypeStep, PTL DEF SweepSpec

\* The runs a unit has that are under way, await inspection or have passed.
Kept(r) == r["in_progress"] + r["completed"] + r["passed"]

\* What a run's move adds to a status.
By(s, from, to) == IF s = from THEN -1 ELSE IF s = to THEN 1 ELSE 0

LEMMA Deltas ==
    ASSUME NEW from \in {"none", "in_progress", "completed"},
           NEW to \in {"in_progress", "completed", "passed", "failed"}, from # to
    PROVE  /\ By("in_progress", from, to) + By("completed", from, to) + By("passed", from, to)
                <= IF from = "none" THEN 1 ELSE 0
           /\ By("passed", from, to) >= 0
           /\ By("missed", from, to) = 0
BY DEF By

LEMMA DeltasTyped == \A s, from, to : By(s, from, to) \in Int
BY DEF By

LEMMA Sums ==
    ASSUME NEW a \in Int, NEW b \in Int, NEW c \in Int, NEW x \in Int, NEW y \in Int, NEW z \in Int,
           NEW d \in Int, x + y + z <= d, z >= 0
    PROVE  (a + x) + (b + y) + (c + z) <= a + b + c + d /\ c <= c + z
OBVIOUS

\* A run that is started, completed or inspected adds to them if it is started.
LEMMA KeptMoves ==
    ASSUME SweepTypeOK, NEW c \in Months, NEW u \in Units,
           NEW from \in {"none", "in_progress", "completed"},
           NEW to \in {"in_progress", "completed", "passed", "failed"}, from # to, Moved(c, u, from, to)
    PROVE  /\ \A d \in Months, v \in Units : rows'[d][v] # rows[d][v] => d = c /\ v = u
           /\ Kept(rows[c][u]) \in Int /\ Kept(rows'[c][u]) \in Int
           /\ Kept(rows'[c][u]) <= Kept(rows[c][u]) + (IF from = "none" THEN 1 ELSE 0)
           /\ rows'[c][u]["missed"] = rows[c][u]["missed"]
           /\ rows[c][u]["passed"] <= rows'[c][u]["passed"]
<1>1. rows \in [Months -> [Units -> [RunStatus -> Nat]]]
  BY DEF SweepTypeOK
<1>2. rows'[c][u] = [s \in RunStatus |-> IF s = from THEN rows[c][u][s] - 1
                        ELSE IF s = to THEN rows[c][u][s] + 1 ELSE rows[c][u][s]]
  BY <1>1 DEF Moved
<1>3. \A d \in Months, v \in Units : rows'[d][v] # rows[d][v] => d = c /\ v = u
  BY <1>1 DEF Moved
<1>4. \A s \in RunStatus : rows[c][u][s] \in Int
  BY <1>1
<1>5. \A s \in RunStatus : rows'[c][u][s] = rows[c][u][s] + By(s, from, to)
  BY <1>2, <1>4 DEF By
<1>6. \A s \in {"in_progress", "completed", "passed", "missed"} :
        rows[c][u][s] \in Int /\ rows'[c][u][s] = rows[c][u][s] + By(s, from, to)
  BY <1>4, <1>5 DEF RunStatus
<1>7. (IF from = "none" THEN 1 ELSE 0) \in Int
  OBVIOUS
<1> QED BY <1>3, <1>6, <1>7, Deltas, DeltasTyped, Sums DEF Kept

LEMMA OnceStep == SweepTypeOK /\ UnitDoneOnce /\ [SweepNext]_sweepVars => UnitDoneOnce'
<1> SUFFICES ASSUME SweepTypeOK, UnitDoneOnce, [SweepNext]_sweepVars PROVE UnitDoneOnce'
  OBVIOUS
<1>1. rows \in [Months -> [Units -> [RunStatus -> Nat]]]
  BY DEF SweepTypeOK
<1>2. UnitDoneOnce <=> \A c \in Months, u \in Units : Kept(rows[c][u]) <= 1
  BY DEF UnitDoneOnce, Kept
<1>3. UnitDoneOnce' <=> \A c \in Months, u \in Units : Kept(rows'[c][u]) <= 1
  BY DEF UnitDoneOnce, Kept
<1>4. ASSUME NEW c \in Months, NEW u \in Units, Start(c, u) PROVE UnitDoneOnce'
  <2>1. /\ rows[c][u]["in_progress"] \in Nat /\ rows[c][u]["completed"] \in Nat
        /\ rows[c][u]["in_progress"] + rows[c][u]["completed"] = 0 /\ rows[c][u]["passed"] = 0
    BY <1>1, <1>4 DEF Start, RunStatus
  <2>2. Kept(rows[c][u]) = 0
    BY <2>1 DEF Kept
  <2>3. Kept(rows'[c][u]) <= 0 + 1
    BY <1>4, <2>2, KeptMoves DEF Start
  <2> QED BY <1>2, <1>3, <1>4, <2>3, KeptMoves DEF Start
<1>5. ASSUME NEW c \in Months, NEW u \in Units, Complete(c, u) PROVE UnitDoneOnce'
  <2>1. Kept(rows'[c][u]) <= Kept(rows[c][u]) + 0
    BY <1>5, KeptMoves DEF Complete
  <2> QED BY <1>2, <1>3, <1>5, <2>1, KeptMoves DEF Complete
<1>6. ASSUME NEW c \in Months, NEW u \in Units, NEW result \in {"passed", "failed"},
             Inspect(c, u, result)
      PROVE  UnitDoneOnce'
  <2>1. Kept(rows'[c][u]) <= Kept(rows[c][u]) + 0
    BY <1>6, KeptMoves DEF Inspect
  <2> QED BY <1>2, <1>3, <1>6, <2>1, KeptMoves DEF Inspect
<1>7. CASE TickCommits
  <2>1. \A c \in Months, u \in Units, s \in {"in_progress", "completed", "passed"} :
          rows'[c][u][s] = rows[c][u][s]
    BY <1>1, <1>7 DEF TickCommits, RunStatus
  <2> QED BY <1>2, <1>3, <2>1 DEF Kept
<1>8. CASE UNCHANGED rows
  BY <1>8 DEF UnitDoneOnce
<1> QED BY <1>4, <1>5, <1>6, <1>7, <1>8 DEF SweepNext, PatchTemplate, EditUnits, TickReads,
      TickFails, NextMonth, sweepVars

\* A unit is done at most once in a cycle, however many units and cycles there are.
THEOREM UnitsDoneOnce == SweepSpec => []UnitDoneOnce
<1>1. SweepInit => UnitDoneOnce
  BY DEF SweepInit, UnitDoneOnce, RunStatus
<1> QED BY <1>1, SweepTyped, OnceStep, PTL DEF SweepSpec

----------------------------------------------------------------------------
\* What runs do leaves the missed rows alone and takes no pass away.
LEMMA RunsMove ==
    ASSUME SweepTypeOK, NEW c \in Months, NEW u \in Units,
           Start(c, u) \/ Complete(c, u) \/ \E result \in {"passed", "failed"} : Inspect(c, u, result)
    PROVE  /\ \A d \in Months, v \in Units : rows'[d][v]["missed"] = rows[d][v]["missed"]
           /\ \A d \in Months : PassedIn(d) \subseteq PassedIn(d)'
           /\ UNCHANGED <<month, tpl, scope, cycles, read, ticked, recast, due>>
<1>1. PICK from \in {"none", "in_progress", "completed"},
           to \in {"in_progress", "completed", "passed", "failed"} : from # to /\ Moved(c, u, from, to)
  BY DEF Start, Complete, Inspect
<1>2. /\ \A d \in Months, v \in Units : rows'[d][v] # rows[d][v] => d = c /\ v = u
      /\ rows'[c][u]["missed"] = rows[c][u]["missed"]
      /\ rows[c][u]["passed"] <= rows'[c][u]["passed"]
  BY <1>1, KeptMoves
<1>3. rows' \in [Months -> [Units -> [RunStatus -> Nat]]]
  BY TypeStep DEF SweepTypeOK, SweepNext
<1>4. \A d \in Months, v \in Units : rows[d][v]["passed"] > 0 => rows'[d][v]["passed"] > 0
  <2> TAKE d \in Months, v \in Units
  <2>1. rows[d][v]["passed"] \in Int /\ rows'[d][v]["passed"] \in Int
    BY <1>3 DEF SweepTypeOK, RunStatus
  <2>2. rows[d][v]["passed"] <= rows'[d][v]["passed"]
    BY <1>2, <2>1
  <2> QED BY <2>1, <2>2
<1> QED BY <1>2, <1>4 DEF PassedIn, Start, Complete, Inspect

\* An edit touches no cycle but one that there was not, and closes none.
LEMMA EditOpens ==
    ASSUME SweepTypeOK, NEW t \in Template, NEW k, PatchTemplate(t, k)
    PROVE  \A c \in Months : cycles'[c] # cycles[c] =>
             /\ cycles[c].status = "none"
             /\ cycles'[c] = [status |-> "open", ends |-> EndOf(t.span, month)]
             /\ c = StartOf(t.span, month)
             /\ OpenCycles = {}
BY OpenedOne DEF SweepTypeOK, Template, PatchTemplate, OpenCycles

\* The cycle a tick is about to close, if any, is open, and the units it takes for
\* passed have passed; no other cycle than a closed one has been accounted for.
ReadInv ==
    read # NoRead =>
        /\ \A c, d \in read.closing : c = d
        /\ \A c \in read.closing : cycles[c].status = "open" /\ read.passed \subseteq PassedIn(c)
        /\ \A c \in read.closing : cycles[c].ends < read.today
DueInv == \A c \in Months : cycles[c].status # "closed" => due[c] = {}
AccountsInv == ClosedAccounts /\ ReadInv /\ DueInv

LEMMA Accounted ==
    ClosedAccounts <=>
        \A c \in Months, u \in Units :
            /\ u \in due[c] => u \in PassedIn(c) \/ rows[c][u]["missed"] > 0
            /\ rows[c][u]["missed"] <= (IF u \in due[c] THEN 1 ELSE 0)
BY DEF ClosedAccounts, MissedIn

LEMMA AccountsStep == SweepTypeOK /\ AccountsInv /\ [SweepNext]_sweepVars => AccountsInv'
<1> SUFFICES ASSUME SweepTypeOK, AccountsInv, [SweepNext]_sweepVars PROVE AccountsInv'
  OBVIOUS
<1>1. ASSUME NEW t \in Template, NEW k, PatchTemplate(t, k) PROVE AccountsInv'
  <2>1. ReadInv'
    BY <1>1, EditOpens DEF AccountsInv, ReadInv, PatchTemplate, PassedIn, SweepTypeOK, Read
  <2>2. DueInv'
    BY <1>1, EditOpens DEF AccountsInv, DueInv, PatchTemplate
  <2>3. ClosedAccounts'
    BY <1>1 DEF AccountsInv, ClosedAccounts, PatchTemplate, PassedIn, MissedIn
  <2> QED BY <2>1, <2>2, <2>3 DEF AccountsInv
<1>2. ASSUME NEW c \in Months, NEW u \in Units,
             Start(c, u) \/ Complete(c, u) \/ \E result \in {"passed", "failed"} : Inspect(c, u, result)
      PROVE  AccountsInv'
  <2>1. /\ \A d \in Months, v \in Units : rows'[d][v]["missed"] = rows[d][v]["missed"]
        /\ \A d \in Months : PassedIn(d) \subseteq PassedIn(d)'
        /\ UNCHANGED <<cycles, read, due>>
    BY <1>2, RunsMove
  <2>2. ClosedAccounts'
    <3>1. ClosedAccounts' <=>
            \A d \in Months, v \in Units :
                /\ v \in due'[d] => v \in PassedIn(d)' \/ rows'[d][v]["missed"] > 0
                /\ rows'[d][v]["missed"] <= (IF v \in due'[d] THEN 1 ELSE 0)
      BY DEF ClosedAccounts, MissedIn
    <3> QED BY <2>1, <3>1, Accounted DEF AccountsInv
  <2>3. ReadInv'
    BY <2>1 DEF AccountsInv, ReadInv, SweepTypeOK, Read
  <2>4. DueInv'
    BY <2>1 DEF AccountsInv, DueInv
  <2> QED BY <2>2, <2>3, <2>4 DEF AccountsInv
<1>3. CASE TickReads
  <2>1. PICK found \in OpenCycle :
          LET over == {c \in found : cycles[c].ends < month}
          IN  read' = [today |-> month, span |-> tpl.span, closing |-> over, scope |-> scope,
                       opening |-> Opening(over), passed |-> UNION {PassedIn(c) : c \in over}]
    BY <1>3 DEF TickReads
  <2>2. \A c, d \in found : c = d /\ c \in Months /\ cycles[c].status = "open"
    BY DEF OpenCycle, OpenCycles
  <2>3. ReadInv'
    <3>1. UNCHANGED <<cycles, rows>>
      BY <1>3 DEF TickReads
    <3>2. read'.closing = {c \in found : cycles[c].ends < month} /\ read'.today = month
      BY <2>1
    <3>3. \A c \in read'.closing : read'.passed \subseteq PassedIn(c)
      <4> TAKE c \in read'.closing
      <4>1. read'.closing = {c}
        BY <2>2, <3>2
      <4> QED BY <2>1, <4>1
    <3>4. \A c \in Months : PassedIn(c)' = PassedIn(c)
      BY <3>1 DEF PassedIn
    <3> QED BY <2>2, <3>1, <3>2, <3>3, <3>4 DEF ReadInv
  <2> QED BY <1>3, <2>3 DEF TickReads, AccountsInv, ClosedAccounts, DueInv, PassedIn, MissedIn
<1>4. CASE TickCommits
  <2> USE <1>4
  <2>1. /\ read \in Read /\ read' = NoRead
        /\ \A c \in read.opening : cycles[c].status = "none"
        /\ \A c \in read.closing : c \in Months /\ cycles[c].status = "open"
        /\ \A c \in read.closing : read.passed \subseteq PassedIn(c)
    BY DEF TickCommits, SweepTypeOK, AccountsInv, ReadInv, Read
  <2>2. \A c \in Months, u \in Units : rows[c][u] \in [RunStatus -> Nat]
    BY DEF SweepTypeOK
  <2>3. \A c \in Months, u \in Units :
          /\ rows'[c][u]["passed"] = rows[c][u]["passed"]
          /\ ~Missed(c, u) => rows'[c][u] = rows[c][u]
          /\ Missed(c, u) => rows'[c][u]["missed"] = rows[c][u]["missed"] + 1
    BY <2>2 DEF TickCommits, RunStatus
  <2>4. \A c \in Months : PassedIn(c)' = PassedIn(c)
    BY <2>3 DEF PassedIn
  <2>5. \A c \in Months : due'[c] = IF c \in read.closing THEN read.scope ELSE due[c]
    BY DEF TickCommits
  <2>6. ClosedAccounts'
    <3>1. ClosedAccounts' <=>
            \A d \in Months, v \in Units :
                /\ v \in due'[d] => v \in PassedIn(d)' \/ rows'[d][v]["missed"] > 0
                /\ rows'[d][v]["missed"] <= (IF v \in due'[d] THEN 1 ELSE 0)
      BY DEF ClosedAccounts, MissedIn
    <3> SUFFICES ASSUME NEW c \in Months, NEW u \in Units
                 PROVE  /\ u \in due'[c] => u \in PassedIn(c)' \/ rows'[c][u]["missed"] > 0
                        /\ rows'[c][u]["missed"] <= (IF u \in due'[c] THEN 1 ELSE 0)
      BY <3>1
    <3>2. CASE c \in read.closing
      <4>1. due[c] = {}
        BY <2>1, <3>2 DEF AccountsInv, DueInv
      <4>2. rows[c][u]["missed"] \in Nat
        BY <2>2 DEF RunStatus
      <4>3. rows[c][u]["missed"] = 0
        BY <4>1, <4>2, Accounted DEF AccountsInv
      <4>4. CASE Missed(c, u)
        BY <2>3, <2>5, <3>2, <4>3, <4>4 DEF Missed
      <4>5. CASE ~Missed(c, u)
        <5>1. u \in read.scope => u \in PassedIn(c)
          BY <2>1, <3>2, <4>5 DEF Missed
        <5>2. rows'[c][u]["missed"] = 0
          BY <2>3, <4>3, <4>5
        <5> QED BY <2>4, <2>5, <3>2, <5>1, <5>2
      <4> QED BY <4>4, <4>5
    <3>3. CASE c \notin read.closing
      BY <2>3, <2>4, <2>5, <3>3, Accounted DEF AccountsInv, Missed
    <3> QED BY <3>2, <3>3
  <2>7. DueInv'
    BY <2>1, <2>5 DEF TickCommits, Closed, AccountsInv, DueInv, SweepTypeOK, Cycle
  <2> QED BY <2>1, <2>6, <2>7 DEF AccountsInv, ReadInv
<1>5. ASSUME NEW us \in SUBSET Units, EditUnits(us) PROVE AccountsInv'
  BY <1>5 DEF EditUnits, AccountsInv, ClosedAccounts, ReadInv, DueInv, PassedIn, MissedIn
<1>6. CASE TickFails
  BY <1>6 DEF TickFails, AccountsInv, ClosedAccounts, ReadInv, DueInv, PassedIn, MissedIn
<1>7. CASE NextMonth \/ UNCHANGED sweepVars
  BY <1>7 DEF NextMonth, sweepVars, AccountsInv, ClosedAccounts, ReadInv, DueInv, PassedIn, MissedIn
<1> QED BY <1>1, <1>2, <1>3, <1>4, <1>5, <1>6, <1>7 DEF SweepNext

LEMMA AccountsAlways == SweepSpec => []AccountsInv
<1>1. SweepInit => AccountsInv
  <2> SUFFICES ASSUME SweepInit PROVE AccountsInv
    OBVIOUS
  <2>1. \A c \in Months, u \in Units : rows[c][u]["missed"] = 0 /\ due[c] = {}
    BY DEF SweepInit, RunStatus
  <2> QED BY <2>1, Accounted DEF SweepInit, AccountsInv, ReadInv, DueInv
<1> QED BY <1>1, SweepTyped, AccountsStep, PTL DEF SweepSpec

\* A closed cycle accounts for every unit there was, also for one whose run is under way,
\* or that enters or leaves the scope, while the tick closes it.
THEOREM ClosedCyclesAccount == SweepSpec => []ClosedAccounts
<1>1. AccountsInv => ClosedAccounts
  BY DEF AccountsInv
<1> QED BY <1>1, AccountsAlways, PTL

\* What is closed stays as it is, whatever else happens.
THEOREM EvidenceStays == SweepSpec => EvidenceFrozen
<1> DEFINE Stays(c) == /\ cycles'[c] = cycles[c]
                       /\ \A u \in Units : rows'[c][u]["missed"] = rows[c][u]["missed"]
<1>1. SweepTypeOK /\ AccountsInv /\ [SweepNext]_sweepVars =>
        [\A c \in Months : cycles[c].status = "closed" => Stays(c)]_sweepVars
  <2> SUFFICES ASSUME SweepTypeOK, AccountsInv, [SweepNext]_sweepVars,
                      NEW c \in Months, cycles[c].status = "closed"
               PROVE  Stays(c)
    OBVIOUS
  <2>1. ASSUME NEW t \in Template, NEW k, PatchTemplate(t, k) PROVE Stays(c)
    BY <2>1, EditOpens DEF PatchTemplate
  <2>2. ASSUME NEW d \in Months, NEW u \in Units,
               Start(d, u) \/ Complete(d, u) \/ \E result \in {"passed", "failed"} : Inspect(d, u, result)
        PROVE  Stays(c)
    BY <2>2, RunsMove
  <2>3. CASE TickCommits
    <3>1. c \notin read.closing /\ c \notin read.opening
      BY <2>3 DEF TickCommits, AccountsInv, ReadInv
    <3> QED BY <2>3, <3>1 DEF TickCommits, Closed, Missed, SweepTypeOK
  <2>4. CASE UNCHANGED <<cycles, rows>>
    BY <2>4
  <2> QED BY <2>1, <2>2, <2>3, <2>4 DEF SweepNext, EditUnits, TickReads, TickFails, NextMonth, sweepVars
<1> QED BY <1>1, SweepTyped, AccountsAlways, PTL DEF SweepSpec, EvidenceFrozen

----------------------------------------------------------------------------
\* While the cadence has not been changed: windows are as the cadence has them, and one
\* that is closed is over; an active template has one open cycle, and what a tick has
\* read of it still goes for it.
WindowInv ==
    ~recast =>
        /\ \A c \in Months : cycles[c].status # "none" =>
              c <= month /\ cycles[c].ends = c + tpl.span - 1
        /\ \A c \in Months : cycles[c].status = "closed" => cycles[c].ends < month
        /\ \A c, d \in OpenCycles : c = d
        /\ tpl.active => OpenCycles # {}
TickInv ==
    ~recast /\ read # NoRead =>
        /\ read.today <= month /\ read.span = tpl.span
        /\ \E c \in OpenCycles :
            \/ read.closing = {} /\ read.opening = {} /\ read.today <= cycles[c].ends
            \/ /\ read.closing = {c} /\ cycles[c].ends < read.today
               /\ read.opening = {StartOf(read.span, read.today)}
CoverInv ==
    /\ ticked => read = NoRead \/ read.today = month
    /\ ticked /\ tpl.active /\ ~recast => \E c \in OpenCycles : month <= cycles[c].ends
CadenceInv == WindowInv /\ TickInv /\ CoverInv

\* Of a cadence that was not changed, the window of this month has not been closed.
LEMMA NotOver ==
    ASSUME SweepTypeOK, WindowInv, ~recast,
           cycles[StartOf(tpl.span, month)].status # "none"
    PROVE  /\ cycles[StartOf(tpl.span, month)].status = "open"
           /\ month <= cycles[StartOf(tpl.span, month)].ends
<1> DEFINE s == StartOf(tpl.span, month)
<1>1. /\ s \in Months /\ month <= s + tpl.span - 1
      /\ month \in Nat /\ s \in Nat /\ tpl.span \in Nat
  <2>1. month \in Months /\ tpl.span \in Spans
    BY DEF SweepTypeOK, Template
  <2>2. s \in Months /\ EndOf(tpl.span, month) = s + tpl.span - 1 /\ month <= EndOf(tpl.span, month)
    BY <2>1, Window
  <2>3. month <= s + tpl.span - 1
    BY <2>2
  <2> HIDE DEF s
  <2>4. month \in Nat /\ s \in Nat
    BY <2>1, <2>2, SweepAssumption DEF Months
  <2> QED BY <2>1, <2>2, <2>3, <2>4, SweepAssumption
<1>2. cycles[s].ends = s + tpl.span - 1
  BY <1>1 DEF WindowInv
<1>3. ~(cycles[s].ends < month)
  BY <1>1, <1>2
<1> QED BY <1>1, <1>2, <1>3 DEF WindowInv, SweepTypeOK, Cycle, CycleStatus

LEMMA ReadsStep == SweepTypeOK /\ CadenceInv /\ TickReads => CadenceInv'
<1> SUFFICES ASSUME SweepTypeOK, CadenceInv, TickReads PROVE CadenceInv'
  OBVIOUS
<1>1. PICK found \in OpenCycle :
        LET over == {c \in found : cycles[c].ends < month}
        IN  read' = [today |-> month, span |-> tpl.span, closing |-> over, scope |-> scope,
                     opening |-> Opening(over), passed |-> UNION {PassedIn(c) : c \in over}]
  BY DEF TickReads
<1> DEFINE over == {c \in found : cycles[c].ends < month}
           s == StartOf(tpl.span, month)
<1>2. UNCHANGED <<month, tpl, scope, cycles, rows, ticked, recast, due>> /\ tpl.active /\ read = NoRead
  BY DEF TickReads
<1>3. OpenCycles' = OpenCycles
  BY <1>2 DEF OpenCycles
<1>4. WindowInv'
  BY <1>2, <1>3 DEF CadenceInv, WindowInv
<1>5. read'.today = month /\ read'.span = tpl.span /\ read'.closing = over /\ read'.opening = Opening(over)
  BY <1>1
<1>6. ASSUME ~recast
      PROVE  \E c \in OpenCycles :
                \/ over = {} /\ Opening(over) = {} /\ month <= cycles[c].ends
                \/ over = {c} /\ cycles[c].ends < month /\ Opening(over) = {s}
  <2>1. PICK c \in OpenCycles : OpenCycles = {c} /\ found = {c}
    <3>1. PICK c \in OpenCycles : OpenCycles = {c}
      BY <1>2, <1>6 DEF CadenceInv, WindowInv
    <3> QED BY <3>1 DEF OpenCycle
  <2>2. /\ c \in Months /\ cycles[c].status = "open" /\ cycles[c].ends \in Nat /\ month \in Nat
        /\ tpl.span \in Spans
    BY SweepAssumption DEF OpenCycles, SweepTypeOK, Cycle, Months, Template
  <2>3. CASE cycles[c].ends < month
    <3>1. over = {c}
      BY <2>1, <2>3
    <3>2. s \in Months /\ month \in Months
      BY <2>2, Window DEF SweepTypeOK
    <3>3. cycles[s].status = "none"
      <4> SUFFICES ASSUME cycles[s].status # "none" PROVE FALSE
        OBVIOUS
      <4>1. cycles[s].status = "open" /\ month <= cycles[s].ends
        BY <1>6, <2>2, NotOver DEF CadenceInv
      <4>2. s = c
        BY <2>1, <3>2, <4>1 DEF OpenCycles
      <4> QED BY <2>2, <2>3, <4>1, <4>2
    <3>4. /\ Closed(over) \in [Months -> Cycle]
          /\ \A d \in Months : Closed(over)[d].status # "open"
          /\ Closed(over)[s].status = "none"
      BY <2>1, <2>2, <3>1, <3>2, <3>3 DEF Closed, SweepTypeOK, Cycle, CycleStatus, OpenCycles
    <3> DEFINE cs == Closed(over)
    <3>5. /\ \A d \in Months : Opened(cs, tpl.span, month)[d] # cs[d] => d = s
          /\ Opened(cs, tpl.span, month)[s].status = "open"
      <4> HIDE DEF cs
      <4>1. cs \in [Months -> Cycle] /\ (\A d \in Months : cs[d].status # "open") /\ cs[s].status = "none"
        BY <3>4 DEF cs
      <4>2. /\ \A d \in Months : Opened(cs, tpl.span, month)[d] # cs[d] => d = s
            /\ Opened(cs, tpl.span, month)[s] = [status |-> "open", ends |-> EndOf(tpl.span, month)]
        BY <2>2, <3>2, <4>1, OpenedOne
      <4> QED BY <4>2
    <3>6. Opening(over) = {s}
      BY <3>2, <3>4, <3>5 DEF Opening
    <3> QED BY <2>3, <3>1, <3>6
  <2>4. CASE ~(cycles[c].ends < month)
    <3>1. over = {}
      BY <2>1, <2>4
    <3>2. Closed({}) = cycles
      BY DEF Closed, SweepTypeOK
    <3>3. Opening({}) = {}
      <4>1. \A d \in Months : Opened(cycles, tpl.span, month)[d] = cycles[d]
        BY <2>2, OpenedOne DEF SweepTypeOK
      <4> QED BY <3>2, <4>1 DEF Opening
    <3>4. over = {} /\ Opening(over) = {}
      BY <3>1, <3>3
    <3>5. month <= cycles[c].ends
      BY <2>2, <2>4
    <3> HIDE DEF over
    <3> QED BY <3>4, <3>5
  <2> QED BY <2>3, <2>4
<1>7. TickInv'
  <2>1. month \in Nat
    BY SweepAssumption DEF SweepTypeOK, Months
  <2> QED BY <1>2, <1>3, <1>5, <1>6, <2>1 DEF TickInv
<1>8. CoverInv'
  BY <1>2, <1>3, <1>5 DEF CadenceInv, CoverInv
<1> QED BY <1>4, <1>7, <1>8 DEF CadenceInv

LEMMA CommitStep == SweepTypeOK /\ AccountsInv /\ CadenceInv /\ TickCommits => CadenceInv'
<1> SUFFICES ASSUME SweepTypeOK, AccountsInv, CadenceInv, TickCommits PROVE CadenceInv'
  OBVIOUS
<1>1. /\ read \in Read /\ read # NoRead /\ read' = NoRead /\ UNCHANGED <<month, tpl, recast>>
      /\ \A c \in read.opening : cycles[c].status = "none"
      /\ ticked' = (ticked \/ (tpl.active /\ read.today = month))
  BY DEF TickCommits, SweepTypeOK
<1>2. \A c \in Months :
        cycles'[c] = IF c \in read.opening
                       THEN [status |-> "open", ends |-> EndOf(read.span, read.today)]
                     ELSE IF c \in read.closing THEN [cycles[c] EXCEPT !.status = "closed"]
                     ELSE cycles[c]
  BY DEF TickCommits, Closed
<1>3. TickInv'
  BY <1>1 DEF TickInv
<1>4. CASE recast
  BY <1>1, <1>3, <1>4 DEF CadenceInv, WindowInv, CoverInv
<1>5. CASE ~recast
  <2>1. PICK c \in OpenCycles :
            \/ read.closing = {} /\ read.opening = {} /\ read.today <= cycles[c].ends
            \/ /\ read.closing = {c} /\ cycles[c].ends < read.today
               /\ read.opening = {StartOf(read.span, read.today)}
    BY <1>1, <1>5 DEF CadenceInv, TickInv
  <2>2. /\ OpenCycles = {c} /\ c \in Months /\ cycles[c].status = "open"
        /\ read.today <= month /\ read.span = tpl.span
    BY <1>1, <1>5, <2>1 DEF CadenceInv, WindowInv, TickInv, OpenCycles
  <2>3. CASE read.closing = {} /\ read.opening = {} /\ read.today <= cycles[c].ends
    <3>1. cycles' = cycles
      BY <1>2, <2>3 DEF TickCommits, Closed, SweepTypeOK
    <3>2. OpenCycles' = OpenCycles
      BY <3>1 DEF OpenCycles
    <3>3. WindowInv'
      BY <1>1, <3>1, <3>2 DEF CadenceInv, WindowInv
    <3>4. CoverInv'
      <4>1. ticked' => read.today = month
        BY <1>1 DEF CadenceInv, CoverInv
      <4> QED BY <1>1, <2>3, <3>1, <3>2, <4>1 DEF CoverInv
    <3> QED BY <1>3, <3>3, <3>4 DEF CadenceInv
  <2>4. CASE /\ read.closing = {c} /\ cycles[c].ends < read.today
             /\ read.opening = {StartOf(read.span, read.today)}
    <3> DEFINE s == StartOf(read.span, read.today)
    <3>1. /\ s \in Months /\ s <= read.today /\ EndOf(read.span, read.today) = s + read.span - 1
          /\ read.today <= EndOf(read.span, read.today)
      <4>1. read.span \in Spans /\ read.today \in Months
        BY <1>1 DEF Read
      <4> QED BY <4>1, Window DEF Months
    <3> HIDE DEF s
    <3>2. /\ read.opening = {s} /\ cycles[s].status = "none" /\ s # c
      BY <1>1, <2>2, <2>4 DEF s
    <3>3. /\ cycles'[s].status = "open" /\ cycles'[s].ends = s + tpl.span - 1
          /\ read.today <= cycles'[s].ends
      <4>1. cycles'[s] = [status |-> "open", ends |-> EndOf(read.span, read.today)]
        BY <1>2, <3>1, <3>2
      <4>2. cycles'[s].status = "open" /\ cycles'[s].ends = EndOf(read.span, read.today)
        BY <4>1
      <4> QED BY <2>2, <3>1, <4>2
    <3>4. cycles'[c].status = "closed" /\ cycles'[c].ends = cycles[c].ends
      BY <1>2, <2>2, <2>4, <3>2 DEF SweepTypeOK, Cycle
    <3>5. \A d \in Months : d # s /\ d # c => cycles'[d] = cycles[d]
      BY <1>2, <2>4, <3>2
    <3>6. OpenCycles' = {s}
      BY <2>2, <3>1, <3>3, <3>4, <3>5 DEF OpenCycles
    <3>7. /\ month \in Nat /\ s \in Nat /\ read.today \in Nat /\ cycles[c].ends \in Nat
      BY <1>1, <2>2, <3>1, SweepAssumption DEF SweepTypeOK, Months, Read, Cycle
    <3>8. s <= month /\ cycles[c].ends < month
      BY <2>2, <2>4, <3>1, <3>7
    <3>9. WindowInv'
      <4>1. \A d \in Months : cycles'[d].status # "none" =>
              d <= month /\ cycles'[d].ends = d + tpl.span - 1
        BY <1>5, <2>2, <3>3, <3>4, <3>5, <3>8 DEF CadenceInv, WindowInv
      <4>2. \A d \in Months : cycles'[d].status = "closed" => cycles'[d].ends < month
        BY <1>5, <3>3, <3>4, <3>5, <3>8 DEF CadenceInv, WindowInv
      <4> QED BY <1>1, <3>6, <4>1, <4>2 DEF WindowInv
    <3>10. CoverInv'
      <4>1. ticked' => read.today = month
        BY <1>1 DEF CadenceInv, CoverInv
      <4> QED BY <1>1, <3>3, <3>6, <4>1 DEF CoverInv
    <3> QED BY <1>3, <3>9, <3>10 DEF CadenceInv
  <2> QED BY <2>1, <2>3, <2>4
<1> QED BY <1>4, <1>5

LEMMA EditStep ==
    ASSUME NEW t \in Template, NEW k
    PROVE  SweepTypeOK /\ CadenceInv /\ PatchTemplate(t, k) => CadenceInv'
<1> SUFFICES ASSUME SweepTypeOK, CadenceInv, PatchTemplate(t, k) PROVE CadenceInv'
  OBVIOUS
<1>1. /\ UNCHANGED <<month, read>> /\ tpl' = t /\ ~ticked' /\ ticked' \in BOOLEAN
      /\ recast' = (recast \/ t.span # tpl.span)
      /\ cycles' = IF t.active THEN Opened(cycles, t.span, month) ELSE cycles
  BY DEF PatchTemplate
<1>2. CoverInv'
  BY <1>1 DEF CoverInv
<1>3. CASE recast'
  BY <1>1, <1>2, <1>3 DEF CadenceInv, WindowInv, TickInv
<1>4. CASE ~recast'
  <2> DEFINE s == StartOf(t.span, month)
  <2>1. ~recast /\ t.span = tpl.span /\ t.span \in Spans /\ month \in Months
    BY <1>1, <1>4 DEF Template, SweepTypeOK
  <2>2. /\ s \in Months /\ s <= month /\ EndOf(t.span, month) = s + t.span - 1
    BY <2>1, Window DEF Months
  <2>3. CASE t.active /\ OpenCycles = {}
    <3>1. read = NoRead
      BY <2>1, <2>3 DEF CadenceInv, TickInv
    <3>2. cycles[s].status = "none"
      <4> SUFFICES ASSUME cycles[s].status # "none" PROVE FALSE
        OBVIOUS
      <4>1. cycles[s].status = "open"
        BY <2>1, NotOver DEF CadenceInv
      <4> QED BY <2>2, <2>3, <4>1 DEF OpenCycles
    <3>3. /\ cycles'[s] = [status |-> "open", ends |-> EndOf(t.span, month)]
          /\ \A d \in Months : d # s => cycles'[d] = cycles[d]
      <4>1. cycles \in [Months -> Cycle] /\ \A d \in Months : cycles[d].status # "open"
        BY <2>3 DEF SweepTypeOK, OpenCycles
      <4>2. /\ Opened(cycles, t.span, month)[s] = [status |-> "open", ends |-> EndOf(t.span, month)]
            /\ \A d \in Months : d # s => Opened(cycles, t.span, month)[d] = cycles[d]
        BY <2>1, <3>2, <4>1, OpenedOne
      <4> QED BY <1>1, <2>3, <4>2
    <3> HIDE DEF s
    <3>4. cycles'[s].status = "open" /\ cycles'[s].ends = s + t.span - 1
      <4>1. cycles'[s].status = "open" /\ cycles'[s].ends = EndOf(t.span, month)
        BY <3>3
      <4> QED BY <2>2, <4>1
    <3>5. OpenCycles' = {s}
      BY <2>2, <2>3, <3>3, <3>4 DEF OpenCycles
    <3>6. WindowInv'
      <4>1. \A d \in Months : cycles'[d].status # "none" =>
              d <= month /\ cycles'[d].ends = d + t.span - 1
        BY <2>1, <2>2, <3>3, <3>4 DEF CadenceInv, WindowInv
      <4>2. \A d \in Months : cycles'[d].status = "closed" => cycles'[d].ends < month
        BY <2>1, <3>3, <3>4 DEF CadenceInv, WindowInv
      <4> QED BY <1>1, <3>5, <4>1, <4>2 DEF WindowInv
    <3>7. TickInv'
      BY <1>1, <3>1 DEF TickInv
    <3> QED BY <1>2, <3>6, <3>7 DEF CadenceInv
  <2>4. CASE ~(t.active /\ OpenCycles = {})
    <3>1. cycles' = cycles
      <4>1. CASE t.active
        <5>1. PICK c \in Months : cycles[c].status = "open"
          BY <2>4, <4>1 DEF OpenCycles
        <5> QED BY <1>1, <4>1, <5>1 DEF Opened
      <4>2. CASE ~t.active
        BY <1>1, <4>2
      <4> QED BY <4>1, <4>2
    <3>2. OpenCycles' = OpenCycles
      BY <3>1 DEF OpenCycles
    <3>3. WindowInv' /\ TickInv'
      BY <1>1, <2>1, <2>4, <3>1, <3>2 DEF CadenceInv, WindowInv, TickInv
    <3> QED BY <1>2, <3>3 DEF CadenceInv
  <2> QED BY <2>3, <2>4
<1> QED BY <1>3, <1>4

LEMMA CadenceStep == SweepTypeOK /\ AccountsInv /\ CadenceInv /\ [SweepNext]_sweepVars => CadenceInv'
<1> SUFFICES ASSUME SweepTypeOK, AccountsInv, CadenceInv, [SweepNext]_sweepVars PROVE CadenceInv'
  OBVIOUS
<1>1. CASE UNCHANGED <<month, tpl, cycles, read, ticked, recast>>
  <2>1. OpenCycles' = OpenCycles
    BY <1>1 DEF OpenCycles
  <2> QED BY <1>1, <2>1 DEF CadenceInv, WindowInv, TickInv, CoverInv
<1>2. CASE TickFails
  <2>1. OpenCycles' = OpenCycles
    BY <1>2 DEF OpenCycles, TickFails
  <2> QED BY <1>2, <2>1 DEF TickFails, CadenceInv, WindowInv, TickInv, CoverInv
<1>3. CASE NextMonth
  <2>1. OpenCycles' = OpenCycles /\ UNCHANGED <<tpl, cycles, read, recast>> /\ month' = month + 1
        /\ ticked' = FALSE
    BY <1>3 DEF OpenCycles, NextMonth
  <2>2. /\ month \in Int /\ \A c \in Months : c \in Int /\ cycles[c].ends \in Int
        /\ read # NoRead => read.today \in Int
    BY SweepAssumption DEF SweepTypeOK, Months, Read, Cycle
  <2>3. WindowInv'
    BY <2>1, <2>2 DEF CadenceInv, WindowInv
  <2>4. TickInv'
    BY <2>1, <2>2 DEF CadenceInv, TickInv
  <2>5. CoverInv'
    BY <2>1 DEF CoverInv
  <2> QED BY <2>3, <2>4, <2>5 DEF CadenceInv
<1>4. ASSUME NEW c \in Months, NEW u \in Units,
             Start(c, u) \/ Complete(c, u) \/ \E result \in {"passed", "failed"} : Inspect(c, u, result)
      PROVE  CadenceInv'
  BY <1>1, <1>4 DEF Start, Complete, Inspect
<1>5. ASSUME NEW us \in SUBSET Units, EditUnits(us) PROVE CadenceInv'
  BY <1>1, <1>5 DEF EditUnits
<1>6. CASE UNCHANGED sweepVars
  BY <1>1, <1>6 DEF sweepVars
<1> QED BY <1>2, <1>3, <1>4, <1>5, <1>6, EditStep, ReadsStep, CommitStep DEF SweepNext

LEMMA CadenceInit == SweepInit => CadenceInv
<1> SUFFICES ASSUME SweepInit PROVE CadenceInv
  OBVIOUS
<1> DEFINE none == [c \in Months |-> [status |-> "none", ends |-> 0]]
           s == StartOf(tpl.span, month)
<1>1. read = NoRead /\ ticked = FALSE /\ month \in Months /\ tpl.span \in Spans
  BY SweepAssumption DEF SweepInit, Months, Template
<1>2. none \in [Months -> Cycle] /\ \A c \in Months : none[c].status = "none"
  BY DEF Cycle, CycleStatus
<1>3. s \in Months /\ s <= month /\ EndOf(tpl.span, month) = s + tpl.span - 1
  BY <1>1, Window DEF Months
<1>4. cycles = IF tpl.active THEN Opened(none, tpl.span, month) ELSE none
  BY DEF SweepInit
<1> HIDE DEF none, s
<1>5. CASE tpl.active
  <2>1. /\ cycles[s] = [status |-> "open", ends |-> EndOf(tpl.span, month)]
        /\ \A d \in Months : d # s => cycles[d].status = "none"
    BY <1>1, <1>2, <1>3, <1>4, <1>5, OpenedOne DEF s
  <2>2. cycles[s].status = "open" /\ cycles[s].ends = EndOf(tpl.span, month)
    BY <2>1
  <2>3. OpenCycles = {s}
    BY <1>3, <2>1, <2>2 DEF OpenCycles
  <2> QED BY <1>1, <1>3, <2>1, <2>2, <2>3 DEF CadenceInv, WindowInv, TickInv, CoverInv
<1>6. CASE ~tpl.active
  <2>1. OpenCycles = {}
    BY <1>2, <1>4, <1>6 DEF OpenCycles
  <2> QED BY <1>1, <1>2, <1>4, <1>6, <2>1 DEF CadenceInv, WindowInv, TickInv, CoverInv
<1> QED BY <1>5, <1>6

LEMMA CadenceAlways == SweepSpec => []CadenceInv
BY CadenceInit, CadenceStep, SweepTyped, AccountsAlways, PTL DEF SweepSpec

\* A template whose cadence is never changed has at most one open cycle, however long a
\* tick takes and whatever is edited meanwhile.
THEOREM OneCycleOpen == SweepSpec => []OneOpenCycle
<1>1. CadenceInv => OneOpenCycle
  BY DEF CadenceInv, WindowInv, OneOpenCycle
<1> QED BY <1>1, CadenceAlways, PTL

\* ... and once a tick has been through it, the open cycle is the one of the month.
THEOREM TickCovers == SweepSpec => []TickedMeansCovered
<1>1. CadenceInv => TickedMeansCovered
  <2> SUFFICES ASSUME CadenceInv, ticked, tpl.active, ~recast
               PROVE  \E c \in OpenCycles : c <= month /\ month <= cycles[c].ends
    BY DEF TickedMeansCovered
  <2>1. PICK c \in OpenCycles : month <= cycles[c].ends
    BY DEF CadenceInv, CoverInv
  <2> QED BY <2>1 DEF CadenceInv, WindowInv, OpenCycles
<1> QED BY <1>1, CadenceAlways, PTL

\* Together: the one open cycle is the one of the month.
THEOREM CycleIsTheMonths == SweepSpec => []CycleOfTheMonth
<1>1. OneOpenCycle /\ TickedMeansCovered => CycleOfTheMonth
  BY DEF CycleOfTheMonth
<1> QED BY <1>1, OneCycleOpen, TickCovers, PTL

(***************************************************************************)
(* The sheet of a run                                                      *)
(***************************************************************************)

\* What SheetSettles needs to be inductive: a reading that is out of range is there, since
\* apply_answer decides both at once; and the orders are compared when they are raised.
SheetInv ==
    /\ \A i \in Entered : answer[i].far => answer[i].value # None
    /\ job.status \in {"completed", "passed", "failed"} => orders = OutOfRange

LEMMA SheetStep ==
    ASSUME SheetTypeOK, SheetInv, [SheetNext]_sheetVars
    PROVE  SheetTypeOK' /\ SheetInv'
<1> USE SheetAssumption
<1>1. ASSUME NEW i \in Entered, NEW row \in LineRow, SaveItem(i, row)
      PROVE  SheetTypeOK' /\ SheetInv'
  BY <1>1 DEF SaveItem, SheetTypeOK, SheetInv, OutOfRange
<1>2. ASSUME NEW u \in Fitters, BeginSheet(u) PROVE SheetTypeOK' /\ SheetInv'
  <2>1. /\ job' = [job EXCEPT !.status = "in_progress", !.by = u]
        /\ answer' = [i \in Entered |-> [NoAnswer EXCEPT !.on = line[i].active]]
        /\ UNCHANGED <<line, proof, orders, rank>>
    BY <1>2 DEF BeginSheet
  <2>2. job' \in Job /\ job'.status = "in_progress"
    BY <2>1 DEF SheetTypeOK, Job, JobStatus
  <2>3. ASSUME NEW i \in Entered PROVE answer'[i] \in AnswerType(i) /\ ~answer'[i].far
    <3>1. line[i].active \in BOOLEAN
      BY DEF SheetTypeOK, LineRow
    <3>2. answer'[i] = [on |-> line[i].active, value |-> None, far |-> FALSE]
      BY <2>1 DEF NoAnswer
    <3> QED BY <3>1, <3>2 DEF AnswerType
  <2>4. DOMAIN answer' = Entered
    BY <2>1
  <2> QED BY <2>1, <2>2, <2>3, <2>4 DEF SheetTypeOK, SheetInv
<1>3. ASSUME NEW u \in Fitters, CompleteSheet(u) PROVE SheetTypeOK' /\ SheetInv'
  <2>1. /\ job' = [job EXCEPT !.status = "completed"]
        /\ orders' = OutOfRange
        /\ UNCHANGED <<line, answer, proof, rank>>
    BY <1>3 DEF CompleteSheet
  <2>2. job' \in Job
    BY <2>1 DEF SheetTypeOK, Job, JobStatus
  <2> QED BY <2>1, <2>2 DEF SheetTypeOK, SheetInv, OutOfRange
<1>4. ASSUME NEW u \in Fitters, NEW i \in Entered, NEW v \in Values(i) \cup {None},
             SaveAnswer(u, i, v)
      PROVE  SheetTypeOK' /\ SheetInv'
  <2> DEFINE far == EntryKind[i] = "number" /\ v # None /\ line[i].top # None
                       /\ v > line[i].top
  <2>1. /\ job.status = "in_progress"
        /\ answer' = [answer EXCEPT ![i].value = v, ![i].far = far]
        /\ UNCHANGED <<line, proof, job, orders, rank>>
    BY <1>4 DEF SaveAnswer
  <2>2. far \in BOOLEAN /\ (far => v # None)
    OBVIOUS
  <2> HIDE DEF far
  <2>3. DOMAIN answer' = Entered /\ answer[i] \in AnswerType(i)
    BY <2>1 DEF SheetTypeOK
  <2>4. answer'[i] = [on |-> answer[i].on, value |-> v, far |-> far]
    BY <2>1, <2>3 DEF SheetTypeOK, AnswerType
  <2>5. \A j \in Entered \ {i} : answer'[j] = answer[j]
    BY <2>1 DEF SheetTypeOK
  <2>6. answer'[i] \in AnswerType(i) /\ (answer'[i].far => answer'[i].value # None)
    BY <2>2, <2>3, <2>4 DEF AnswerType
  <2> QED BY <2>1, <2>3, <2>5, <2>6 DEF SheetTypeOK, SheetInv
<1>5. ASSUME NEW u \in Fitters, NEW i \in Entered, AttachPhoto(u, i)
      PROVE  SheetTypeOK' /\ SheetInv'
  BY <1>5 DEF AttachPhoto, SheetTypeOK, SheetInv, OutOfRange
<1>6. ASSUME NEW u \in Fitters, NEW result \in {"passed", "failed"}, InspectSheet(u, result)
      PROVE  SheetTypeOK' /\ SheetInv'
  <2>1. /\ job.status = "completed"
        /\ job' = [job EXCEPT !.status = result, !.inspector = u]
        /\ UNCHANGED <<line, answer, proof, orders, rank>>
    BY <1>6 DEF InspectSheet
  <2>2. job' \in Job
    BY <2>1 DEF SheetTypeOK, Job, JobStatus
  <2> QED BY <2>1, <2>2 DEF SheetTypeOK, SheetInv, OutOfRange
<1>7. ASSUME NEW u \in Fitters, NEW r \in Rank, Rerank(u, r) PROVE SheetTypeOK' /\ SheetInv'
  BY <1>7 DEF Rerank, SheetTypeOK, SheetInv, OutOfRange
<1>8. CASE UNCHANGED sheetVars
  BY <1>8 DEF sheetVars, SheetTypeOK, SheetInv, OutOfRange
<1> QED BY <1>1, <1>2, <1>3, <1>4, <1>5, <1>6, <1>7, <1>8 DEF SheetNext

LEMMA SheetAlways == SheetSpec => [](SheetTypeOK /\ SheetInv)
<1>1. SheetInit => SheetTypeOK /\ SheetInv
  <2> SUFFICES ASSUME SheetInit PROVE SheetTypeOK /\ SheetInv
    OBVIOUS
  <2>1. line \in [Entered -> LineRow] /\ job \in Job /\ proof = {} /\ orders = {}
    BY DEF SheetInit, LineRow, Job, JobStatus
  <2>2. DOMAIN answer = Entered /\ \A i \in Entered : answer[i] = NoAnswer
    BY DEF SheetInit
  <2>3. \A i \in Entered : NoAnswer \in AnswerType(i)
    BY DEF NoAnswer, AnswerType
  <2>4. rank \in [Fitters -> Rank]
    <3>1. [role : {"dept_staff", "supervisor"}, active : {TRUE}] \subseteq Rank
      BY DEF Rank
    <3> QED BY <3>1 DEF SheetInit
  <2>5. SheetTypeOK
    BY <2>1, <2>2, <2>3, <2>4 DEF SheetTypeOK
  <2>6. SheetInv
    BY <2>2 DEF SheetInv, NoAnswer, SheetInit
  <2> QED BY <2>5, <2>6
<1>2. SheetTypeOK /\ SheetInv /\ [SheetNext]_sheetVars => (SheetTypeOK /\ SheetInv)'
  BY SheetStep
<1> QED BY <1>1, <1>2, PTL DEF SheetSpec

\* Whoever may inspect comes and goes, one of them may always inspect a completed run, its
\* own starter only where nobody else is left (pm_inspection.py:69-76, 88-92); and the
\* orders it raised are those of readings out of range, which are there to be seen
\* (pm_runs.py:141-165, typed_items.py apply_answer).
THEOREM SheetAlwaysSettles == SheetSpec => []SheetSettles
<1>1. SheetTypeOK /\ SheetInv => SheetSettles
  <2> SUFFICES ASSUME SheetTypeOK, SheetInv, job.status \in {"completed", "passed", "failed"}
               PROVE  /\ (\E u \in Fitters : Inspects(u)) => \E u \in Fitters : MayInspect(u)
                      /\ orders = OutOfRange
                      /\ \A i \in orders : answer[i].value # None
    BY DEF SheetSettles
  <2>1. orders = OutOfRange
    BY DEF SheetInv
  <2>2. \A i \in orders : answer[i].value # None
    BY <2>1 DEF SheetInv, OutOfRange
  <2>3. ASSUME NEW u \in Fitters, Inspects(u) PROVE \E v \in Fitters : MayInspect(v)
    <3>1. CASE job.by # u \/ SoleInspector(u)
      BY <2>3, <3>1 DEF MayInspect
    <3>2. CASE job.by = u /\ ~SoleInspector(u)
      <4>1. PICK v \in Fitters : Inspects(v) /\ v # u
        BY <2>3, <3>2 DEF SoleInspector
      <4> QED BY <3>2, <4>1 DEF MayInspect
    <3> QED BY <3>1, <3>2
  <2> QED BY <2>1, <2>2, <2>3
<1> QED BY <1>1, SheetAlways, PTL

(***************************************************************************)
(* Scheduled templates                                                     *)
(***************************************************************************)

\* A template's row is about the tick that went through it last, or about its last change;
\* nothing is made before its time.
PlanKept(p) ==
    /\ visited[p] <= instant /\ since[p] <= instant
    /\ \A o \in Instants : o > instant => runs[p][o] = 0
    /\ \A o \in bare[p] : o <= visited[p]
    /\ plan[p] # None /\ Due(plan[p]) =>
         /\ plan[p].last \in {since[p], visited[p]}
         /\ visited[p] <= plan[p].last /\ since[p] <= plan[p].last
         /\ \A o \in Instants : o > since[p] =>
              runs[p][o] = IF o \in plan[p].fields.rule \ bare[p] /\ o <= visited[p] THEN 1 ELSE 0

\* What a tick has read of a template is still so, or the template was changed at this very
\* instant, and what is due to it comes later.
TickKept(p) ==
    /\ p \in firing.aimed => p \in firing.plans
    /\ p \in firing.plans => plan[p] # None
    /\ p \notin firing.plans => firing.due[p] = {}
    /\ \A o \in firing.due[p] : o <= instant
    /\ plan[p] # None /\ Due(plan[p]) =>
         \/ since[p] = instant
         \/ p \in firing.plans /\ firing.due[p] = Occurrences(plan[p])

PlansInv ==
    /\ \A p \in Plans : PlanKept(p)
    /\ firing # None => firing.now = instant /\ \A p \in Plans : TickKept(p)

LEMMA PlanRows ==
    ASSUME NEW row \in Plan
    PROVE  /\ row # None
           /\ row.fields \in Fields /\ Valid(row.fields)
           /\ row.active \in BOOLEAN
           /\ row.last \in Instants \cup {None}
           /\ Due(row) => row.fields.rule \in SUBSET Instants
<1>1. /\ row # None
      /\ row.fields \in Fields /\ Valid(row.fields)
      /\ row.active \in BOOLEAN
      /\ row.last \in Instants \cup {None}
  BY PlansAssumption DEF Plan
<1>2. row.fields.rule \in Rules \cup {None}
  BY <1>1 DEF Fields
<1> QED BY <1>1, <1>2, PlansAssumption DEF Due, Valid

\* create and patch: a template that is due from now on starts now, or has not changed.
LEMMA Edited ==
    ASSUME PlansTypeOK, PlansInv, NEW p \in Plans, NEW new \in Plan,
           plan' = [plan EXCEPT ![p] = new],
           since' = since \/ since' = [since EXCEPT ![p] = instant],
           aimed' \in SUBSET Plans,
           UNCHANGED <<instant, runs, swept, firing, visited, bare>>,
           Due(new) =>
               \/ since'[p] = instant /\ new.last = instant
               \/ /\ since' = since /\ plan[p] # None /\ Due(plan[p])
                  /\ new.last = plan[p].last /\ new.fields.rule = plan[p].fields.rule
    PROVE  PlansTypeOK' /\ PlansInv'
<1> USE PlansAssumption
<1>1. /\ instant \in Nat /\ instant \in Instants
      /\ \A o \in Instants : o \in Nat
      /\ \A q \in Plans : visited[q] \in Nat /\ since[q] \in Nat
  BY DEF PlansTypeOK, Instants
<1>2. /\ plan'[p] = new /\ new # None
      /\ \A q \in Plans \ {p} : plan'[q] = plan[q] /\ since'[q] = since[q]
      /\ since'[p] = since[p] \/ since'[p] = instant
  BY PlanRows DEF PlansTypeOK
<1>3. PlansTypeOK'
  BY <1>1 DEF PlansTypeOK
<1>4. ASSUME NEW q \in Plans \ {p} PROVE PlanKept(q)'
  BY <1>2, <1>4 DEF PlansInv, PlanKept
<1>5. PlanKept(p)'
  <2>1. /\ visited'[p] <= instant' /\ since'[p] <= instant'
        /\ \A o \in Instants : o > instant' => runs'[p][o] = 0
        /\ \A o \in bare'[p] : o <= visited'[p]
    <3>1. /\ visited[p] <= instant /\ since[p] <= instant
          /\ \A o \in Instants : o > instant => runs[p][o] = 0
          /\ \A o \in bare[p] : o <= visited[p]
      BY DEF PlansInv, PlanKept
    <3>2. since'[p] <= instant
      BY <1>1, <1>2, <3>1
    <3> QED BY <3>1, <3>2
  <2>2. ASSUME since'[p] = instant, new.last = instant, NEW o \in Instants, o > since'[p]
        PROVE  runs'[p][o] = 0 /\ ~(o <= visited'[p])
    BY <1>1, <2>1, <2>2
  <2>3. CASE since'[p] = instant /\ new.last = instant
    <3>1. since'[p] <= new.last
      BY <1>1, <2>3
    <3> QED BY <1>1, <1>2, <2>1, <2>2, <2>3, <3>1 DEF PlanKept
  <2>4. CASE /\ since' = since /\ plan[p] # None /\ Due(plan[p])
             /\ new.last = plan[p].last /\ new.fields.rule = plan[p].fields.rule
    BY <1>2, <2>1, <2>4 DEF PlansInv, PlanKept
  <2>5. CASE ~Due(new)
    BY <1>2, <2>1, <2>5 DEF PlanKept
  <2> QED BY <2>3, <2>4, <2>5
<1>6. ASSUME firing # None, NEW q \in Plans PROVE TickKept(q)'
  <2>1. TickKept(q)
    BY <1>6 DEF PlansInv
  <2>2. CASE q # p
    <3>1. Occurrences(plan[q])' = Occurrences(plan[q])
      BY <1>2, <2>2 DEF Occurrences
    <3> QED BY <1>2, <2>1, <2>2, <3>1 DEF TickKept
  <2>3. CASE q = p
    <3>1. CASE /\ since' = since /\ plan[p] # None /\ Due(plan[p])
               /\ new.last = plan[p].last /\ new.fields.rule = plan[p].fields.rule
      <4>1. Occurrences(plan[p])' = Occurrences(plan[p])
        BY <1>2, <3>1 DEF Occurrences
      <4> QED BY <1>2, <2>1, <2>3, <3>1, <4>1 DEF TickKept
    <3>2. CASE ~Due(new) \/ since'[p] = instant
      BY <1>2, <2>1, <2>3, <3>2 DEF TickKept
    <3> QED BY <3>1, <3>2
  <2> QED BY <2>2, <2>3
<1>7. firing' # None => firing'.now = instant'
  BY DEF PlansInv
<1> QED BY <1>3, <1>4, <1>5, <1>6, <1>7 DEF PlansInv
\* Whatever leaves the rows, the histories and the instant alone keeps what is said of them.
LEMMA RowsKept ==
    ASSUME PlansInv, UNCHANGED <<instant, plan, runs, since, visited, bare>>
    PROVE  \A p \in Plans : PlanKept(p)'
BY DEF PlansInv, PlanKept

\* fire_scheduled reads.
LEMMA Reading ==
    ASSUME PlansTypeOK, PlansInv, FireReads
    PROVE  PlansTypeOK' /\ PlansInv'
<1> USE PlansAssumption
<1> DEFINE ps == {p \in Plans : plan[p] # None /\ Due(plan[p])}
           owed == [p \in Plans |-> IF p \in ps THEN Occurrences(plan[p]) ELSE {}]
<1>1. /\ firing' = [now |-> instant, plans |-> ps, aimed |-> aimed \cap ps, due |-> owed]
      /\ UNCHANGED <<instant, plan, aimed, runs, swept, since, visited, bare>>
  BY DEF FireReads
<1>2. ASSUME NEW p \in ps
      PROVE  Occurrences(plan[p]) \in SUBSET Instants
                /\ \A o \in Occurrences(plan[p]) : o <= instant
  <2>1. plan[p] \in Plan /\ Due(plan[p])
    BY DEF PlansTypeOK
  <2>2. plan[p].fields.rule \in SUBSET Instants
    BY <2>1, PlanRows
  <2> QED BY <2>2 DEF Occurrences
<1>3. owed \in [Plans -> SUBSET Instants]
  BY <1>2
<1>4. firing'.now = instant /\ firing'.plans = ps /\ firing'.aimed = aimed \cap ps
      /\ firing'.due = owed
  BY <1>1
<1>5. firing' \in Firing
  <2> HIDE DEF owed
  <2> QED BY <1>1, <1>3 DEF PlansTypeOK, Firing
<1>6. ASSUME NEW p \in Plans PROVE TickKept(p)'
  <2>1. Occurrences(plan[p])' = Occurrences(plan[p]) /\ Due(plan[p])' = Due(plan[p])
    BY <1>1 DEF Occurrences, Due
  <2>2. p \in ps <=> plan[p] # None /\ Due(plan[p])
    OBVIOUS
  <2>3. firing'.due[p] = IF p \in ps THEN Occurrences(plan[p]) ELSE {}
    BY <1>4
  <2> HIDE DEF ps, owed
  <2> QED BY <1>1, <1>2, <1>4, <2>1, <2>2, <2>3 DEF TickKept
<1>7. PlansTypeOK'
  BY <1>1, <1>5 DEF PlansTypeOK
<1> QED BY <1>1, <1>4, <1>6, <1>7, RowsKept DEF PlansInv

\* ... and commits, at the same instant.
LEMMA Committing ==
    ASSUME PlansTypeOK, PlansInv, FireCommits
    PROVE  PlansTypeOK' /\ PlansInv'
<1> USE PlansAssumption
<1>1. /\ firing # None
      /\ runs' = [p \in Plans |-> [o \in Instants |->
                      IF p \in firing.aimed /\ o \in firing.due[p] THEN runs[p][o] + 1
                      ELSE runs[p][o]]]
      /\ plan' = [p \in Plans |-> IF p \in firing.plans THEN [plan[p] EXCEPT !.last = firing.now]
                                  ELSE plan[p]]
      /\ visited' = [p \in Plans |-> IF p \in firing.plans THEN firing.now ELSE visited[p]]
      /\ bare' = [p \in Plans |-> IF p \in firing.aimed THEN bare[p]
                                  ELSE bare[p] \cup firing.due[p]]
      /\ firing' = None
      /\ UNCHANGED <<instant, aimed, swept, since>>
  BY DEF FireCommits
<1>2. /\ firing.now = instant /\ firing \in Firing
      /\ \A p \in Plans : firing.due[p] \in SUBSET Instants
  BY <1>1 DEF PlansInv, PlansTypeOK, Firing
<1>3. /\ instant \in Nat /\ instant \in Instants /\ \A o \in Instants : o \in Nat
      /\ \A p \in Plans : visited[p] \in Nat /\ since[p] \in Nat
      /\ \A p \in Plans, o \in Instants : runs[p][o] \in Nat
      /\ \A p \in Plans : bare[p] \in SUBSET Instants
  BY DEF PlansTypeOK, Instants
<1>4. ASSUME NEW p \in Plans, p \in firing.plans
      PROVE  plan[p] \in Plan /\ plan'[p] = [plan[p] EXCEPT !.last = instant]
                /\ plan'[p] \in Plan /\ plan'[p].last = instant
                /\ plan'[p].fields = plan[p].fields /\ plan'[p].active = plan[p].active
  <2>1. plan[p] # None /\ plan[p] \in Plan
    BY <1>1, <1>4 DEF PlansInv, TickKept, PlansTypeOK
  <2>2. plan'[p] = [plan[p] EXCEPT !.last = instant]
    BY <1>1, <1>2, <1>4
  <2> QED BY <1>3, <2>1, <2>2 DEF Plan
<1>5. PlansTypeOK'
  <2>1. plan' \in [Plans -> Plan \cup {None}]
    <3>1. \A p \in Plans : plan'[p] \in Plan \cup {None}
      BY <1>1, <1>4 DEF PlansTypeOK
    <3> QED BY <1>1, <3>1
  <2>2. visited' \in [Plans -> Instants] /\ bare' \in [Plans -> SUBSET Instants]
    BY <1>1, <1>2, <1>3 DEF PlansTypeOK
  <2>3. runs' \in [Plans -> [Instants -> Nat]]
    BY <1>1, <1>3
  <2> QED BY <1>1, <2>1, <2>2, <2>3 DEF PlansTypeOK
<1>6. ASSUME NEW p \in Plans, p \notin firing.plans PROVE PlanKept(p)'
  <2>1. firing.due[p] = {} /\ p \notin firing.aimed
    BY <1>1, <1>6 DEF PlansInv, TickKept
  <2>2. /\ plan'[p] = plan[p] /\ visited'[p] = visited[p] /\ bare'[p] = bare[p]
        /\ \A o \in Instants : runs'[p][o] = runs[p][o]
    BY <1>1, <1>6, <2>1
  <2> QED BY <1>1, <2>2 DEF PlansInv, PlanKept
<1>7. ASSUME NEW p \in Plans, p \in firing.plans PROVE PlanKept(p)'
  <2>1. /\ visited'[p] = instant /\ instant' = instant /\ since'[p] = since[p]
        /\ \A o \in Instants : runs'[p][o] =
               IF p \in firing.aimed /\ o \in firing.due[p] THEN runs[p][o] + 1 ELSE runs[p][o]
        /\ bare'[p] = IF p \in firing.aimed THEN bare[p] ELSE bare[p] \cup firing.due[p]
        /\ plan'[p] # None
    BY <1>1, <1>2, <1>4, <1>7, PlanRows
  <2>2. PlanKept(p) /\ TickKept(p) /\ plan[p] # None
    BY <1>1, <1>7 DEF PlansInv, TickKept
  <2>3. /\ visited'[p] <= instant' /\ since'[p] <= instant'
        /\ \A o \in bare'[p] : o <= visited'[p]
    <3>1. visited[p] \in Nat /\ visited[p] <= instant /\ since[p] <= instant /\ instant <= instant
      BY <1>3, <2>2 DEF PlanKept
    <3>2. ASSUME NEW o \in bare[p] PROVE o <= instant
      <4>1. o \in Nat /\ o <= visited[p]
        BY <1>3, <2>2 DEF PlanKept
      <4> QED BY <1>3, <3>1, <4>1
    <3>3. \A o \in firing.due[p] : o <= instant
      BY <2>2 DEF TickKept
    <3> QED BY <2>1, <3>1, <3>2, <3>3
  <2>4. ASSUME NEW o \in Instants, o > instant' PROVE runs'[p][o] = 0
    <3>1. o \notin firing.due[p] /\ runs[p][o] = 0
      BY <1>2, <1>3, <2>1, <2>2, <2>4 DEF PlanKept, TickKept
    <3> QED BY <2>1, <3>1
  <2>5. ASSUME Due(plan'[p]), NEW o \in Instants, o > since'[p]
        PROVE  runs'[p][o] = IF o \in plan'[p].fields.rule \ bare'[p] /\ o <= visited'[p]
                             THEN 1 ELSE 0
    <3>1. Due(plan[p]) /\ plan'[p].fields.rule = plan[p].fields.rule
      BY <1>4, <1>7, <2>5 DEF Due
    <3>2. CASE since[p] = instant
      <4>1. o > instant /\ ~(o <= visited'[p])
        BY <1>3, <2>1, <2>5, <3>2
      <4> QED BY <2>1, <2>4, <4>1
    <3>3. CASE since[p] # instant
      <4>0. o \in Nat /\ instant \in Nat /\ visited[p] \in Nat /\ since[p] \in Nat
        BY <1>3
      <4>1. firing.due[p] = Occurrences(plan[p]) /\ plan[p].last \in {since[p], visited[p]}
            /\ plan[p].last \in Nat /\ plan[p].last # None /\ visited[p] <= plan[p].last
        BY <1>3, <2>2, <3>1, <3>3 DEF TickKept, PlanKept
      <4>2. o \in firing.due[p] <=> o \in plan[p].fields.rule /\ plan[p].last < o /\ o <= instant
        BY <1>3, <4>1 DEF Occurrences
      <4>3. runs[p][o] = IF o \in plan[p].fields.rule \ bare[p] /\ o <= visited[p] THEN 1 ELSE 0
        BY <2>1, <2>2, <2>5, <3>1 DEF PlanKept
      <4>4. CASE o <= visited[p]
        <5>1. o \notin firing.due[p]
          BY <4>0, <4>1, <4>2, <4>4
        <5>2. o <= visited'[p]
          <6>1. visited[p] <= instant
            BY <2>2 DEF PlanKept
          <6> QED BY <2>1, <4>0, <4>4, <6>1
        <5>3. o \in bare'[p] <=> o \in bare[p]
          BY <2>1, <5>1
        <5> QED BY <2>1, <3>1, <4>3, <4>4, <5>1, <5>2, <5>3
      <4>5. CASE o > visited[p] /\ o <= instant
        <5>1. o \in firing.due[p] <=> o \in plan[p].fields.rule
          BY <1>3, <2>1, <2>5, <4>1, <4>2, <4>5
        <5>2. ~(o <= visited[p]) /\ runs[p][o] = 0
          BY <4>0, <4>3, <4>5
        <5>3. o \notin bare[p]
          BY <2>2, <5>2 DEF PlanKept
        <5>4. CASE p \in firing.aimed
          BY <2>1, <3>1, <4>5, <5>1, <5>2, <5>3, <5>4
        <5>5. CASE p \notin firing.aimed
          BY <2>1, <3>1, <4>5, <5>1, <5>2, <5>3, <5>5
        <5> QED BY <5>4, <5>5
      <4>6. CASE o > instant
        <5>1. runs'[p][o] = 0 /\ ~(o <= visited'[p])
          BY <1>3, <2>1, <2>4, <4>6
        <5> QED BY <5>1
      <4> QED BY <1>3, <4>4, <4>5, <4>6
    <3> QED BY <3>2, <3>3
  <2>6. /\ plan'[p].last \in {since'[p], visited'[p]}
        /\ visited'[p] <= plan'[p].last /\ since'[p] <= plan'[p].last
    <3>1. plan'[p].last = instant
      BY <1>4, <1>7
    <3>2. instant <= instant
      BY <1>3
    <3> QED BY <2>1, <2>3, <3>1, <3>2
  <2> QED BY <2>3, <2>4, <2>5, <2>6 DEF PlanKept
<1> QED BY <1>1, <1>5, <1>6, <1>7 DEF PlansInv
LEMMA PlansStep ==
    ASSUME ~Overrun, PlansTypeOK, PlansInv, [PlansNext]_plansVars
    PROVE  PlansTypeOK' /\ PlansInv'
<1> USE PlansAssumption
<1>0. instant \in Nat /\ instant \in Instants /\ LastTime \in Nat
  BY DEF PlansTypeOK, Instants
<1>1. ASSUME NEW p \in Plans, NEW f \in Fields, NEW active \in BOOLEAN, CreatePlan(p, f, active)
      PROVE  PlansTypeOK' /\ PlansInv'
  <2> DEFINE new == [fields |-> f, active |-> active,
                     last |-> IF f.mode = "scheduled" THEN instant ELSE None]
  <2>1. /\ Valid(f) /\ plan' = [plan EXCEPT ![p] = new]
        /\ aimed' \in {aimed, aimed \cup {p}}
        /\ since' = [since EXCEPT ![p] = instant]
        /\ UNCHANGED <<instant, runs, swept, firing, visited, bare>>
    BY <1>1 DEF CreatePlan
  <2>2. new \in Plan
    BY <1>0, <2>1 DEF Plan
  <2>3. Due(new) => new.last = instant
    BY DEF Due
  <2>4. since'[p] = instant /\ aimed' \in SUBSET Plans
    BY <2>1 DEF PlansTypeOK
  <2> HIDE DEF new
  <2> QED BY <2>1, <2>2, <2>3, <2>4, Edited
<1>2. ASSUME NEW p \in Plans, NEW f \in Fields, NEW active \in BOOLEAN, PatchPlan(p, f, active)
      PROVE  PlansTypeOK' /\ PlansInv'
  <2> DEFINE new == [fields |-> f, active |-> active, last |-> From(plan[p], f, active)]
  <2>1. /\ plan[p] # None /\ Valid(f) /\ plan' = [plan EXCEPT ![p] = new]
        /\ since' = IF Due(plan[p]) /\ plan[p].fields.rule = f.rule THEN since
                    ELSE [since EXCEPT ![p] = instant]
        /\ UNCHANGED <<instant, aimed, runs, swept, firing, visited, bare>>
    BY <1>2 DEF PatchPlan
  <2>2. plan[p] \in Plan /\ plan[p].last \in Instants \cup {None} /\ plan[p].active \in BOOLEAN
        /\ plan[p].fields \in Fields
    BY <2>1, PlanRows DEF PlansTypeOK
  <2>3. From(plan[p], f, active) \in Instants \cup {None}
    BY <1>0, <2>2 DEF From
  <2>4. new \in Plan
    BY <2>1, <2>3 DEF Plan
  <2>5. CASE Due(plan[p]) /\ plan[p].fields.rule = f.rule
    <3>1. since' = since /\ (Due(new) => new.last = plan[p].last)
             /\ new.fields.rule = plan[p].fields.rule
      BY <2>1, <2>5 DEF Due, From
    <3> HIDE DEF new
    <3>2. aimed' \in SUBSET Plans
      BY <2>1 DEF PlansTypeOK
    <3> QED BY <2>1, <2>4, <2>5, <3>1, <3>2, Edited
  <2>6. CASE ~(Due(plan[p]) /\ plan[p].fields.rule = f.rule)
    <3>1. since' = [since EXCEPT ![p] = instant] /\ since'[p] = instant
      BY <2>1, <2>6 DEF PlansTypeOK
    <3>2. Due(new) => new.last = instant
      BY <2>2, <2>6 DEF Due, From, Fields
    <3> HIDE DEF new
    <3>3. aimed' \in SUBSET Plans
      BY <2>1 DEF PlansTypeOK
    <3> QED BY <2>1, <2>4, <3>1, <3>2, <3>3, Edited
  <2> QED BY <2>5, <2>6
<1>a. ASSUME UNCHANGED <<instant, plan, runs, since, visited, bare, firing>>,
             aimed' \in SUBSET Plans, swept' \in SUBSET Plans
      PROVE  PlansTypeOK' /\ PlansInv'
  <2>1. \A p \in Plans : plan[p] # None /\ firing # None => Occurrences(plan[p])' = Occurrences(plan[p])
    BY <1>a DEF Occurrences
  <2>2. ASSUME firing # None, NEW p \in Plans PROVE TickKept(p)'
    BY <1>a, <2>1, <2>2 DEF PlansInv, TickKept, Due
  <2>3. firing' # None => firing'.now = instant'
    BY <1>a DEF PlansInv
  <2>4. PlansTypeOK'
    BY <1>a DEF PlansTypeOK
  <2> QED BY <1>a, <2>2, <2>3, <2>4, RowsKept DEF PlansInv
<1>3. ASSUME NEW p \in Plans, AimPlan(p) PROVE PlansTypeOK' /\ PlansInv'
  <2>1. /\ aimed' \in SUBSET Plans /\ swept' = swept
        /\ UNCHANGED <<instant, plan, runs, since, visited, bare, firing>>
    BY <1>3 DEF AimPlan, PlansTypeOK
  <2> QED BY <1>a, <2>1 DEF PlansTypeOK
<1>4. ASSUME NEW p \in Plans, StartSweepRun(p) PROVE PlansTypeOK' /\ PlansInv'
  <2>1. /\ swept' \in SUBSET Plans /\ aimed' = aimed
        /\ UNCHANGED <<instant, plan, runs, since, visited, bare, firing>>
    BY <1>4 DEF StartSweepRun, PlansTypeOK
  <2> QED BY <1>a, <2>1 DEF PlansTypeOK
<1>5. CASE FireReads
  BY <1>5, Reading
<1>6. CASE FireCommits
  BY <1>6, Committing
<1>7. CASE FireFails
  <2>1. /\ firing' = None
        /\ UNCHANGED <<instant, plan, aimed, runs, swept, since, visited, bare>>
    BY <1>7 DEF FireFails
  <2> QED BY <2>1, RowsKept DEF PlansTypeOK, PlansInv
<1>8. CASE Later
  <2>1. /\ firing = None /\ instant' = instant + 1 /\ instant' \in Instants
        /\ UNCHANGED <<plan, aimed, runs, swept, firing, since, visited, bare>>
    BY <1>0, <1>8 DEF Later, Instants
  <2>2. /\ \A o \in Instants : o \in Nat
        /\ \A p \in Plans : visited[p] \in Nat /\ since[p] \in Nat
    BY DEF PlansTypeOK, Instants
  <2>3. ASSUME NEW p \in Plans PROVE PlanKept(p)'
    <3>1. visited'[p] <= instant' /\ since'[p] <= instant'
      BY <1>0, <2>1, <2>2 DEF PlansInv, PlanKept
    <3>2. ASSUME NEW o \in Instants, o > instant' PROVE runs'[p][o] = 0
      <4>1. o > instant
        BY <1>0, <2>1, <2>2, <3>2
      <4> QED BY <2>1, <4>1 DEF PlansInv, PlanKept
    <3> QED BY <2>1, <3>1, <3>2 DEF PlansInv, PlanKept
  <2> QED BY <2>1, <2>3 DEF PlansTypeOK, PlansInv
<1>9. CASE UNCHANGED plansVars
  <2>1. /\ aimed' = aimed /\ swept' = swept
        /\ UNCHANGED <<instant, plan, runs, since, visited, bare, firing>>
    BY <1>9 DEF plansVars
  <2> QED BY <1>a, <2>1 DEF PlansTypeOK
<1> QED BY <1>1, <1>2, <1>3, <1>4, <1>5, <1>6, <1>7, <1>8, <1>9 DEF PlansNext

\* As long as each tick of the worker is over before the next instant at which anything may
\* be due: an occurrence since a template was switched on with its present rule has its runs
\* once a tick has gone past it, once, and no other has any, for any templates, rules, edits
\* and ticks that fail (queue/handlers/pm.py:44-55, 74-92, pm_templates.py:158-160, 195-199).
THEOREM SchedulesKept ==
    ASSUME ~Overrun
    PROVE  PlansSpec => []ScheduleKept
<1>1. PlansInit => PlansTypeOK /\ PlansInv
  BY PlansAssumption DEF PlansInit, PlansTypeOK, PlansInv, PlanKept, Instants
<1>2. PlansTypeOK /\ PlansInv /\ [PlansNext]_plansVars => (PlansTypeOK /\ PlansInv)'
  BY PlansStep
<1>3. PlansTypeOK /\ PlansInv => ScheduleKept
  <2> SUFFICES ASSUME PlansTypeOK, PlansInv, NEW p \in Plans, plan[p] # None, Due(plan[p])
               PROVE  /\ \A o \in Instants : o > since[p] =>
                           runs[p][o] = IF o \in plan[p].fields.rule \ bare[p] /\ o <= visited[p]
                                        THEN 1 ELSE 0
                      /\ \A o \in Occurrences(plan[p]) : o > since[p]
    BY DEF ScheduleKept
  <2>1. PlanKept(p)
    BY DEF PlansInv
  <2>2. ASSUME NEW o \in Occurrences(plan[p]) PROVE o > since[p]
    <3>1. plan[p].fields.rule \in SUBSET Instants /\ plan[p].last \in Instants \cup {None}
      BY PlanRows DEF PlansTypeOK
    <3>2. plan[p].last # None /\ o \in plan[p].fields.rule /\ plan[p].last < o
      BY <3>1 DEF Occurrences
    <3>3. o \in Nat /\ plan[p].last \in Nat /\ since[p] \in Nat
      BY <3>1, <3>2 DEF PlansTypeOK, Instants
    <3> QED BY <2>1, <3>2, <3>3 DEF PlanKept
  <2> QED BY <2>1, <2>2 DEF PlanKept
<1> QED BY <1>1, <1>2, <1>3, PTL DEF PlansSpec

\* No template goes: what a tick has read is there when it commits.
FiringThere == firing # None => \A p \in firing.plans : plan[p] # None

\* However long a tick takes, every row is one.
LEMMA PlansTyped == PlansSpec => []PlansTypeOK
<1> USE PlansAssumption
<1>1. PlansInit => PlansTypeOK /\ FiringThere
  BY DEF PlansInit, PlansTypeOK, FiringThere, Instants
<1>2. ASSUME PlansTypeOK, FiringThere, [PlansNext]_plansVars
      PROVE  PlansTypeOK' /\ FiringThere'
  <2>0. instant \in Nat /\ instant \in Instants /\ LastTime \in Nat
    BY <1>2 DEF PlansTypeOK, Instants
  <2>1. ASSUME NEW p \in Plans, NEW new \in Plan, plan' = [plan EXCEPT ![p] = new],
               since' = since \/ since' = [since EXCEPT ![p] = instant],
               aimed' \in SUBSET Plans, UNCHANGED <<instant, runs, swept, firing, visited, bare>>
        PROVE  PlansTypeOK' /\ FiringThere'
    <3>1. plan'[p] # None /\ \A q \in Plans \ {p} : plan'[q] = plan[q]
      BY <1>2, <2>1, PlanRows DEF PlansTypeOK
    <3>2. FiringThere'
      BY <1>2, <2>1, <3>1 DEF FiringThere, PlansTypeOK, Firing
    <3> QED BY <1>2, <2>0, <2>1, <3>2 DEF PlansTypeOK
  <2>2. ASSUME NEW p \in Plans, NEW f \in Fields, NEW active \in BOOLEAN,
               CreatePlan(p, f, active)
        PROVE  PlansTypeOK' /\ FiringThere'
    <3> DEFINE new == [fields |-> f, active |-> active,
                       last |-> IF f.mode = "scheduled" THEN instant ELSE None]
    <3>1. /\ Valid(f) /\ plan' = [plan EXCEPT ![p] = new]
          /\ aimed' \in SUBSET Plans /\ since' = [since EXCEPT ![p] = instant]
          /\ UNCHANGED <<instant, runs, swept, firing, visited, bare>>
      BY <1>2, <2>2 DEF CreatePlan, PlansTypeOK
    <3>2. new \in Plan
      BY <2>0, <3>1 DEF Plan
    <3> HIDE DEF new
    <3> QED BY <2>1, <3>1, <3>2
  <2>3. ASSUME NEW p \in Plans, NEW f \in Fields, NEW active \in BOOLEAN,
               PatchPlan(p, f, active)
        PROVE  PlansTypeOK' /\ FiringThere'
    <3> DEFINE new == [fields |-> f, active |-> active, last |-> From(plan[p], f, active)]
    <3>1. /\ plan[p] # None /\ Valid(f) /\ plan' = [plan EXCEPT ![p] = new]
          /\ since' = since \/ since' = [since EXCEPT ![p] = instant]
          /\ aimed' \in SUBSET Plans /\ UNCHANGED <<instant, runs, swept, firing, visited, bare>>
      BY <1>2, <2>3 DEF PatchPlan, PlansTypeOK
    <3>2. From(plan[p], f, active) \in Instants \cup {None}
      BY <1>2, <2>0, <3>1, PlanRows DEF From, PlansTypeOK
    <3>3. new \in Plan
      BY <3>1, <3>2 DEF Plan
    <3> HIDE DEF new
    <3> QED BY <2>1, <3>1, <3>3
  <2>4. ASSUME NEW p \in Plans, AimPlan(p) PROVE PlansTypeOK' /\ FiringThere'
    BY <1>2, <2>4 DEF AimPlan, PlansTypeOK, FiringThere
  <2>5. ASSUME NEW p \in Plans, StartSweepRun(p) PROVE PlansTypeOK' /\ FiringThere'
    BY <1>2, <2>5 DEF StartSweepRun, PlansTypeOK, FiringThere
  <2>6. CASE FireReads
    <3> DEFINE ps == {p \in Plans : plan[p] # None /\ Due(plan[p])}
               owed == [p \in Plans |-> IF p \in ps THEN Occurrences(plan[p]) ELSE {}]
    <3>1. /\ firing' = [now |-> instant, plans |-> ps, aimed |-> aimed \cap ps, due |-> owed]
          /\ UNCHANGED <<instant, plan, aimed, runs, swept, since, visited, bare>>
      BY <2>6 DEF FireReads
    <3>2. ASSUME NEW p \in ps PROVE Occurrences(plan[p]) \in SUBSET Instants
      <4>1. plan[p] \in Plan /\ Due(plan[p])
        BY <1>2 DEF PlansTypeOK
      <4> QED BY <4>1, PlanRows DEF Occurrences
    <3>3. owed \in [Plans -> SUBSET Instants] /\ ps \in SUBSET Plans
      BY <3>2
    <3>4. FiringThere'
      BY <3>1 DEF FiringThere
    <3> HIDE DEF ps, owed
    <3>5. firing' \in Firing
      BY <1>2, <2>0, <3>1, <3>3 DEF Firing, PlansTypeOK
    <3> QED BY <1>2, <3>1, <3>4, <3>5 DEF PlansTypeOK
  <2>7. CASE FireCommits
    <3>1. /\ firing # None /\ firing \in Firing
          /\ runs' = [p \in Plans |-> [o \in Instants |->
                          IF p \in firing.aimed /\ o \in firing.due[p] THEN runs[p][o] + 1
                          ELSE runs[p][o]]]
          /\ plan' = [p \in Plans |-> IF p \in firing.plans
                                      THEN [plan[p] EXCEPT !.last = firing.now] ELSE plan[p]]
          /\ visited' = [p \in Plans |-> IF p \in firing.plans THEN firing.now ELSE visited[p]]
          /\ bare' = [p \in Plans |-> IF p \in firing.aimed THEN bare[p]
                                      ELSE bare[p] \cup firing.due[p]]
          /\ firing' = None
          /\ UNCHANGED <<instant, aimed, swept, since>>
      BY <1>2, <2>7 DEF FireCommits, PlansTypeOK
    <3>2. /\ firing.now \in Instants /\ \A p \in Plans : firing.due[p] \in SUBSET Instants
          /\ \A p \in firing.plans : plan[p] # None
      BY <1>2, <3>1 DEF Firing, FiringThere
    <3>3. ASSUME NEW p \in Plans PROVE plan'[p] \in Plan \cup {None}
      <4>1. CASE p \in firing.plans
        <5>1. plan[p] \in Plan /\ plan'[p] = [plan[p] EXCEPT !.last = firing.now]
          BY <1>2, <3>1, <3>2, <4>1 DEF PlansTypeOK
        <5> QED BY <3>2, <5>1 DEF Plan
      <4>2. CASE p \notin firing.plans
        BY <1>2, <3>1, <4>2 DEF PlansTypeOK
      <4> QED BY <4>1, <4>2
    <3>4. runs' \in [Plans -> [Instants -> Nat]]
      BY <1>2, <3>1 DEF PlansTypeOK
    <3>5. /\ visited' \in [Plans -> Instants] /\ bare' \in [Plans -> SUBSET Instants]
          /\ plan' \in [Plans -> Plan \cup {None}]
      BY <1>2, <3>1, <3>2, <3>3 DEF PlansTypeOK
    <3> QED BY <1>2, <3>1, <3>4, <3>5 DEF PlansTypeOK, FiringThere
  <2>8. CASE FireFails
    BY <1>2, <2>8 DEF FireFails, PlansTypeOK, FiringThere
  <2>9. CASE Later
    BY <1>2, <2>0, <2>9 DEF Later, PlansTypeOK, FiringThere, Instants
  <2>10. CASE UNCHANGED plansVars
    BY <1>2, <2>10 DEF plansVars, PlansTypeOK, FiringThere
  <2> QED
    BY <1>2, <2>2, <2>3, <2>4, <2>5, <2>6, <2>7, <2>8, <2>9, <2>10 DEF PlansNext
<1> QED BY <1>1, <1>2, PTL DEF PlansSpec
=============================================================================
