----------------------------- MODULE MCJobQueue -----------------------------
(* Values for the constants of JobQueue that a cfg cannot write.           *)
EXTENDS JobQueue

\* Rows 1..3 hold the sweep's jobs, the others a one-shot type's.
MCRowType == [r \in Rows |-> IF r <= 3 THEN "sweep" ELSE "send"]

MCInterval == [t \in Recurring |-> 2]

MCShortInterval == [t \in Recurring |-> 1]

MCMaxAttempts == [t \in Types |-> IF t \in Recurring THEN 1 ELSE 2]

\* 2 ** attempts (jobs.py:59)
MCBackoff == [n \in 0 .. 3 |-> 2 ^ n]
=============================================================================
