---------------------------- MODULE MCChecklists ----------------------------
(* Values for the constants of Checklists that a cfg cannot write.         *)
EXTENDS Checklists

\* A list that falls due every seventh night, which may become one that is started on
\* demand.
MCPlans ==
    {[schedule |-> "weekly", shift |-> "overnight", days |-> {0}, active |-> TRUE],
     [schedule |-> "on_demand", shift |-> None, days |-> {}, active |-> TRUE]}
=============================================================================
