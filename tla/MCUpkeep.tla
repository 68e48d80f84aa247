------------------------------ MODULE MCUpkeep ------------------------------
(***************************************************************************)
(* Maintenance, work orders and housekeepers' rounds in six parts, checked *)
(* in one run.  No two share a variable and no action reads two, so every  *)
(* behaviour of one is one in which the others stand still: a behaviour    *)
(* moves one part only, and the others are as they were at the start.      *)
(***************************************************************************)
EXTENDS Sweep, WorkOrders, PmPlans, RunSheet, OrderLedger, Rounds

VARIABLE part \* the one that moves

\* A reading and a photo.
MCEntryKind == [i \in {"number", "photo"} |-> i]

\* A request that asks for nothing, and those of the ledger: to move an order, to give it to
\* somebody, with or without a move, and to take it back with a comment.
Nil == [clear |-> FALSE, user |-> None, trade |-> None, priority |-> FALSE, status |-> None,
        comment |-> FALSE]
MCAsks ==
    {[Nil EXCEPT !.status = s] : s \in {"in_progress", "complete", "verified"}}
    \cup {[Nil EXCEPT !.user = u, !.clear = (u = CHOOSE v \in Crew : TRUE)] : u \in Crew}
    \cup {[Nil EXCEPT !.user = u, !.status = "open"] : u \in Crew}
    \cup {[Nil EXCEPT !.clear = TRUE, !.priority = TRUE, !.comment = TRUE,
                      !.trade = CHOOSE k \in Trades : TRUE]}

\* All orders but one.
Plain == Orders \ {CHOOSE o \in Orders : TRUE}

Init ==
    /\ SweepInit /\ OrdersInit /\ PlansInit /\ SheetInit /\ LedgerInit /\ RoundsInit
    /\ part \in {"sweep", "orders", "plans", "sheet", "ledger", "rounds"}
    /\ part # "sweep" => ~tpl.active /\ (\A s \in Spans : tpl.span <= s) /\ scope = {}
    /\ part # "sheet" => \A u \in Fitters : rank[u].role = "supervisor"

Others(p) ==
    /\ p # "sweep" => UNCHANGED sweepVars
    /\ p # "orders" => UNCHANGED ordersVars
    /\ p # "plans" => UNCHANGED plansVars
    /\ p # "sheet" => UNCHANGED sheetVars
    /\ p # "ledger" => UNCHANGED ledgerVars
    /\ p # "rounds" => UNCHANGED roundsVars

Next ==
    /\ UNCHANGED part
    /\ \/ part = "sweep" /\ SweepNext
       \/ part = "orders" /\ OrdersNext /\ \A o \in Plain : origin'[o] = "other"
       \/ part = "plans" /\ PlansNext
       \/ part = "sheet" /\ SheetNext
       \/ part = "ledger" /\ LedgerNext
       \/ part = "rounds" /\ RoundsNext
    /\ Others(part)

upkeepVars == <<sweepVars, ordersVars, plansVars, sheetVars, ledgerVars, roundsVars, part>>

Spec == Init /\ [][Next]_upkeepVars

\* Every variable of every part has its type.
UpkeepTypeOK ==
    /\ SweepTypeOK /\ OrdersTypeOK /\ PlansTypeOK /\ SheetTypeOK /\ LedgerTypeOK
    /\ RoundsTypeOK
=============================================================================
