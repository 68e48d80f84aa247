------------------------- MODULE ChecklistTemplates -------------------------
(***************************************************************************)
(* The items and categories of one checklist template: create and patch of *)
(* domain/ck_templates.py, typed_items.sync_items, and the import of       *)
(* ck_library.py, which is a create.  Both lists are replaced as a whole   *)
(* and nothing is deleted, so what was retired is still there to be        *)
(* brought back, and two lists must stay in line with one another.         *)
(*                                                                         *)
(* One patch after another: two that overlap leave the union of what they  *)
(* wrote, and StaysWhole does not hold of it.                              *)
(***************************************************************************)
EXTENDS Naturals, FiniteSets, Table

CONSTANTS
    Entries,    \* items, those not yet created included
    Categories, \* likewise
    Past        \* where the positions of retired items begin

ASSUME TemplatesAssumption ==
    IsFiniteSet(Entries) /\ Past \in Nat /\ Cardinality(Entries) < Past

VARIABLES
    entry,   \* each item: whether it is active, its position, its category
    category \* whether each category is active, retired or not created

templateVars == <<entry, category>>

EntryState == {"none", "active", "retired"}
Entry == [state : EntryState, position : Nat, category : Categories \cup {None}]
Unused == [state |-> "none", position |-> 0, category |-> None]

Active(rows) == {e \in DOMAIN rows : rows[e].state = "active"}
Saved == {e \in Entries : entry[e].state # "none"}

\* _sync_categories: the ones listed are active, the rest retired.
Regrouped(listed) ==
    [c \in Categories |->
        IF c \in listed THEN "active"
        ELSE IF category[c] = "none" THEN "none" ELSE "retired"]

\* Slip: only the items in use are looked at.
ClearedSlip(listed) ==
    [e \in Entries |->
        IF entry[e].category \notin listed /\ entry[e].state = "active"
        THEN [entry[e] EXCEPT !.category = None] ELSE entry[e]]

\* The items of a retired category, retired items too, are in none.
Cleared(listed) ==
    [e \in Entries |->
        IF entry[e].category \notin listed
        THEN [entry[e] EXCEPT !.category = None] ELSE entry[e]]

Retired(row, n) == [row EXCEPT !.state = "retired", !.position = Past + n]

\* sync_items: an item listed is created or kept, in its place; gone, the others that are
\* saved, are retired.
Synced(rows, listed, gone) ==
    [e \in Entries |->
        CASE e \in Range(listed) ->
               [rows[e] EXCEPT !.state = "active", !.position = PlaceIn(listed, e) - 1]
          [] e \in Range(gone) -> Retired(rows[e], PlaceIn(gone, e) - 1)
          [] OTHER -> rows[e]]

\* active_items, which are listed by position.
InLine(rows) ==
    LET items == Active(rows)
    IN  Listing(items, {p \in items \X items : rows[p[1]].position < rows[p[2]].position})

\* _sync_items: the active items are zipped with the request.
Grouped(rows, listed, group) ==
    LET line == InLine(rows) IN
    [e \in Entries |->
        IF e \in Active(rows)
        THEN [rows[e] EXCEPT !.category = group[listed[PlaceIn(line, e)]]]
        ELSE rows[e]]

----------------------------------------------------------------------------
TemplatesInit ==
    /\ entry = [e \in Entries |-> Unused]
    /\ category = [c \in Categories |-> "none"]

\* create and patch: both lists, the categories first.
SaveBoth(cats, items, gone, group) ==
    /\ Range(group) \subseteq cats \cup {None}
    /\ category' = Regrouped(cats)
    /\ entry' = Grouped(Synced(Cleared(cats), items, gone), items, group)

\* patch: the categories only.
SaveCategories(cats) ==
    /\ Saved # {}
    /\ category' = Regrouped(cats)
    /\ entry' = Cleared(cats)

\* patch: the items only; the categories stand as saved.
SaveItems(items, gone, group) ==
    /\ Saved # {}
    /\ Range(group) \subseteq {c \in Categories : category[c] = "active"} \cup {None}
    /\ entry' = Grouped(Synced(entry, items, gone), items, group)
    /\ UNCHANGED category

\* What is retired is read in no order.
TemplatesNext ==
    \/ \E cats \in SUBSET Categories : SaveCategories(cats)
    \/ \E chosen \in (SUBSET Entries) \ {{}} :
       \E items \in ListsOf(chosen), gone \in ListsOf(Saved \ chosen),
          group \in [chosen -> Categories \cup {None}] :
         \/ \E cats \in SUBSET Categories : SaveBoth(cats, items, gone, group)
         \/ SaveItems(items, gone, group)

TemplatesSpec == TemplatesInit /\ [][TemplatesNext]_templateVars

----------------------------------------------------------------------------
TemplatesTypeOK ==
    /\ entry \in [Entries -> Entry]
    /\ category \in [Categories -> EntryState]

\* A template stays whole, whatever is retired by one save and brought back by another.
\* An item is in no category or in one that is active, also one retired long ago:
\* "ck_templates keeps that true" (models/checklists.py:52-55).  The active items are
\* numbered from 0, and no retired one, whose answers are still listed by position, shares
\* a number: what lets the items be zipped with the request, strictly
\* (ck_templates.py:150-154, typed_items.py:103-106).
StaysWhole ==
    /\ \A e \in Entries : entry[e].category # None => category[entry[e].category] = "active"
    /\ {entry[e].position : e \in Active(entry)} = 0 .. Cardinality(Active(entry)) - 1
    /\ \A d, e \in Saved : entry[d].position = entry[e].position => d = e
=============================================================================
