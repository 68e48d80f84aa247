------------------------------- MODULE Table --------------------------------
(***************************************************************************)
(* What the modules of one property's tables have in common.               *)
(***************************************************************************)
EXTENDS Naturals, FiniteSets, Functions

CONSTANT None \* NULL

\* The UPDATE of a flush: the columns in which the object t.new differs from the row
\* t.old it was loaded from, and only those (SQLAlchemy).
Flushed(row, t) == [f \in DOMAIN row |-> IF t.new[f] = t.old[f] THEN row[f] ELSE t.new[f]]

\* ORDER BY: the rows S as a list, in a strict order that is given as the set of its pairs.
Listing(S, before) ==
    CHOOSE s \in [1 .. Cardinality(S) -> S] :
        \A i, j \in DOMAIN s : i < j => <<s[i], s[j]>> \in before

\* The lists of all of S, each row once.
ListsOf(S) == Injection(1 .. Cardinality(S), S)

\* Where e stands in a list.
PlaceIn(listed, e) == CHOOSE i \in DOMAIN listed : listed[i] = e
=============================================================================
