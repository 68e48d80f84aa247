------------------------------- MODULE Intake -------------------------------
(***************************************************************************)
(* What is promised of anything another system may send more than once, a  *)
(* text (channels/inbound.py) or a PMS event (pms/handle_event.py): it is  *)
(* taken at most once, and what is taken is not given back.                *)
(***************************************************************************)
EXTENDS Naturals

CONSTANT Sent    \* what the other system sends
VARIABLE taken   \* how many times each has had its effect

Init == taken = [x \in Sent |-> 0]

Take(x) ==
    /\ taken[x] = 0
    /\ taken' = [taken EXCEPT ![x] = 1]

Next == \E x \in Sent : Take(x)

Spec == Init /\ [][Next]_taken
=============================================================================
