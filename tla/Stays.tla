------------------------------- MODULE Stays --------------------------------
(***************************************************************************)
(* The events a PMS sends about one reservation: pms/handle_event.py, the  *)
(* ledger of models/infra.py and the stay of models/guests.py.  An event   *)
(* may be sent any number of times, at once, and in any order.             *)
(*                                                                         *)
(* A transaction is READ COMMITTED: what it has inserted makes another     *)
(* that inserts the same key wait, and its UPDATE of the stay, of the      *)
(* columns that changed, goes on top of whatever is committed by then.     *)
(***************************************************************************)
EXTENDS Naturals, Table

CONSTANTS
    Events,   \* by external id and type, the key of the ledger
    Carries,  \* the status each event says the stay has
    Leaves,   \* the events of type stay.checked_out
    Intakes   \* threads: a request, the worker

StayStatus == {"reserved", "checked_in", "checked_out"}
Stay == [status : StayStatus, came : BOOLEAN, went : BOOLEAN] \* the two time stamps

ASSUME StaysAssumption ==
    /\ Carries \in [Events -> StayStatus]
    /\ None \notin Events \cup Stay

VARIABLES
    ledger,  \* committed rows of pms_event
    stay,    \* the committed stay, None before there is one
    applied, \* history: how often the effects of each event were committed
    intake   \* the transaction each thread has open

staysVars == <<ledger, stay, applied, intake>>

Booked == [status |-> "reserved", came |-> FALSE, went |-> FALSE]

\* made: the transaction inserted the stay.
NoIntake == [pc |-> "idle", event |-> None, made |-> FALSE, old |-> Booked, new |-> Booked]
StayIntake == [pc : {"idle", "find", "write"}, event : Events \cup {None}, made : BOOLEAN,
               old : Stay, new : Stay]

Taken(t, f) == intake' = [intake EXCEPT ![t] = f]

\* Slip: the SELECT alone, without the unique key.
LedgerSlip(t, e) == e \notin ledger
LedgerFree(t, e) == e \notin ledger /\ \A u \in Intakes \ {t} : intake[u].event # e

StayFree(t) == stay = None /\ \A u \in Intakes \ {t} : ~intake[u].made

Stamped(r, e) ==
    [r EXCEPT !.came = @ \/ r.status \in {"checked_in", "checked_out"},
              !.went = @ \/ r.status = "checked_out"]

\* Every attribute is copied from the event, then the stamps are filled in.
Moved(r, e) ==
    Stamped([r EXCEPT !.status = IF e \in Leaves THEN "checked_out" ELSE Carries[e]], e)

----------------------------------------------------------------------------
StaysInit ==
    /\ ledger = {}
    /\ stay = None
    /\ applied = [e \in Events |-> 0]
    /\ intake = [t \in Intakes |-> NoIntake]

\* handle_event, up to the ledger's INSERT.  (A duplicate is answered and leaves no trace.)
Register(t, e) ==
    /\ intake[t].pc = "idle"
    /\ LedgerFree(t, e)
    /\ Taken(t, [NoIntake EXCEPT !.pc = "find", !.event = e])
    /\ UNCHANGED <<ledger, stay, applied>>

\* _find_stay, at once or after the INSERT of the stay has failed.
FindStay(t) ==
    /\ intake[t].pc = "find"
    /\ stay # None
    /\ Taken(t, [intake[t] EXCEPT !.pc = "write", !.old = stay,
                                  !.new = Moved(stay, intake[t].event)])
    /\ UNCHANGED <<ledger, stay, applied>>

MakeStay(t) ==
    /\ intake[t].pc = "find"
    /\ StayFree(t)
    /\ Taken(t, [intake[t] EXCEPT !.pc = "write", !.made = TRUE,
                                  !.new = Moved(Booked, intake[t].event)])
    /\ UNCHANGED <<ledger, stay, applied>>

\* The flush, what it tells the room, and the commit.
TakeEvent(t) ==
    LET f == intake[t] IN
    /\ f.pc = "write"
    /\ ledger' = ledger \cup {f.event}
    /\ stay' = IF f.made THEN f.new ELSE Flushed(stay, f)
    /\ applied' = [applied EXCEPT ![f.event] = @ + 1]
    /\ Taken(t, NoIntake)

\* An error, a deadlock, a crash.  The worker or the PMS sends the event again.
LoseEvent(t) ==
    /\ intake[t].pc # "idle"
    /\ Taken(t, NoIntake)
    /\ UNCHANGED <<ledger, stay, applied>>

StaysNext ==
    \E t \in Intakes :
        \/ \E e \in Events : Register(t, e)
        \/ FindStay(t) \/ MakeStay(t) \/ TakeEvent(t) \/ LoseEvent(t)

StaysSpec == StaysInit /\ [][StaysNext]_staysVars

----------------------------------------------------------------------------
StaysTypeOK ==
    /\ ledger \subseteq Events
    /\ stay \in Stay \cup {None}
    /\ applied \in [Events -> Nat]
    /\ intake \in [Intakes -> StayIntake]

\* A stay whose guest came has the stamp of it, and one whose guest left has both,
\* whichever event brought the status and whatever other event it overlapped: a missing
\* check-in stamp attached the wrong room to a text (handle_event.py:80-85).
StatusStamped ==
    stay # None =>
        /\ stay.status \in {"checked_in", "checked_out"} => stay.came
        /\ stay.status = "checked_out" => stay.went

\* An event has its effects, the room it dirties included, once (handle_event.py:22-33).
EventsOnce == INSTANCE Intake WITH Sent <- Events, taken <- applied
EventsTakenOnce == EventsOnce!Spec
=============================================================================
