------------------------------ MODULE MCHotel -------------------------------
(***************************************************************************)
(* Eleven parts of the server, checked in one run.  No two share a         *)
(* variable and no action reads both, so every behaviour of one is a       *)
(* behaviour in which the others stand still: a behaviour moves one part   *)
(* only, and the others are as they were at the start.                     *)
(***************************************************************************)
EXTENDS MCJobQueue, FirstContact, Inbox, Housekeeping, MCChecklists,
        ChecklistTemplates, Stays, LiveView, Presence, StaffChat, HotelLog, TLC

CONSTANTS
    booked, arrived, moved, departed, \* the events of a stay
    tab1, tab2, someone               \* two sockets of one user

VARIABLE part \* the one that moves

\* What each event says of the stay; a departure's attributes may be those of the visit.
MCCarries ==
    booked :> "reserved" @@ arrived :> "checked_in" @@ moved :> "checked_in"
        @@ departed :> "checked_in"

MCOwner == tab1 :> someone @@ tab2 :> someone

\* What each part may do, with what it leaves alone.
Parts == {"jobs", "contact", "inbox", "house", "checklists", "templates", "stays", "view",
          "presence", "chat", "log"}

\* A part that does not move starts in one state.
Settled ==
    /\ part # "inbox" => conv.staff = 0
    /\ part # "house" => occ = "vacant"
    /\ part # "checklists" => /\ ckPlan.schedule = "weekly"
                              /\ current = Items /\ required = Items
    /\ part # "log" => role = [u \in Accounts |-> IF u = CHOOSE v \in Accounts : TRUE
                                                  THEN "admin" ELSE None]

\* All rooms of the chat but one.
Rest == Rooms \ {CHOOSE r \in Rooms : TRUE}

HotelInit ==
    /\ part \in Parts
    /\ Init /\ ContactInit /\ InboxInit /\ HouseInit /\ CkInit /\ TemplatesInit
    /\ StaysInit /\ ViewInit /\ PresenceInit /\ ChatInit /\ LogInit
    /\ Settled

Others(p) ==
    /\ p # "jobs" => UNCHANGED vars
    /\ p # "contact" => UNCHANGED contactVars
    /\ p # "inbox" => UNCHANGED inboxVars
    /\ p # "house" => UNCHANGED houseVars
    /\ p # "checklists" => UNCHANGED ckVars
    /\ p # "templates" => UNCHANGED templateVars
    /\ p # "stays" => UNCHANGED staysVars
    /\ p # "view" => UNCHANGED viewVars
    /\ p # "presence" => UNCHANGED presenceVars
    /\ p # "chat" => UNCHANGED staffVars
    /\ p # "log" => UNCHANGED <<memberVars, logVars>>

HotelNext ==
    /\ UNCHANGED part
    /\ \/ part = "jobs" /\ Next
       \/ part = "contact" /\ ContactNext
       \/ part = "inbox" /\ InboxNext
       \/ part = "house" /\ HouseNext
       \/ part = "checklists" /\ CkNext
       \/ part = "templates" /\ TemplatesNext
       \/ part = "stays" /\ StaysNext
       \/ part = "view" /\ ViewNext
       \/ part = "presence" /\ PresenceNext
       \/ part = "chat" /\ ChatNext /\ \A r \in Rest : kind'[r] # "group"
       \/ part = "log" /\ LogNext
    /\ Others(part)

hotelVars == <<vars, contactVars, inboxVars, houseVars, ckVars, templateVars, staysVars,
               viewVars, presenceVars, staffVars, memberVars, logVars, part>>

HotelSpec == HotelInit /\ [][HotelNext]_hotelVars

\* Every variable of every part has its type.
HotelTypeOK ==
    /\ TypeOK /\ ContactTypeOK /\ InboxTypeOK /\ HouseTypeOK /\ CkTypeOK /\ TemplatesTypeOK
    /\ StaysTypeOK /\ ViewTypeOK /\ PresenceTypeOK /\ ChatTypeOK /\ LogTypeOK
=============================================================================
