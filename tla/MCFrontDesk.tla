---------------------------- MODULE MCFrontDesk -----------------------------
(***************************************************************************)
(* Seven more parts of the server in one run, outbound texts among them.   *)
(* As in MCHotel no two share a variable, and a behaviour moves one part   *)
(* only.  Fairness is of the texts; in the behaviours of the other parts   *)
(* no text is ever queued.                                                 *)
(***************************************************************************)
EXTENDS Delivery, Desk, ShortLinks, LogForms, LogFeed, Alerts, SignIn

VARIABLE part \* the one that moves

\* What an author notes of a report: nothing, or a label with a share of 25.
MCNotes == {<<>>, << <<CHOOSE l \in Labels : TRUE, FALSE, 25>> >>}

\* All members have one first name.
MCFirstName == [u \in Employees |-> "a"]

Parts == {"texts", "desk", "links", "forms", "feed", "alerts", "signin"}

FrontInit ==
    /\ part \in Parts
    /\ Init /\ DeskInit /\ LinksInit /\ FormsInit /\ FeedInit /\ AlertsInit
    /\ SignInInit
    /\ part # "alerts" => \A u \in Employees : posting[u].role = "staff"

Others(p) ==
    /\ p # "texts" => UNCHANGED vars
    /\ p # "desk" => UNCHANGED deskVars
    /\ p # "links" => UNCHANGED linkVars
    /\ p # "forms" => UNCHANGED formsVars
    /\ p # "feed" => UNCHANGED feedVars
    /\ p # "alerts" => UNCHANGED alertVars
    /\ p # "signin" => UNCHANGED signInVars

FrontNext ==
    /\ UNCHANGED part
    /\ \/ part = "texts" /\ Next
       \/ part = "desk" /\ DeskNext
       \/ part = "links" /\ LinksNext
       \/ part = "forms" /\ FormsNext
       \/ part = "feed" /\ FeedNext
       \/ part = "alerts" /\ AlertsNext
       \/ part = "signin" /\ SignInNext
    /\ Others(part)

frontVars == <<vars, deskVars, linkVars, formsVars, feedVars, alertVars,
               signInVars, part>>

FrontSpec == FrontInit /\ [][FrontNext]_frontVars /\ WF_vars(WorkerStep)

\* Every variable of every part has its type.
FrontTypeOK ==
    /\ TypeOK /\ DeskTypeOK /\ LinksTypeOK /\ FormsTypeOK /\ FeedTypeOK /\ AlertsTypeOK
    /\ SignInTypeOK
=============================================================================
