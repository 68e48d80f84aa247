------------------------------- MODULE SignIn -------------------------------
(***************************************************************************)
(* Sessions and the limit on attempts to sign in: auth/sessions.py,        *)
(* require_auth, login and logout of api/auth.py, and ratelimit.py.        *)
(*                                                                         *)
(* require_auth reads the session in a transaction of its own, which       *)
(* writes last_seen_at when it commits; the handler runs after it, in      *)
(* another.  Requests with one cookie overlap, so a session can be deleted *)
(* in between.  Accounts stay active, and the attempts are of one address.  *)
(***************************************************************************)
EXTENDS Naturals, Sequences, Table

CONSTANTS
    Tokens,   \* of cookies, each drawn once
    Calls,    \* requests under way at a time
    Lifetime, \* SESSION_HOURS
    Gap,     \* how old last_seen_at may get
    Attempts,    \* of login_limiter
    Window,   \* of login_limiter
    LastTick     \* bounds the clock

Clock == 0 .. LastTick

SessionRow == [ends : 0 .. LastTick + Lifetime, seen : Clock]

ASSUME SignInAssumption ==
    /\ {Lifetime, Gap, Attempts, Window, LastTick} \subseteq Nat
    /\ None \notin Nat \cup Tokens \cup SessionRow

VARIABLES
    session,  \* per token: its user_session row, None without one
    call,     \* per request: what it has read
    hits,     \* of the limiter: when it let somebody try, oldest first
    clock,
    born,     \* per token: when it was drawn
    signedOut, \* tokens whose sign-out has committed
    tries     \* when the limiter let somebody try, since the start

signInVars == <<session, call, hits, clock, born, signedOut, tries>>

\* at: "entry" when require_auth has read and not committed, "in" when the handler runs.
\* row: as read;  asked, ended: when that was, and whether its token was signed out by then.
NoCall == [at |-> "free", token |-> None, logout |-> FALSE, row |-> None, asked |-> 0,
         ended |-> FALSE]
CallRow == [at : {"free", "entry", "in"}, token : Tokens \cup {None}, logout : BOOLEAN,
            row : SessionRow \cup {None}, asked : Clock, ended : BOOLEAN]

\* load_session
Loaded(k) == session[k] # None /\ session[k].ends > clock

\* touch_session, of the row as read: due, and what it makes of the row.
TouchDue(c) == call[c].asked - call[c].row.seen >= Gap
Touched(c, row) == IF TouchDue(c) THEN [row EXCEPT !.seen = call[c].asked] ELSE row

----------------------------------------------------------------------------
(***************************************************************************)
(* The limiter                                                             *)
(***************************************************************************)

\* What allow leaves of the queue before it counts: it drops from the left up to the first
\* hit that is in the window.
Kept ==
    LET InWindow(i) == i > Len(hits) \/ clock - hits[i] <= Window
        first == CHOOSE i \in 1 .. Len(hits) + 1 :
                     InWindow(i) /\ \A j \in 1 .. i - 1 : ~InWindow(j)
    IN  SubSeq(hits, first, Len(hits))

\* rate_limited: the hit is counted whether or not the password is right.
Admitted ==
    /\ Len(Kept) < Attempts
    /\ hits' = Append(Kept, clock)
    /\ tries' = Append(tries, clock)

TurnedAway ==
    /\ Len(Kept) >= Attempts
    /\ hits' = Kept
    /\ UNCHANGED <<session, call, clock, born, signedOut, tries>>

----------------------------------------------------------------------------
SignInInit ==
    /\ session = [k \in Tokens |-> None]
    /\ call = [c \in Calls |-> NoCall]
    /\ hits = <<>>
    /\ clock = 0
    /\ born = [k \in Tokens |-> None]
    /\ signedOut = {}
    /\ tries = <<>>

\* login, and create_session.
Login(k) ==
    /\ born[k] = None
    /\ Admitted
    /\ session' = [session EXCEPT ![k] = [ends |-> clock + Lifetime, seen |-> clock]]
    /\ born' = [born EXCEPT ![k] = clock]
    /\ UNCHANGED <<call, clock, signedOut>>

\* login with a wrong password: what it writes is an audit row.
LoginFailed ==
    /\ Admitted
    /\ UNCHANGED <<session, call, clock, born, signedOut>>

\* require_auth, up to its commit.
Require(c, k, logout) ==
    /\ call[c].at = "free"
    /\ Loaded(k)
    /\ call' = [call EXCEPT ![c] =
           [at |-> "entry", token |-> k, logout |-> logout, row |-> session[k],
            asked |-> clock, ended |-> k \in signedOut]]
    /\ UNCHANGED <<session, hits, clock, born, signedOut, tries>>

\* Slip: the touched row is written whether or not it is still there.
TouchSlip(c) ==
    /\ call[c].at = "entry"
    /\ session' = [session EXCEPT ![call[c].token] = Touched(c, call[c].row)]
    /\ call' = [call EXCEPT ![c].at = "in", ![c].row = None]
    /\ UNCHANGED <<hits, clock, born, signedOut, tries>>

\* The commit of require_auth: an UPDATE of last_seen_at alone, if it is due.  It finds no
\* row when the session was deleted meanwhile, and the request fails.
Touch(c) ==
    LET k == call[c].token
        there == session[k] # None
    IN
    /\ call[c].at = "entry"
    /\ session' = IF there THEN [session EXCEPT ![k] = Touched(c, @)] ELSE session
    /\ call' = [call EXCEPT ![c] = IF TouchDue(c) /\ ~there THEN NoCall
                                   ELSE [@ EXCEPT !.at = "in", !.row = None]]
    /\ UNCHANGED <<hits, clock, born, signedOut, tries>>

\* The handler of another request ends.
HandlerEnds(c) ==
    /\ call[c].at = "in" /\ ~call[c].logout
    /\ call' = [call EXCEPT ![c] = NoCall]
    /\ UNCHANGED <<session, hits, clock, born, signedOut, tries>>

\* logout, and revoke_session; a second one finds nothing to delete.
Logout(c) ==
    /\ call[c].at = "in" /\ call[c].logout
    /\ session' = [session EXCEPT ![call[c].token] = None]
    /\ signedOut' = signedOut \cup {call[c].token}
    /\ call' = [call EXCEPT ![c] = NoCall]
    /\ UNCHANGED <<hits, clock, born, tries>>

\* The server starts again: sessions are rows, the limiter's queue is not.
Restart ==
    /\ call' = [c \in Calls |-> NoCall]
    /\ hits' = <<>>
    /\ tries' = <<>>
    /\ UNCHANGED <<session, clock, born, signedOut>>

ClockRuns ==
    /\ clock < LastTick
    /\ clock' = clock + 1
    /\ UNCHANGED <<session, call, hits, born, signedOut, tries>>

SignInNext ==
    \/ \E k \in Tokens : Login(k)
    \/ LoginFailed
    \/ TurnedAway
    \/ \E c \in Calls, k \in Tokens, out \in BOOLEAN : Require(c, k, out)
    \/ \E c \in Calls : Touch(c) \/ HandlerEnds(c) \/ Logout(c)
    \/ Restart
    \/ ClockRuns

SignInSpec == SignInInit /\ [][SignInNext]_signInVars

----------------------------------------------------------------------------
SignInTypeOK ==
    /\ session \in [Tokens -> SessionRow \cup {None}]
    /\ call \in [Calls -> CallRow]
    /\ hits \in Seq(Clock) /\ Len(hits) <= Attempts
    /\ clock \in Clock
    /\ born \in [Tokens -> Clock \cup {None}]
    /\ signedOut \subseteq Tokens
    /\ tries \in Seq(Clock)

\* A session that has ended lets nobody in again, whatever was under way when it did: who
\* is let in asked less than Lifetime after signing in, and before any sign-out.
EndedStaysEnded ==
    \A c \in Calls : call[c].at = "in" =>
        /\ ~call[c].ended
        /\ call[c].asked < born[call[c].token] + Lifetime

\* No Window has more than Attempts attempts to sign in, unless the server started in it.
LoginsLimited ==
    \A i, j \in 1 .. Len(tries) : j >= i + Attempts => tries[j] - tries[i] > Window

\* Both: who gets in, and who may try.
DoorKept == EndedStaysEnded /\ LoginsLimited
=============================================================================
