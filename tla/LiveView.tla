------------------------------ MODULE LiveView ------------------------------
(***************************************************************************)
(* How a change reaches an open page: the session that commits it and then *)
(* delivers its events (db.py, realtime/broadcast.py), the registry of     *)
(* sockets (realtime/registry.py, ws.py), and the client that refetches    *)
(* what an event makes stale (web/src/api/ws.ts, through TanStack Query).  *)
(*                                                                         *)
(* One page showing one query, which has been loaded once: TanStack        *)
(* cancels a request in flight only for a query that has data.  The        *)
(* server's and the client's end of a connection are dropped together: an  *)
(* end that outlives the other only sends to nobody (ws.ts drops what an   *)
(* abandoned socket brings).                                               *)
(***************************************************************************)
EXTENDS Naturals, Sequences

CONSTANT MaxVersion \* bounds how often the data changes

ASSUME LiveViewAssumption == MaxVersion \in Nat

VARIABLES
    version, \* the committed state of what the page shows
    owed,    \* committed transactions whose event is not yet delivered
    conn,    \* the connection, as the server sees it
    wire,    \* frames on their way to the client, in order
    again,   \* ws.ts: attempt.current > 0
    back,    \* history: the socket is open, and not the first one
    shown,   \* the version on the page
    fetch    \* the request for it: none, failed, asked, or the version it brings

viewVars == <<version, owed, conn, wire, again, back, shown, fetch>>

Versions == 0 .. MaxVersion
Connection == {"down", "dialled", "added", "open"}
Query == [at : {"none", "asked", "failed", "answered"}, brings : Versions]

NoFetch == [at |-> "none", brings |-> 0]
Asked == [at |-> "asked", brings |-> 0]

----------------------------------------------------------------------------
ViewInit ==
    /\ version = 0 /\ shown = 0
    /\ owed = 0
    /\ conn = "down" /\ wire = <<>>
    /\ again = FALSE /\ back = FALSE
    /\ fetch = NoFetch

Notify == IF conn \in {"added", "open"} THEN Append(wire, "changed") ELSE wire

\* Database.session: commit, ...
CommitChange ==
    /\ version < MaxVersion
    /\ version' = version + 1
    /\ owed' = owed + 1
    /\ UNCHANGED <<conn, wire, again, back, shown, fetch>>

\* ... and deliver, to the sockets registered by then.
Deliver ==
    /\ owed > 0
    /\ owed' = owed - 1
    /\ wire' = Notify
    /\ UNCHANGED <<version, conn, again, back, shown, fetch>>

Dial ==
    /\ conn = "down"
    /\ conn' = "dialled"
    /\ UNCHANGED <<version, owed, wire, again, back, shown, fetch>>

\* ws_route on "subscribe": connections.add, ...
Subscribe ==
    /\ conn = "dialled"
    /\ conn' = "added"
    /\ UNCHANGED <<version, owed, wire, again, back, shown, fetch>>

\* ... then the acknowledgement.
Acknowledge ==
    /\ conn = "added"
    /\ conn' = "open"
    /\ wire' = Append(wire, "subscribed")
    /\ UNCHANGED <<version, owed, again, back, shown, fetch>>

\* invalidateQueries: whatever is in flight is cancelled.
Refetch == Asked

\* Slip: the first socket and a later one are alike.
OnAckSlip == fetch
OnAck == IF again THEN Refetch ELSE fetch

\* onmessage.
OnMessage ==
    /\ wire # <<>>
    /\ wire' = Tail(wire)
    /\ IF Head(wire) = "subscribed"
       THEN fetch' = OnAck /\ again' = FALSE /\ back' = again
       ELSE fetch' = Refetch /\ UNCHANGED <<again, back>>
    /\ UNCHANGED <<version, owed, conn, shown>>

\* onclose, at either end; the next attempt comes after the backoff.
Close ==
    /\ conn # "down"
    /\ conn' = "down" /\ wire' = <<>>
    /\ again' = TRUE /\ back' = FALSE
    /\ UNCHANGED <<version, owed, shown, fetch>>

\* The server's process dies: what it had not delivered is lost, and so is the socket.
ServerDies ==
    /\ owed > 0
    /\ owed' = 0
    /\ conn' = "down" /\ wire' = <<>>
    /\ again' = TRUE /\ back' = FALSE
    /\ UNCHANGED <<version, shown, fetch>>

----------------------------------------------------------------------------
\* The handler's SELECT.
Answered ==
    /\ fetch.at = "asked"
    /\ fetch' = [at |-> "answered", brings |-> version]
    /\ UNCHANGED <<version, owed, conn, wire, again, back, shown>>

Arrives ==
    /\ fetch.at = "answered"
    /\ shown' = fetch.brings
    /\ fetch' = NoFetch
    /\ UNCHANGED <<version, owed, conn, wire, again, back>>

\* The retries are used up; the page keeps what it shows.
GivesUp ==
    /\ fetch.at \in {"asked", "answered"}
    /\ fetch' = [at |-> "failed", brings |-> 0]
    /\ UNCHANGED <<version, owed, conn, wire, again, back, shown>>

\* The window is focused or the page mounted again, and the data is not fresh.
Revisit ==
    /\ fetch.at \in {"none", "failed"}
    /\ fetch' = Asked
    /\ UNCHANGED <<version, owed, conn, wire, again, back, shown>>

----------------------------------------------------------------------------
ViewNext ==
    \/ CommitChange \/ Deliver \/ ServerDies
    \/ Dial \/ Subscribe \/ Acknowledge \/ OnMessage \/ Close
    \/ Answered \/ Arrives \/ GivesUp \/ Revisit

ViewSpec == ViewInit /\ [][ViewNext]_viewVars

----------------------------------------------------------------------------
ViewTypeOK ==
    /\ version \in Versions /\ shown \in Versions
    /\ owed \in Nat
    /\ conn \in Connection
    /\ wire \in Seq({"subscribed", "changed"})
    /\ again \in BOOLEAN /\ back \in BOOLEAN
    /\ fetch \in Query

\* "A front desk agent who reconnects must not miss a message that arrived while they
\* were offline" (docs/design.md:848): once a socket that is not the first is open and
\* nothing is on its way, the page shows what is committed.
NothingMissed ==
    back /\ wire = <<>> /\ owed = 0 /\ fetch.at = "none" => shown = version
=============================================================================
