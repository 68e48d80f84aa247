------------------------------ MODULE HotelLog ------------------------------
(***************************************************************************)
(* The hotel log: its posts (domain/log.py) and the template of a post,    *)
(* which only those it is shared with may use (domain/log_templates.py).   *)
(* Members come and go meanwhile, and departments do.                      *)
(***************************************************************************)
EXTENDS Members

CONSTANT Posts \* ids of log entries

VARIABLES
    post,     \* per id, the entry, None before it is posted
    audience, \* log_template_audience: with whom it is shared, all if nobody
    wanted     \* history: with whom it was to be shared when it was last saved

logVars == <<post, audience, wanted>>

Refs == Accounts \cup Departments
KnownRef(x) == (x \in Accounts /\ role[x] # None) \/ x \in OpenDepts

Exempt == {"manager", "admin"}

\* _allowed.
Allowed(u) ==
    /\ Member(u)
    /\ \/ audience = {} \/ role[u] \in Exempt
       \/ u \in audience \/ dept[u] \in audience

\* resolve_audience.
Audience(refs) == {u \in Accounts : Member(u) /\ (u \in refs \/ dept[u] \in refs)}

\* Slip: who is both mentioned and asked gets both notices.
AlsoToldSlip(expected, mentioned) == expected
AlsoTold(expected, mentioned) == expected \ mentioned

\* told: the notices each user got of it.
NewEntry(by, expected, mentioned) ==
    [by |-> by, expected |-> expected, mentioned |-> mentioned, acks |-> {},
     told |-> [u \in Accounts |-> (IF u \in mentioned THEN 1 ELSE 0)
                               + (IF u \in AlsoTold(expected, mentioned) THEN 1 ELSE 0)]]

EntryType == [by : Accounts, expected : SUBSET Accounts, mentioned : SUBSET Accounts,
              acks : SUBSET Accounts, told : [Accounts -> 0 .. 2]]

----------------------------------------------------------------------------
LogInit ==
    /\ MembersInit
    /\ post = [e \in Posts |-> None]
    /\ audience = {}
    /\ wanted = {}

\* create, with the template or without: mentions and ack_audience are members and
\* departments of the property.
Post(by, e, acks, mentions, templated) ==
    /\ Member(by) /\ post[e] = None
    /\ templated => Allowed(by)
    /\ \A x \in acks \cup mentions : KnownRef(x)
    /\ post' = [post EXCEPT ![e] =
           NewEntry(by, Audience(acks) \ {by}, Audience(mentions) \ {by})]
    /\ UNCHANGED <<memberVars, audience, wanted>>

ConfirmRead(u, e) ==
    /\ Member(u) /\ post[e] # None
    /\ u \in post[e].expected
    /\ post' = [post EXCEPT ![e].acks = @ \cup {u}]
    /\ UNCHANGED <<memberVars, audience, wanted>>

\* patch, the audience: _clean_audience drops a reference that was saved and is stale.
ShareTemplate(by, refs) ==
    /\ IsAdmin(by)
    /\ \A x \in refs : KnownRef(x) \/ x \in audience
    /\ audience' = {x \in refs : KnownRef(x)}
    /\ wanted' = refs
    /\ UNCHANGED <<memberVars, post>>

----------------------------------------------------------------------------
LogNext ==
    \/ MembersNext /\ UNCHANGED logVars
    \/ \E by \in Accounts, e \in Posts, acks, mentions \in SUBSET Refs, templated \in BOOLEAN :
           Post(by, e, acks, mentions, templated)
    \/ \E u \in Accounts, e \in Posts : ConfirmRead(u, e)
    \/ \E by \in Accounts, refs \in SUBSET Refs : ShareTemplate(by, refs)

LogSpec == LogInit /\ [][LogNext]_<<memberVars, logVars>>

----------------------------------------------------------------------------
LogTypeOK ==
    /\ MembersTypeOK
    /\ post \in [Posts -> EntryType \cup {None}]
    /\ audience \subseteq Refs
    /\ wanted \subseteq Refs

\* Whoever a post mentions or asks to acknowledge it, by name or by department, is told of
\* it once, and its author is not (log.py:192-204).
ToldOnce ==
    \A e \in Posts : post[e] # None =>
        \A u \in Accounts :
            post[e].told[u] = IF u \in post[e].mentioned \cup post[e].expected THEN 1 ELSE 0

\* "Only audience users and department members" post with a template that was last saved
\* with an audience, and those whose role exempts them (log-templates-design.md:28, 129-131).
SharedAsAsked ==
    wanted # {} => \A u \in Accounts :
        Allowed(u) => role[u] \in Exempt \/ u \in wanted \/ dept[u] \in wanted
=============================================================================
