------------------------------ MODULE Delivery ------------------------------
(***************************************************************************)
(* The life of an outbound text, from the request that queues it to the    *)
(* carrier's last status callback: domain/messages.py, domain/consent.py,  *)
(* the keyword replies of channels/inbound.py, queue/handlers/outbound.py, *)
(* channels/twilio_sms.py and the status hook of api/hooks.py.             *)
(*                                                                         *)
(* Requests run on gunicorn's threads, the outbound.send handler on the    *)
(* worker thread.  Each is one transaction, and none locks what it reads:  *)
(* a request is a step that reads and a step that commits, and carries in  *)
(* between what it has read.  The provider is outside the transaction: a   *)
(* call it accepted stays accepted when the worker's commit never happens. *)
(* What JobQueue says of the queue is used here: an outbound.send job is   *)
(* run, by one worker, until a transaction that completes it commits.      *)
(***************************************************************************)
EXTENDS Naturals, FiniteSets, Table

CONSTANTS
    Messages,   \* outbound messages to one guest
    Pids,       \* provider message ids (Twilio SIDs), one for each accepted call
    Threads,    \* request threads (16 in gunicorn)
    Worker,     \* the job worker's thread
    MaxRetries, \* bound on the retries staff ask for
    MaxCrashes, \* bound on crashes of the process
    Overlapping \* kinds of request about one message that may overlap one another

ASSUME DeliveryAssumption ==
    /\ Worker \notin Threads
    /\ None \notin Messages \cup Pids
    /\ MaxRetries \in Nat
    /\ MaxCrashes \in Nat
    /\ Overlapping \subseteq {"retry", "callback"}

Actors == Threads \cup {Worker}

VARIABLES
    msg,      \* the message table
    consent,  \* guest.sms_consent_status
    sends,    \* outbound.send jobs not yet done, by message
    reg,      \* what each thread's request has read
    accepted, \* the message of each call the provider accepted
    reported, \* the statuses the provider has sent out for each call
    retries, crashes

vars == <<msg, consent, sends, reg, accepted, reported, retries, crashes>>
provider == <<accepted, reported>>

Failures == {"failed", "undelivered"}
Rank == [queued |-> 1, sent |-> 2, delivered |-> 3]   \* _FORWARD_ORDER
Forward == DOMAIN Rank
Status == Forward \cup Failures \cup {"absent"}

Consent == {"unknown", "opted_in", "opted_out"}
Ops == {"idle", "send", "retry", "callback", "job"}

\* auto: sent by the application under allow_opt_out_confirmation.
MessageRow == [status : Status, pid : Pids \cup {None}, auto : BOOLEAN]
Register == [op : Ops, m : Messages \cup {None}, pid : Pids \cup {None}, to : Status]

Idle == [op |-> "idle", m |-> None, pid |-> None, to |-> "absent"]

\* The definitions named ..Slip are mistakes one could make in the next one: the
\* checks are tried on them, and the specification does not use them.
QueueSlip(auto) == [status |-> "pending", pid |-> None, auto |-> auto]

Queue(auto) == [status |-> "queued", pid |-> None, auto |-> auto]

\* assert_can_send: only an opt-out stops a message, and never its confirmation.
CanSend(auto) == consent # "opted_out" \/ auto

\* A request of this kind about m may begin.  (Any may, in the code.)
MayBegin(op, m) == \A t \in Threads : reg[t].m = m => {op, reg[t].op} \subseteq Overlapping

\* update_delivery_status: a backward or no-op transition is ignored.
Ignored(was, to) == was \in Forward /\ to \in Forward /\ Rank[to] <= Rank[was]

----------------------------------------------------------------------------
Init ==
    /\ msg = [m \in Messages |-> [status |-> "absent", pid |-> None, auto |-> FALSE]]
    /\ consent = "opted_in"
    /\ sends = [m \in Messages |-> 0]
    /\ reg = [a \in Actors |-> Idle]
    /\ accepted = [p \in Pids |-> None]
    /\ reported = [p \in Pids |-> {}]
    /\ retries = 0
    /\ crashes = 0

(***************************************************************************)
(* Staff send, and send again                                              *)
(***************************************************************************)

\* POST .../messages: the guest's consent is read...
SendRead(t, m) ==
    /\ reg[t].op = "idle"
    /\ msg[m].status = "absent"
    /\ \A a \in Actors : reg[a].m # m
    /\ CanSend(FALSE)
    /\ reg' = [reg EXCEPT ![t] = [Idle EXCEPT !.op = "send", !.m = m]]
    /\ UNCHANGED <<msg, consent, sends, provider, retries, crashes>>

\* ... and the message and its outbound.send job are committed.
SendCommit(t) ==
    LET m == reg[t].m IN
    /\ reg[t].op = "send"
    /\ msg' = [msg EXCEPT ![m] = Queue(FALSE)]
    /\ sends' = [sends EXCEPT ![m] = @ + 1]
    /\ reg' = [reg EXCEPT ![t] = Idle]
    /\ UNCHANGED <<consent, provider, retries, crashes>>

\* POST .../retry: only a failed message can be retried.  Consent is not asked.
RetryRead(t, m) ==
    /\ reg[t].op = "idle"
    /\ MayBegin("retry", m)
    /\ msg[m].status \in Failures
    /\ retries < MaxRetries
    /\ retries' = retries + 1
    /\ reg' = [reg EXCEPT ![t] = [op |-> "retry", m |-> m, pid |-> msg[m].pid, to |-> "queued"]]
    /\ UNCHANGED <<msg, consent, sends, provider, crashes>>

\* Slip: the message is queued again, and no job is.
RetrySlip(t) ==
    /\ reg[t].op = "retry"
    /\ msg' = [msg EXCEPT ![reg[t].m].status = "queued", ![reg[t].m].pid = None]
    /\ reg' = [reg EXCEPT ![t] = Idle]
    /\ UNCHANGED <<consent, sends, provider, retries, crashes>>

\* The ORM writes the columns that changed: pid, if the row that was read had one.
RetryCommit(t) ==
    LET m == reg[t].m IN
    /\ reg[t].op = "retry"
    /\ msg' = [msg EXCEPT ![m].status = "queued",
                          ![m].pid = IF reg[t].pid = None THEN @ ELSE None]
    /\ sends' = [sends EXCEPT ![m] = @ + 1]
    /\ reg' = [reg EXCEPT ![t] = Idle]
    /\ UNCHANGED <<consent, provider, retries, crashes>>

(***************************************************************************)
(* The guest's keywords                                                    *)
(***************************************************************************)

\* STOP, START or HELP, on a thread of its own: consent changes and the automatic
\* reply is queued, in one transaction.
Keyword(m, new, auto) ==
    /\ \E t \in Threads : reg[t].op = "idle"
    /\ msg[m].status = "absent"
    /\ \A a \in Actors : reg[a].m # m
    /\ consent' = new
    /\ msg' = [msg EXCEPT ![m] = Queue(auto)]
    /\ sends' = [sends EXCEPT ![m] = @ + 1]
    /\ UNCHANGED <<reg, provider, retries, crashes>>

Stop(m) == Keyword(m, "opted_out", TRUE)
Start(m) == Keyword(m, "opted_in", FALSE)
Help(m) == Keyword(m, consent, TRUE)

(***************************************************************************)
(* The outbound.send job                                                   *)
(***************************************************************************)

\* `msg.delivery_status != queued: return`: the job is done, with no effect.
JobSkip(m) ==
    /\ reg[Worker].op = "idle"
    /\ sends[m] > 0
    /\ msg[m].status # "queued"
    /\ sends' = [sends EXCEPT ![m] = @ - 1]
    /\ UNCHANGED <<msg, consent, reg, provider, retries, crashes>>

\* adapter.send returns: the provider has the text, the database does not know.
JobCall(m, p) ==
    /\ reg[Worker].op = "idle"
    /\ sends[m] > 0
    /\ msg[m].status = "queued"
    /\ accepted[p] = None
    /\ accepted' = [accepted EXCEPT ![p] = m]
    /\ reg' = [reg EXCEPT ![Worker] = [op |-> "job", m |-> m, pid |-> p, to |-> "queued"]]
    /\ UNCHANGED <<msg, consent, sends, reported, retries, crashes>>

\* adapter.send raises, whether or not the provider took the text before the
\* answer was lost (p); the message is marked failed and the job is done.
JobRaises(m, p) ==
    /\ reg[Worker].op = "idle"
    /\ sends[m] > 0
    /\ msg[m].status = "queued"
    /\ p # None => accepted[p] = None
    /\ accepted' = [q \in Pids |-> IF q = p THEN m ELSE accepted[q]]
    /\ msg' = [msg EXCEPT ![m].status = "failed"]
    /\ sends' = [sends EXCEPT ![m] = @ - 1]
    /\ UNCHANGED <<consent, reg, reported, retries, crashes>>

\* Slip: the job is not completed in the transaction that stores the id.
JobSlip ==
    /\ reg[Worker].op = "job"
    /\ msg' = [msg EXCEPT ![reg[Worker].m].pid = reg[Worker].pid]
    /\ reg' = [reg EXCEPT ![Worker] = Idle]
    /\ UNCHANGED <<consent, sends, provider, retries, crashes>>

\* The id the provider gave is stored and the job is done, in one transaction.
JobCommit ==
    LET m == reg[Worker].m IN
    /\ reg[Worker].op = "job"
    /\ msg' = [msg EXCEPT ![m].pid = reg[Worker].pid]
    /\ sends' = [sends EXCEPT ![m] = @ - 1]
    /\ reg' = [reg EXCEPT ![Worker] = Idle]
    /\ UNCHANGED <<consent, provider, retries, crashes>>

(***************************************************************************)
(* Status callbacks                                                        *)
(***************************************************************************)

\* The provider moves one of its calls on and posts it.  What it has posted may
\* arrive at any later time, in any order, again, or never.
Report(p, s) ==
    /\ accepted[p] # None
    /\ \/ reported[p] = {} /\ s \in {"sent", "failed", "undelivered"}
       \/ reported[p] = {"sent"} /\ s \in {"delivered", "undelivered"}
    /\ reported' = [reported EXCEPT ![p] = @ \cup {s}]
    /\ UNCHANGED <<msg, consent, sends, reg, accepted, retries, crashes>>

\* sms_status finds the message by its SID, and update_delivery_status reads
\* its status.  An unknown SID and an ignored status are answered 204.
CallbackRead(t, p, s) ==
    /\ reg[t].op = "idle"
    /\ s \in reported[p]
    /\ \E m \in Messages :
         /\ MayBegin("callback", m)
         /\ msg[m].pid = p
         /\ ~Ignored(msg[m].status, s)
         /\ reg' = [reg EXCEPT ![t] = [op |-> "callback", m |-> m, pid |-> p, to |-> s]]
    /\ UNCHANGED <<msg, consent, sends, provider, retries, crashes>>

CallbackCommit(t) ==
    /\ reg[t].op = "callback"
    /\ msg' = [msg EXCEPT ![reg[t].m].status = reg[t].to]
    /\ reg' = [reg EXCEPT ![t] = Idle]
    /\ UNCHANGED <<consent, sends, provider, retries, crashes>>

\* The process dies: every open request and the running job are rolled back,
\* and the job will be taken back once its lock is stale.
Crash ==
    /\ crashes < MaxCrashes
    /\ crashes' = crashes + 1
    /\ reg' = [a \in Actors |-> Idle]
    /\ UNCHANGED <<msg, consent, sends, provider, retries>>

----------------------------------------------------------------------------
WorkerStep ==
    \/ \E m \in Messages :
         \/ JobSkip(m)
         \/ \E p \in Pids : JobCall(m, p)
         \/ \E p \in Pids \cup {None} : JobRaises(m, p)
    \/ JobCommit

Request(t) ==
    \/ \E m \in Messages : SendRead(t, m) \/ RetryRead(t, m)
    \/ \E p \in Pids, s \in Status : CallbackRead(t, p, s)
    \/ SendCommit(t)
    \/ RetryCommit(t)
    \/ CallbackCommit(t)

Next ==
    \/ WorkerStep
    \/ \E t \in Threads : Request(t)
    \/ \E m \in Messages : Stop(m) \/ Start(m) \/ Help(m)
    \/ \E p \in Pids, s \in Status : Report(p, s)
    \/ Crash

Spec == Init /\ [][Next]_vars

\* The worker thread runs what is queued; nobody else has to do anything.
FairSpec == Spec /\ WF_vars(WorkerStep)

----------------------------------------------------------------------------
TypeOK ==
    /\ msg \in [Messages -> MessageRow]
    /\ consent \in Consent
    /\ sends \in [Messages -> Nat]
    /\ reg \in [Actors -> Register]
    /\ accepted \in [Pids -> Messages \cup {None}]
    /\ reported \in [Pids -> SUBSET Status]
    /\ retries \in 0 .. MaxRetries
    /\ crashes \in 0 .. MaxCrashes
    /\ \A a \in Actors : reg[a].op # "idle" => reg[a].m \in Messages

\* A message the provider has not taken, and that has not failed, always has a
\* job that will send it: no crash, race or retry leaves it "stuck at queued
\* forever" (outbound.py:22-30, messages.py:56-70, 141-142).
NeverStranded ==
    \A m \in Messages : msg[m].status = "queued" /\ msg[m].pid = None => sends[m] > 0

\* A guest is not texted twice for one message, but for a retry that staff asked
\* for or a crash between the provider's answer and the commit: each call the
\* provider accepts is the message's first or has one of these to answer for it
\* (outbound.py:16-19, "already handled or retried; idempotent").
TextedOnce ==
    \A m \in Messages :
        Cardinality({p \in Pids : accepted[p] = m}) <= 1 + retries + crashes

\* design.md 11.1 item 5: after STOP "all subsequent non-emergency sends to that
\* number are rejected at the send path".  A retry is a send, too.
RetryHonoursStop ==
    [][\A m \in Messages :
         msg[m].status \in Failures /\ msg'[m].status = "queued"
            => msg'[m].auto \/ consent # "opted_out"]_vars

\* queued -> sent -> delivered only moves forward: whatever the order callbacks
\* arrive in and however often, none reverts a later status (messages.py:28-31).
ForwardOnly ==
    [][\A m \in Messages :
         msg[m].status \in Forward /\ msg'[m].status \in Forward
            => Rank[msg[m].status] <= Rank[msg'[m].status]]_vars

\* A message that staff have queued again is moved by its next sending only: retry
\* clears the SID, so that a late callback about the call it supersedes finds no
\* message, and the new attempt is not taken for failed (messages.py:62-65).
StaleCallbackHarmless ==
    [][\A m \in Messages :
         msg[m].status = "queued" /\ msg[m].pid = None /\ msg'[m].status # "queued"
            => sends'[m] < sends[m]]_vars

\* Every message that is queued is handed to the provider or marked failed.
EventuallyHandedOver ==
    \A m \in Messages : msg[m].status = "queued" /\ msg[m].pid = None
                            ~> msg[m].pid # None \/ msg[m].status = "failed"

\* Both: what is queued is moved by its own sending, and is sent in the end.
SendingsSettle == StaleCallbackHarmless /\ EventuallyHandedOver
=============================================================================
