-------------------------- MODULE FrontDeskProofs ---------------------------
(***************************************************************************)
(* Theorems about the parts of MCFrontDesk.  Texts, for any number of      *)
(* messages, provider ids and request threads.  However requests overlap:  *)
(* the type invariant, no queued message is without a job, stored SIDs are *)
(* the right ones, and every call the provider accepts is accounted for.   *)
(* When no callback overlaps another request on its message: statuses move *)
(* forward, and a callback about a superseded call finds no message.  Short*)
(* links, for any number of assets: whatever is done to them, a link opens *)
(* its own.  The members' door, for any number of cookies and requests: who*)
(* has signed out is not let in, and the limit on attempts holds.          *)
(* Notifications, for any staff: one comes to somebody, once, and only who *)
(* has seen it marks it read.  The lists of the inbox: a conversation is in*)
(* one.  The pages of the log's feed, and the forms of its templates.  Last,*)
(* the parts together.                                                     *)
(***************************************************************************)
EXTENDS MCFrontDesk, TableProofs

\* The SID stored with a message is one the provider gave for that message, and
\* no other message has it, so a callback moves the message it is about
\* (outbound.py:31, hooks.py:53-61, uq_message_property_provider).
PidIsOurs ==
    \A m \in Messages : msg[m].pid # None =>
        /\ accepted[msg[m].pid] = m
        /\ \A n \in Messages : msg[n].pid = msg[m].pid => n = m

\* What holds between a handler's read and its commit, and keeps the two
\* invariants inductive: the running job is still counted, the SID it will
\* store was accepted for its message, and no callback says "queued" or "absent".
InFlight ==
    /\ reg[Worker].op = "job" =>
         /\ sends[reg[Worker].m] > 0
         /\ reg[Worker].pid # None
         /\ accepted[reg[Worker].pid] = reg[Worker].m
    /\ \A t \in Threads : reg[t].op = "callback" => reg[t].to \notin {"queued", "absent"}
    /\ \A p \in Pids : "queued" \notin reported[p] /\ "absent" \notin reported[p]

\* A stored SID was given for the message that stores it.
PidsAccepted ==
    \A m \in Messages : msg[m].pid # None => accepted[msg[m].pid] = m

Inv == TypeOK /\ InFlight /\ NeverStranded /\ PidsAccepted

LEMMA RowTypes ==
    /\ \A b \in BOOLEAN : Queue(b) \in MessageRow
    /\ Idle \in Register
    /\ Idle.op = "idle"
BY DEF Queue, Idle, MessageRow, Register, Status, Forward, Rank, Failures, Ops

LEMMA StatusNames ==
    /\ Forward = {"queued", "sent", "delivered"}
    /\ {"queued", "failed", "absent"} \subseteq Status
BY DEF Forward, Rank, Failures, Status

LEMMA InvInit == Init => Inv
<1> SUFFICES ASSUME Init PROVE Inv
  OBVIOUS
<1> USE DeliveryAssumption DEF Init
<1>1. msg \in [Messages -> MessageRow]
  BY DEF MessageRow, Status, Forward, Failures, Rank
<1>2. \A a \in Actors : reg[a] = Idle /\ reg[a].op = "idle"
  BY RowTypes
<1>3. TypeOK
  <2>1. reg \in [Actors -> Register]
    BY RowTypes
  <2>2. accepted \in [Pids -> Messages \cup {None}] /\ reported \in [Pids -> SUBSET Status]
    OBVIOUS
  <2>3. consent \in Consent /\ sends \in [Messages -> Nat]
    BY DEF Consent
  <2>4. retries \in 0 .. MaxRetries /\ crashes \in 0 .. MaxCrashes
    BY DEF DeliveryAssumption
  <2> QED BY <1>1, <1>2, <2>1, <2>2, <2>3, <2>4 DEF TypeOK
<1>4. InFlight
  <2>1. \A a \in Actors : reg[a].op = "idle"
    BY <1>2
  <2>2. \A p \in Pids : reported[p] = {}
    OBVIOUS
  <2> QED BY <2>1, <2>2 DEF InFlight, Actors
<1> QED BY <1>3, <1>4 DEF Inv, NeverStranded, PidsAccepted

LEMMA InvNext == Inv /\ [Next]_vars => Inv'
<1> SUFFICES ASSUME Inv, [Next]_vars PROVE Inv'
  OBVIOUS
<1> USE DeliveryAssumption, RowTypes
<1>0. /\ \A m \in Messages : /\ msg[m] \in MessageRow
                             /\ msg[m].status \in Status
                             /\ msg[m].pid \in Pids \cup {None}
                             /\ msg[m].auto \in BOOLEAN
      /\ \A a \in Actors : /\ reg[a] \in Register
                           /\ reg[a].pid \in Pids \cup {None}
                           /\ reg[a].to \in Status
      /\ Worker \in Actors
      /\ Threads \subseteq Actors
      /\ "queued" \in Status /\ "failed" \in Status
  <2>1. \A m \in Messages : msg[m] \in MessageRow
    BY DEF Inv, TypeOK
  <2>2. \A a \in Actors : reg[a] \in Register
    BY DEF Inv, TypeOK
  <2> QED BY <2>1, <2>2, StatusNames DEF MessageRow, Register, Actors
<1>1. ASSUME NEW t \in Threads, NEW m \in Messages, SendRead(t, m) PROVE Inv'
  <2>1. [Idle EXCEPT !.op = "send", !.m = m] \in Register
    BY DEF Register, Idle, Ops, Status, Forward, Failures
  <2>2. [Idle EXCEPT !.op = "send", !.m = m].op = "send"
        /\ [Idle EXCEPT !.op = "send", !.m = m].m = m
    BY DEF Idle
  <2> QED
    BY <1>0, <1>1, <2>1, <2>2
    DEF SendRead, provider, Inv, TypeOK, InFlight, NeverStranded, PidsAccepted
<1>2. ASSUME NEW t \in Threads, SendCommit(t) PROVE Inv'
  <2>1. reg[t].m \in Messages
    BY <1>0, <1>2 DEF SendCommit, Inv, TypeOK
  <2>2. Queue(FALSE).pid = None /\ Queue(FALSE) \in MessageRow
    BY DEF Queue
  <2>3. msg' = [msg EXCEPT ![reg[t].m] = Queue(FALSE)]
        /\ sends' = [sends EXCEPT ![reg[t].m] = @ + 1]
        /\ reg' = [reg EXCEPT ![t] = Idle]
        /\ UNCHANGED <<consent, provider, retries, crashes>>
    BY <1>2 DEF SendCommit
  <2>4. \A m \in Messages : m # reg[t].m => msg'[m] = msg[m] /\ sends'[m] = sends[m]
    BY <2>3 DEF Inv, TypeOK
  <2>5. sends' \in [Messages -> Nat] /\ sends'[reg[t].m] > 0
    BY <2>1, <2>3 DEF Inv, TypeOK
  <2>6. msg' \in [Messages -> MessageRow] /\ msg'[reg[t].m].pid = None
    BY <2>1, <2>2, <2>3 DEF Inv, TypeOK
  <2>7. TypeOK'
    BY <1>0, <2>3, <2>5, <2>6 DEF provider, Inv, TypeOK
  <2>8. InFlight'
    BY <1>0, <2>1, <2>3, <2>4, <2>5 DEF provider, Inv, TypeOK, InFlight
  <2>9. NeverStranded' /\ PidsAccepted'
    BY <2>3, <2>4, <2>5, <2>6 DEF provider, Inv, NeverStranded, PidsAccepted
  <2> QED BY <2>7, <2>8, <2>9 DEF Inv
<1>3. ASSUME NEW t \in Threads, NEW m \in Messages, RetryRead(t, m) PROVE Inv'
  <2>1. [op |-> "retry", m |-> m, pid |-> msg[m].pid, to |-> "queued"] \in Register
    BY <1>0 DEF Register, Ops
  <2> QED
    BY <1>0, <1>3, <2>1
    DEF RetryRead, provider, Inv, TypeOK, InFlight, NeverStranded, PidsAccepted
<1>4. ASSUME NEW t \in Threads, RetryCommit(t) PROVE Inv'
  <2>1. reg[t].m \in Messages
    BY <1>0, <1>4 DEF RetryCommit, Inv, TypeOK
  <2>2. msg' \in [Messages -> MessageRow]
    BY <1>0, <1>4, <2>1 DEF RetryCommit, Inv, TypeOK, MessageRow
  <2>3. \A m \in Messages : msg'[m].pid \in {msg[m].pid, None}
    BY <1>0, <1>4, <2>1 DEF RetryCommit, Inv, TypeOK, MessageRow
  <2>4. \A m \in Messages : m # reg[t].m => msg'[m] = msg[m] /\ sends'[m] = sends[m]
    BY <1>4 DEF RetryCommit, Inv, TypeOK
  <2>5. sends' \in [Messages -> Nat] /\ sends'[reg[t].m] > 0
    BY <1>4, <2>1 DEF RetryCommit, Inv, TypeOK
  <2>6. reg' = [reg EXCEPT ![t] = Idle] /\ UNCHANGED <<consent, provider, retries, crashes>>
    BY <1>4 DEF RetryCommit
  <2>7. TypeOK'
    BY <1>0, <2>2, <2>5, <2>6 DEF provider, Inv, TypeOK
  <2>8. InFlight'
    BY <1>0, <2>1, <2>4, <2>5, <2>6 DEF provider, Inv, TypeOK, InFlight
  <2>9. NeverStranded' /\ PidsAccepted'
    BY <2>3, <2>4, <2>5, <2>6 DEF provider, Inv, NeverStranded, PidsAccepted
  <2> QED BY <2>7, <2>8, <2>9 DEF Inv
<1>5. ASSUME NEW m \in Messages, NEW new \in Consent, NEW auto \in BOOLEAN,
             Keyword(m, new, auto)
      PROVE  Inv'
  <2>1. Queue(auto).pid = None
    BY DEF Queue
  <2> QED
    BY <1>0, <1>5, <2>1
    DEF Keyword, provider, Inv, TypeOK, InFlight, NeverStranded, PidsAccepted
<1>6. ASSUME NEW m \in Messages, JobSkip(m) PROVE Inv'
  BY <1>0, <1>6
  DEF JobSkip, provider, Inv, TypeOK, InFlight, NeverStranded, PidsAccepted
<1>7. ASSUME NEW m \in Messages, NEW p \in Pids, JobCall(m, p) PROVE Inv'
  <2>1. [op |-> "job", m |-> m, pid |-> p, to |-> "queued"] \in Register
    BY <1>0 DEF Register, Ops
  <2>2. PidsAccepted'
    BY <1>0, <1>7 DEF JobCall, Inv, TypeOK, PidsAccepted
  <2> QED
    BY <1>0, <1>7, <2>1, <2>2
    DEF JobCall, Inv, TypeOK, InFlight, NeverStranded
<1>8. ASSUME NEW m \in Messages, NEW p \in Pids \cup {None}, JobRaises(m, p) PROVE Inv'
  <2>1. msg' \in [Messages -> MessageRow]
    BY <1>0, <1>8 DEF JobRaises, Inv, TypeOK, MessageRow
  <2>2. \A n \in Messages : msg'[n].pid = msg[n].pid
    BY <1>0, <1>8 DEF JobRaises, Inv, TypeOK, MessageRow
  <2>3. \A q \in Pids : accepted[q] # None => accepted'[q] = accepted[q]
    BY <1>8 DEF JobRaises
  <2>4. accepted' \in [Pids -> Messages \cup {None}]
    BY <1>8 DEF JobRaises, Inv, TypeOK
  <2>5. sends' \in [Messages -> Nat]
    BY <1>8 DEF JobRaises, Inv, TypeOK
  <2>6. \A n \in Messages : n # m => msg'[n] = msg[n] /\ sends'[n] = sends[n]
    BY <1>8 DEF JobRaises, Inv, TypeOK
  <2>7. msg'[m].status = "failed"
    BY <1>0, <1>8 DEF JobRaises, Inv, TypeOK, MessageRow
  <2>8. reg[Worker].op = "idle" /\ UNCHANGED <<consent, reg, reported, retries, crashes>>
    BY <1>8 DEF JobRaises
  <2>9. TypeOK'
    BY <2>1, <2>4, <2>5, <2>8 DEF Inv, TypeOK
  <2>10. InFlight'
    BY <2>8 DEF Inv, InFlight
  <2>11. NeverStranded'
    BY <2>6, <2>7 DEF Inv, NeverStranded
  <2>12. PidsAccepted'
    BY <1>0, <2>2, <2>3 DEF Inv, PidsAccepted
  <2> QED BY <2>9, <2>10, <2>11, <2>12 DEF Inv
<1>9. ASSUME JobCommit PROVE Inv'
  <2>1. /\ reg[Worker].m \in Messages
        /\ reg[Worker].pid \in Pids
        /\ reg[Worker].pid # None
        /\ accepted[reg[Worker].pid] = reg[Worker].m
        /\ sends[reg[Worker].m] > 0
    BY <1>0, <1>9 DEF JobCommit, Inv, TypeOK, InFlight
  <2>2. msg' \in [Messages -> MessageRow]
    BY <1>0, <1>9, <2>1 DEF JobCommit, Inv, TypeOK, MessageRow
  <2>3. \A n \in Messages : n # reg[Worker].m => msg'[n] = msg[n] /\ sends'[n] = sends[n]
    BY <1>9 DEF JobCommit, Inv, TypeOK
  <2>4. msg'[reg[Worker].m].pid = reg[Worker].pid
    BY <1>0, <1>9, <2>1 DEF JobCommit, Inv, TypeOK, MessageRow
  <2>5. sends' \in [Messages -> Nat]
    BY <1>9, <2>1 DEF JobCommit, Inv, TypeOK
  <2>6. reg' = [reg EXCEPT ![Worker] = Idle] /\ UNCHANGED <<consent, provider, retries, crashes>>
    BY <1>9 DEF JobCommit
  <2>7. TypeOK'
    BY <1>0, <2>2, <2>5, <2>6 DEF provider, Inv, TypeOK
  <2>8. InFlight'
    BY <1>0, <2>6 DEF provider, Inv, TypeOK, InFlight
  <2>9. NeverStranded' /\ PidsAccepted'
    BY <2>1, <2>3, <2>4, <2>6 DEF provider, Inv, NeverStranded, PidsAccepted
  <2> QED BY <2>7, <2>8, <2>9 DEF Inv
<1>10. ASSUME NEW p \in Pids, NEW s \in Status, Report(p, s) PROVE Inv'
  <2>1. s \notin {"queued", "absent"}
    BY <1>10 DEF Report
  <2> QED
    BY <1>0, <1>10, <2>1
    DEF Report, Inv, TypeOK, InFlight, NeverStranded, PidsAccepted
<1>11. ASSUME NEW t \in Threads, NEW p \in Pids, NEW s \in Status, CallbackRead(t, p, s)
       PROVE  Inv'
  <2>1. PICK m \in Messages :
          reg' = [reg EXCEPT ![t] = [op |-> "callback", m |-> m, pid |-> p, to |-> s]]
    BY <1>11 DEF CallbackRead
  <2>2. [op |-> "callback", m |-> m, pid |-> p, to |-> s] \in Register
    BY <1>0 DEF Register, Ops
  <2>3. s \notin {"queued", "absent"}
    BY <1>11 DEF CallbackRead, Inv, InFlight
  <2> QED
    BY <1>0, <1>11, <2>1, <2>2, <2>3
    DEF CallbackRead, provider, Inv, TypeOK, InFlight, NeverStranded, PidsAccepted
<1>12. ASSUME NEW t \in Threads, CallbackCommit(t) PROVE Inv'
  <2>1. reg[t].m \in Messages /\ reg[t].to # "queued"
    BY <1>0, <1>12 DEF CallbackCommit, Inv, TypeOK, InFlight
  <2>2. msg' \in [Messages -> MessageRow]
    BY <1>0, <1>12, <2>1 DEF CallbackCommit, Inv, TypeOK, MessageRow
  <2>3. \A m \in Messages : /\ msg'[m].pid = msg[m].pid
                            /\ msg'[m].status # "queued" \/ msg'[m] = msg[m]
    BY <1>0, <1>12, <2>1 DEF CallbackCommit, Inv, TypeOK, MessageRow
  <2>4. reg' = [reg EXCEPT ![t] = Idle] /\ UNCHANGED <<consent, sends, provider, retries, crashes>>
    BY <1>12 DEF CallbackCommit
  <2>5. TypeOK'
    BY <1>0, <2>2, <2>4 DEF provider, Inv, TypeOK
  <2>6. InFlight'
    BY <1>0, <2>4 DEF provider, Inv, TypeOK, InFlight
  <2>7. NeverStranded' /\ PidsAccepted'
    BY <2>3, <2>4 DEF provider, Inv, NeverStranded, PidsAccepted
  <2> QED BY <2>5, <2>6, <2>7 DEF Inv
<1>13. ASSUME Crash PROVE Inv'
  BY <1>0, <1>13
  DEF Crash, provider, Inv, TypeOK, InFlight, NeverStranded, PidsAccepted
<1>14. CASE UNCHANGED vars
  BY <1>14 DEF vars, Inv, TypeOK, InFlight, NeverStranded, PidsAccepted
<1>15. ASSUME NEW m \in Messages, Stop(m) \/ Start(m) \/ Help(m) PROVE Inv'
  <2>1. consent \in Consent /\ "opted_out" \in Consent /\ "opted_in" \in Consent
    BY DEF Inv, TypeOK, Consent
  <2> QED BY <1>5, <1>15, <2>1 DEF Stop, Start, Help
<1> QED
  BY <1>1, <1>2, <1>3, <1>4, <1>6, <1>7, <1>8, <1>9, <1>10, <1>11, <1>12, <1>13, <1>14, <1>15
  DEF Next, WorkerStep, Request

LEMMA InvAlways == Spec => []Inv
<1>1. Init => Inv
  BY InvInit
<1>2. Inv /\ [Next]_vars => Inv'
  BY InvNext
<1> QED BY <1>1, <1>2, PTL DEF Spec

\* Every reachable state is well typed; in particular no job is done twice over,
\* which would take the number of a message's open jobs below zero.
THEOREM DeliveryTyped == Spec => []TypeOK
<1>1. Inv => TypeOK
  BY DEF Inv
<1> QED BY <1>1, InvAlways, PTL

\* However requests, callbacks, retries and crashes overlap, a queued message
\* that the provider has not taken has a job (outbound.py:22-30, messages.py:56-70).
THEOREM NoMessageStranded == Spec => []NeverStranded
<1>1. Inv => NeverStranded
  BY DEF Inv
<1> QED BY <1>1, InvAlways, PTL

\* However they overlap, a stored SID was accepted for the message that holds
\* it and for no other (outbound.py:31, hooks.py:53-61).
THEOREM SidsBelong == Spec => []PidIsOurs
<1>1. Inv => PidIsOurs
  BY DEF Inv, PidsAccepted, PidIsOurs
<1> QED BY <1>1, InvAlways, PTL

(***************************************************************************)
(* Calls to the provider                                                   *)
(***************************************************************************)

\* The calls the provider accepted for m, the retries of m that are under way,
\* and whether a call for m is waiting for its transaction to commit.
CallsFor(m) == {p \in Pids : accepted[p] = m}
Retrying(m) == {t \in Threads : reg[t].op = "retry" /\ reg[t].m = m}
InHand(m) == IF reg[Worker].op = "job" /\ reg[Worker].m = m THEN 1 ELSE 0

\* A message that does not exist yet has no job and no call, and at most the one
\* request that will create it is about it.
Unsent ==
    /\ \A m \in Messages : msg[m].status = "absent" =>
         /\ CallsFor(m) = {}
         /\ sends[m] = 0
         /\ msg[m].pid = None
         /\ \A a \in Actors : reg[a].m = m => reg[a].op = "send"
         /\ \A a, b \in Actors : reg[a].m = m /\ reg[b].m = m => a = b
    /\ \A a \in Actors : reg[a].op = "send" => msg[reg[a].m].status = "absent"

\* What TextedOnce needs to be inductive: a call, a job that may still make one and a
\* retry that will queue one are each answered for by the first sending, by a retry or
\* by a crash; a call whose commit is pending is the same one as its job.
Answered(m) ==
    /\ IsFiniteSet(CallsFor(m))
    /\ IsFiniteSet(Retrying(m))
    /\ Cardinality(CallsFor(m)) + sends[m] + Cardinality(Retrying(m))
         <= 1 + retries + crashes + InHand(m)

Budget == \A m \in Messages : Answered(m)

LEMMA Fields ==
    ASSUME TypeOK
    PROVE  /\ \A m \in Messages : /\ msg[m] \in MessageRow
                                  /\ msg[m].status \in Status
                                  /\ msg[m].pid \in Pids \cup {None}
                                  /\ sends[m] \in Nat
           /\ \A a \in Actors : /\ reg[a] \in Register
                                /\ reg[a].op # "idle" => reg[a].m \in Messages
           /\ Worker \in Actors
           /\ Worker \notin Threads
           /\ Threads \subseteq Actors
           /\ None \notin Messages
           /\ Idle.m = None
           /\ Idle.op = "idle"
<1>1. \A m \in Messages : msg[m] \in MessageRow
  BY DEF TypeOK
<1>2. \A a \in Actors : reg[a] \in Register
  BY DEF TypeOK
<1> QED BY <1>1, <1>2, DeliveryAssumption DEF MessageRow, Register, Actors, Idle, TypeOK

LEMMA UnsentNext == Inv /\ Unsent /\ [Next]_vars => Unsent'
<1> SUFFICES ASSUME Inv, Unsent, [Next]_vars PROVE Unsent'
  OBVIOUS
<1> USE DeliveryAssumption
<1>0. TypeOK
  BY DEF Inv
<1>1. ASSUME NEW t \in Threads, NEW m \in Messages, SendRead(t, m) PROVE Unsent'
  <2>1. /\ reg' = [reg EXCEPT ![t] = [Idle EXCEPT !.op = "send", !.m = m]]
        /\ reg[t].op = "idle"
        /\ msg[m].status = "absent"
        /\ \A a \in Actors : reg[a].m # m
        /\ UNCHANGED <<msg, sends, accepted>>
    BY <1>1 DEF SendRead, provider
  <2>2. /\ [Idle EXCEPT !.op = "send", !.m = m].op = "send"
        /\ [Idle EXCEPT !.op = "send", !.m = m].m = m
    BY DEF Idle
  <2>3. /\ \A a \in Actors : a # t => reg'[a] = reg[a]
        /\ reg'[t].op = "send"
        /\ reg'[t].m = m
    BY <2>1, <2>2 DEF TypeOK, Inv, Actors
  <2> QED BY <2>1, <2>3 DEF Unsent, CallsFor
<1>2. ASSUME NEW t \in Threads, SendCommit(t) PROVE Unsent'
  <2>1. /\ reg[t].m \in Messages
        /\ reg[t].op = "send"
        /\ msg[reg[t].m].status = "absent"
        /\ \A a \in Actors : a # t => reg[a].m # reg[t].m
    BY <1>0, <1>2, Fields DEF SendCommit, Unsent
  <2>2. /\ msg'[reg[t].m].status = "queued"
        /\ \A n \in Messages : n # reg[t].m => msg'[n] = msg[n] /\ sends'[n] = sends[n]
    BY <1>2, <2>1 DEF SendCommit, Queue, Inv, TypeOK
  <2>3. /\ \A a \in Actors : a # t => reg'[a] = reg[a]
        /\ reg'[t] = Idle
        /\ accepted' = accepted
    BY <1>2 DEF SendCommit, Inv, TypeOK, Actors, provider
  <2>4. \A a \in Actors : reg'[a].op = "send" => reg[a].m \in Messages /\ a # t
    BY <1>0, <2>3, Fields
  <2> QED BY <1>0, <2>1, <2>2, <2>3, <2>4, Fields DEF Unsent, CallsFor
<1>3. ASSUME NEW t \in Threads, NEW m \in Messages, RetryRead(t, m) PROVE Unsent'
  <2>1. msg[m].status # "absent" /\ UNCHANGED <<msg, sends, accepted>>
    BY <1>3 DEF RetryRead, Failures, provider
  <2>2. /\ \A a \in Actors : a # t => reg'[a] = reg[a]
        /\ reg'[t].op = "retry"
        /\ reg'[t].m = m
    BY <1>3 DEF RetryRead, Inv, TypeOK, Actors
  <2> QED BY <2>1, <2>2 DEF Unsent, CallsFor
<1>4. ASSUME NEW t \in Threads, RetryCommit(t) PROVE Unsent'
  <2>1. /\ reg[t].m \in Messages
        /\ reg[t].op = "retry"
        /\ msg[reg[t].m].status # "absent"
    BY <1>0, <1>4, Fields DEF RetryCommit, Unsent
  <2>2. \A n \in Messages : n # reg[t].m => msg'[n] = msg[n] /\ sends'[n] = sends[n]
    BY <1>4 DEF RetryCommit, Inv, TypeOK
  <2>3. msg'[reg[t].m].status = "queued"
    BY <1>0, <1>4, <2>1, Fields DEF RetryCommit, Inv, TypeOK, MessageRow
  <2>4. /\ \A a \in Actors : a # t => reg'[a] = reg[a]
        /\ reg'[t] = Idle
        /\ accepted' = accepted
    BY <1>4 DEF RetryCommit, Inv, TypeOK, Actors, provider
  <2>5. \A a \in Actors : reg'[a].op = "send" => reg[a].m \in Messages /\ a # t
    BY <1>0, <2>4, Fields
  <2> QED BY <1>0, <2>1, <2>2, <2>3, <2>4, <2>5, Fields DEF Unsent, CallsFor
<1>5. ASSUME NEW m \in Messages, NEW new, NEW auto, Keyword(m, new, auto) PROVE Unsent'
  <2>1. /\ msg'[m].status = "queued"
        /\ \A n \in Messages : n # m => msg'[n] = msg[n] /\ sends'[n] = sends[n]
        /\ \A a \in Actors : reg[a].m # m
        /\ UNCHANGED <<reg, accepted>>
    BY <1>5 DEF Keyword, Queue, Inv, TypeOK, provider
  <2>2. \A a \in Actors : reg[a].op = "send" => reg[a].m \in Messages
    BY <1>0, Fields
  <2> QED BY <2>1, <2>2 DEF Unsent, CallsFor
<1>6. ASSUME NEW m \in Messages, JobSkip(m) PROVE Unsent'
  <2>1. /\ sends[m] > 0
        /\ \A n \in Messages : n # m => sends'[n] = sends[n]
        /\ UNCHANGED <<msg, reg, accepted>>
    BY <1>6 DEF JobSkip, provider, Inv, TypeOK
  <2> QED BY <2>1 DEF Unsent, CallsFor
<1>7. ASSUME NEW m \in Messages, NEW p \in Pids, JobCall(m, p) PROVE Unsent'
  <2>1. /\ msg[m].status = "queued"
        /\ \A q \in Pids : q # p => accepted'[q] = accepted[q]
        /\ accepted'[p] = m
        /\ UNCHANGED <<msg, sends>>
    BY <1>7 DEF JobCall, Inv, TypeOK
  <2>2. /\ \A a \in Actors : a # Worker => reg'[a] = reg[a]
        /\ reg'[Worker].op = "job"
        /\ reg'[Worker].m = m
    BY <1>7 DEF JobCall, Inv, TypeOK, Actors
  <2> QED BY <2>1, <2>2 DEF Unsent, CallsFor
<1>8. ASSUME NEW m \in Messages, NEW p \in Pids \cup {None}, JobRaises(m, p) PROVE Unsent'
  <2>1. /\ msg[m].status = "queued"
        /\ \A q \in Pids : q # p => accepted'[q] = accepted[q]
        /\ p \in Pids => accepted'[p] = m
        /\ \A n \in Messages : n # m => msg'[n] = msg[n] /\ sends'[n] = sends[n]
        /\ reg' = reg
    BY <1>8 DEF JobRaises, Inv, TypeOK
  <2>2. msg'[m].status = "failed"
    BY <1>0, <1>8, Fields DEF JobRaises, Inv, TypeOK, MessageRow
  <2>3. \A a \in Actors : reg[a].op = "send" => reg[a].m \in Messages
    BY <1>0, Fields
  <2>4. \A n \in Messages : n # m => CallsFor(n)' = CallsFor(n)
    BY <1>8, <2>1 DEF CallsFor, JobRaises
  <2> QED BY <2>1, <2>2, <2>3, <2>4 DEF Unsent
<1>9. ASSUME JobCommit PROVE Unsent'
  <2>1. /\ reg[Worker].m \in Messages
        /\ reg[Worker].op = "job"
        /\ msg[reg[Worker].m].status # "absent"
    BY <1>0, <1>9, Fields DEF JobCommit, Unsent
  <2>2. /\ \A n \in Messages : n # reg[Worker].m => msg'[n] = msg[n] /\ sends'[n] = sends[n]
        /\ accepted' = accepted
    BY <1>9 DEF JobCommit, provider, Inv, TypeOK
  <2>3. msg'[reg[Worker].m].status = msg[reg[Worker].m].status
    BY <1>0, <1>9, <2>1, Fields DEF JobCommit, Inv, TypeOK, MessageRow
  <2>4. /\ \A a \in Actors : a # Worker => reg'[a] = reg[a]
        /\ reg'[Worker] = Idle
    BY <1>9 DEF JobCommit, Inv, TypeOK, Actors
  <2>5. \A a \in Actors : reg'[a].op = "send" => reg[a].m \in Messages /\ a # Worker
    BY <1>0, <2>4, Fields
  <2> QED BY <1>0, <2>1, <2>2, <2>3, <2>4, <2>5, Fields DEF Unsent, CallsFor
<1>10. ASSUME NEW p \in Pids, NEW s \in Status, Report(p, s) PROVE Unsent'
  BY <1>10 DEF Report, Unsent, CallsFor
<1>11. ASSUME NEW t \in Threads, NEW p \in Pids, NEW s \in Status, CallbackRead(t, p, s)
       PROVE  Unsent'
  <2>1. PICK m \in Messages :
          /\ msg[m].pid = p
          /\ reg' = [reg EXCEPT ![t] = [op |-> "callback", m |-> m, pid |-> p, to |-> s]]
    BY <1>11 DEF CallbackRead
  <2>2. msg[m].status # "absent" /\ UNCHANGED <<msg, sends, accepted>>
    BY <1>11, <2>1 DEF CallbackRead, Unsent, provider
  <2>3. /\ \A a \in Actors : a # t => reg'[a] = reg[a]
        /\ reg'[t].op = "callback"
        /\ reg'[t].m = m
    BY <2>1 DEF Inv, TypeOK, Actors
  <2> QED BY <2>2, <2>3 DEF Unsent, CallsFor
<1>12. ASSUME NEW t \in Threads, CallbackCommit(t) PROVE Unsent'
  <2>1. /\ reg[t].m \in Messages
        /\ reg[t].op = "callback"
        /\ msg[reg[t].m].status # "absent"
    BY <1>0, <1>12, Fields DEF CallbackCommit, Unsent
  <2>2. /\ \A n \in Messages : n # reg[t].m => msg'[n] = msg[n]
        /\ UNCHANGED <<sends, accepted>>
    BY <1>12 DEF CallbackCommit, Inv, TypeOK, provider
  <2>3. msg'[reg[t].m].status # "absent"
    BY <1>0, <1>12, <2>1, Fields DEF CallbackCommit, Inv, InFlight, TypeOK, MessageRow
  <2>4. /\ \A a \in Actors : a # t => reg'[a] = reg[a]
        /\ reg'[t] = Idle
    BY <1>12 DEF CallbackCommit, Inv, TypeOK, Actors
  <2>5. \A a \in Actors : reg'[a].op = "send" => reg[a].m \in Messages /\ a # t
    BY <1>0, <2>4, Fields
  <2> QED BY <1>0, <2>1, <2>2, <2>3, <2>4, <2>5, Fields DEF Unsent, CallsFor
<1>13. ASSUME Crash PROVE Unsent'
  <2>1. /\ \A a \in Actors : reg'[a] = Idle
        /\ UNCHANGED <<msg, sends, accepted>>
    BY <1>13 DEF Crash, provider
  <2> QED BY <1>0, <2>1, Fields DEF Unsent, CallsFor
<1>14. CASE UNCHANGED vars
  BY <1>14 DEF vars, Unsent, CallsFor
<1>15. ASSUME NEW m \in Messages, Stop(m) \/ Start(m) \/ Help(m) PROVE Unsent'
  BY <1>5, <1>15 DEF Stop, Start, Help
<1> QED
  BY <1>1, <1>2, <1>3, <1>4, <1>6, <1>7, <1>8, <1>9, <1>10, <1>11, <1>12, <1>13, <1>14, <1>15
  DEF Next, WorkerStep, Request

LEMMA BudgetNext == Inv /\ Unsent /\ Budget /\ [Next]_vars => Budget'
<1> SUFFICES ASSUME Inv, Unsent, Budget, [Next]_vars, NEW n \in Messages PROVE Answered(n)'
  BY DEF Budget
<1> USE DeliveryAssumption
<1>0. TypeOK
  BY DEF Inv
<1>1. /\ IsFiniteSet(CallsFor(n)) /\ Cardinality(CallsFor(n)) \in Nat
      /\ IsFiniteSet(Retrying(n)) /\ Cardinality(Retrying(n)) \in Nat
      /\ sends[n] \in Nat /\ sends'[n] \in Nat
      /\ retries \in Nat /\ crashes \in Nat
      /\ retries' \in Nat /\ crashes' \in Nat
      /\ InHand(n) \in 0 .. 1 /\ InHand(n)' \in 0 .. 1
      /\ Cardinality(CallsFor(n)) + sends[n] + Cardinality(Retrying(n))
           <= 1 + retries + crashes + InHand(n)
  <2>1. TypeOK'
    BY InvNext DEF Inv
  <2> QED BY <1>0, <2>1, FS_CardinalityType DEF TypeOK, Budget, Answered, InHand
<1>2. ASSUME CallsFor(n)' = CallsFor(n), Retrying(n)' = Retrying(n),
             sends'[n] + InHand(n) <= sends[n] + InHand(n)',
             UNCHANGED <<retries, crashes>>
      PROVE  Answered(n)'
  <2>1. /\ Cardinality(CallsFor(n))' = Cardinality(CallsFor(n))
        /\ Cardinality(Retrying(n))' = Cardinality(Retrying(n))
        /\ IsFiniteSet(CallsFor(n))' /\ IsFiniteSet(Retrying(n))'
    BY <1>1, <1>2
  <2> QED BY <1>1, <1>2, <2>1 DEF Answered
\* The first sending of a message nobody has sent.
<1>3. ASSUME CallsFor(n)' = {}, Retrying(n)' = {}, sends'[n] = 1
      PROVE  Answered(n)'
  <2>1. /\ Cardinality(CallsFor(n))' = 0 /\ IsFiniteSet(CallsFor(n))'
        /\ Cardinality(Retrying(n))' = 0 /\ IsFiniteSet(Retrying(n))'
    BY <1>3, FS_EmptySet
  <2> QED BY <1>1, <1>3, <2>1 DEF Answered
<1>4. ASSUME accepted' = accepted PROVE CallsFor(n)' = CallsFor(n)
  BY <1>4 DEF CallsFor
<1>5. ASSUME NEW t \in Threads, NEW m \in Messages, SendRead(t, m) PROVE Answered(n)'
  <2>1. /\ [Idle EXCEPT !.op = "send", !.m = m].op = "send"
        /\ reg[t].op = "idle"
        /\ reg' = [reg EXCEPT ![t] = [Idle EXCEPT !.op = "send", !.m = m]]
        /\ UNCHANGED <<accepted, sends, retries, crashes>>
    BY <1>5 DEF SendRead, Idle, provider
  <2>2. Retrying(n)' = Retrying(n) /\ InHand(n)' = InHand(n)
    BY <1>0, <2>1, Fields DEF Retrying, InHand, TypeOK
  <2> QED BY <1>1, <1>2, <1>4, <2>1, <2>2
<1>6. ASSUME NEW t \in Threads, SendCommit(t) PROVE Answered(n)'
  <2>1. /\ reg[t].m \in Messages
        /\ reg[t].op = "send"
        /\ msg[reg[t].m].status = "absent"
        /\ \A a \in Actors : a # t => reg[a].m # reg[t].m
    BY <1>0, <1>6, Fields DEF SendCommit, Unsent
  <2>2. /\ reg' = [reg EXCEPT ![t] = Idle]
        /\ sends' = [sends EXCEPT ![reg[t].m] = @ + 1]
        /\ UNCHANGED <<accepted, retries, crashes>>
    BY <1>6 DEF SendCommit, provider
  <2>3. Retrying(n)' = Retrying(n) /\ InHand(n)' = InHand(n)
    BY <1>0, <2>1, <2>2, Fields DEF Retrying, InHand, TypeOK
  <2>4. CASE n = reg[t].m
    <3>1. CallsFor(n) = {} /\ sends[n] = 0
      BY <2>1, <2>4 DEF Unsent
    <3>2. Retrying(n) = {}
      BY <1>0, <2>1, <2>4, Fields DEF Retrying
    <3>3. sends'[n] = 1
      BY <1>0, <2>2, <2>4, <3>1 DEF TypeOK
    <3> QED BY <1>3, <1>4, <2>2, <2>3, <3>1, <3>2, <3>3
  <2>5. CASE n # reg[t].m
    <3>1. sends'[n] = sends[n]
      BY <1>0, <2>2, <2>5 DEF TypeOK
    <3> QED BY <1>1, <1>2, <1>4, <2>2, <2>3, <3>1
  <2> QED BY <2>4, <2>5
\* A retry is paid for when it is asked for...
<1>7. ASSUME NEW t \in Threads, NEW m \in Messages, RetryRead(t, m) PROVE Answered(n)'
  <2>1. /\ reg[t].op = "idle"
        /\ reg' = [reg EXCEPT ![t] = [op |-> "retry", m |-> m, pid |-> msg[m].pid, to |-> "queued"]]
        /\ retries' = retries + 1
        /\ UNCHANGED <<accepted, sends, crashes>>
    BY <1>7 DEF RetryRead, provider
  <2>2. InHand(n)' = InHand(n)
    BY <1>0, <2>1, Fields DEF InHand, TypeOK
  <2>3. Retrying(n)' \subseteq Retrying(n) \cup {t}
    BY <1>0, <2>1, Fields DEF Retrying, TypeOK
  <2>4. Retrying(n) \subseteq Retrying(n)'
    BY <1>0, <2>1, Fields DEF Retrying, TypeOK
  <2>5. /\ IsFiniteSet(Retrying(n)')
        /\ Cardinality(Retrying(n)') <= Cardinality(Retrying(n)) + 1
        /\ Cardinality(Retrying(n)') \in Nat
    <3>1. Retrying(n)' = Retrying(n) \/ Retrying(n)' = Retrying(n) \cup {t}
      BY <2>3, <2>4
    <3>2. /\ IsFiniteSet(Retrying(n) \cup {t})
          /\ Cardinality(Retrying(n) \cup {t})
               \in {Cardinality(Retrying(n)), Cardinality(Retrying(n)) + 1}
      BY <1>1, FS_AddElement
    <3>3. CASE Retrying(n)' = Retrying(n)
      BY <1>1, <3>3
    <3>4. CASE Retrying(n)' = Retrying(n) \cup {t}
      BY <1>1, <3>2, <3>4
    <3> QED BY <3>1, <3>3, <3>4
  <2>6. CallsFor(n)' = CallsFor(n)
    BY <1>4, <2>1
  <2> QED BY <1>1, <2>1, <2>2, <2>5, <2>6 DEF Answered
\* ... and becomes a job when it commits.
<1>8. ASSUME NEW t \in Threads, RetryCommit(t) PROVE Answered(n)'
  <2>1. /\ reg[t].op = "retry"
        /\ reg[t].m \in Messages
        /\ reg' = [reg EXCEPT ![t] = Idle]
        /\ sends' = [sends EXCEPT ![reg[t].m] = @ + 1]
        /\ UNCHANGED <<accepted, retries, crashes>>
    BY <1>0, <1>8, Fields DEF RetryCommit, provider
  <2>2. InHand(n)' = InHand(n)
    BY <1>0, <2>1, Fields DEF InHand, TypeOK
  <2>3. CallsFor(n)' = CallsFor(n)
    BY <1>4, <2>1
  <2>4. CASE n = reg[t].m
    <3>1. Retrying(n)' = Retrying(n) \ {t} /\ t \in Retrying(n)
      BY <1>0, <2>1, <2>4, Fields DEF Retrying, TypeOK
    <3>2. /\ IsFiniteSet(Retrying(n) \ {t})
          /\ Cardinality(Retrying(n) \ {t}) = Cardinality(Retrying(n)) - 1
      BY <1>1, <3>1, FS_RemoveElement
    <3>3. sends'[n] = sends[n] + 1
      BY <1>0, <2>1, <2>4 DEF TypeOK
    <3> QED BY <1>1, <2>1, <2>2, <2>3, <3>1, <3>2, <3>3 DEF Answered
  <2>5. CASE n # reg[t].m
    <3>1. Retrying(n)' = Retrying(n) /\ sends'[n] = sends[n]
      BY <1>0, <2>1, <2>5, Fields DEF Retrying, TypeOK
    <3> QED BY <1>1, <1>2, <2>1, <2>2, <2>3, <3>1
  <2> QED BY <2>4, <2>5
<1>9. ASSUME NEW m \in Messages, NEW new, NEW auto, Keyword(m, new, auto) PROVE Answered(n)'
  <2>1. /\ msg[m].status = "absent"
        /\ \A a \in Actors : reg[a].m # m
        /\ sends' = [sends EXCEPT ![m] = @ + 1]
        /\ UNCHANGED <<reg, accepted, retries, crashes>>
    BY <1>9 DEF Keyword, provider
  <2>2. Retrying(n)' = Retrying(n) /\ InHand(n)' = InHand(n)
    BY <2>1 DEF Retrying, InHand
  <2>3. CASE n = m
    <3>1. CallsFor(n) = {} /\ sends[n] = 0
      BY <2>1, <2>3 DEF Unsent
    <3>2. Retrying(n) = {}
      BY <1>0, <2>1, <2>3, Fields DEF Retrying
    <3>3. sends'[n] = 1
      BY <1>0, <2>1, <2>3, <3>1 DEF TypeOK
    <3> QED BY <1>3, <1>4, <2>1, <2>2, <3>1, <3>2, <3>3
  <2>4. CASE n # m
    <3>1. sends'[n] = sends[n]
      BY <1>0, <2>1, <2>4 DEF TypeOK
    <3> QED BY <1>1, <1>2, <1>4, <2>1, <2>2, <3>1
  <2> QED BY <2>3, <2>4
<1>10. ASSUME NEW m \in Messages, JobSkip(m) PROVE Answered(n)'
  <2>1. /\ sends' = [sends EXCEPT ![m] = @ - 1]
        /\ UNCHANGED <<reg, accepted, retries, crashes>>
    BY <1>10 DEF JobSkip, provider
  <2>2. Retrying(n)' = Retrying(n) /\ InHand(n)' = InHand(n)
    BY <2>1 DEF Retrying, InHand
  <2>3. sends'[n] <= sends[n]
    BY <1>0, <1>1, <2>1 DEF TypeOK
  <2> QED BY <1>1, <1>2, <1>4, <2>1, <2>2, <2>3
\* One call more, in hand until its job commits.
<1>11. ASSUME NEW m \in Messages, NEW p \in Pids, JobCall(m, p) PROVE Answered(n)'
  <2>1. /\ reg[Worker].op = "idle"
        /\ accepted[p] = None
        /\ accepted' = [accepted EXCEPT ![p] = m]
        /\ reg' = [reg EXCEPT ![Worker] = [op |-> "job", m |-> m, pid |-> p, to |-> "queued"]]
        /\ UNCHANGED <<sends, retries, crashes>>
    BY <1>11 DEF JobCall
  <2>2. Retrying(n)' = Retrying(n) /\ InHand(n) = 0
    BY <1>0, <2>1, Fields DEF Retrying, InHand, TypeOK
  <2>3. CASE n = m
    <3>1. CallsFor(n)' = CallsFor(n) \cup {p} /\ p \notin CallsFor(n)
      BY <1>0, <2>1, <2>3 DEF CallsFor, TypeOK
    <3>2. /\ IsFiniteSet(CallsFor(n) \cup {p})
          /\ Cardinality(CallsFor(n) \cup {p}) = Cardinality(CallsFor(n)) + 1
      BY <1>1, <3>1, FS_AddElement
    <3>3. InHand(n)' = 1
      BY <1>0, <2>1, <2>3, Fields DEF InHand, TypeOK
    <3> QED BY <1>1, <2>1, <2>2, <3>1, <3>2, <3>3 DEF Answered
  <2>4. CASE n # m
    <3>1. CallsFor(n)' = CallsFor(n)
      BY <1>0, <2>1, <2>4 DEF CallsFor, TypeOK
    <3>2. InHand(n)' = 0
      BY <1>0, <2>1, <2>4, Fields DEF InHand, TypeOK
    <3> QED BY <1>1, <1>2, <2>1, <2>2, <3>1, <3>2
  <2> QED BY <2>3, <2>4
\* At most one call more, for one job less.
<1>12. ASSUME NEW m \in Messages, NEW p \in Pids \cup {None}, JobRaises(m, p)
       PROVE  Answered(n)'
  <2>1. /\ sends[m] > 0
        /\ p # None => accepted[p] = None
        /\ accepted' = [q \in Pids |-> IF q = p THEN m ELSE accepted[q]]
        /\ sends' = [sends EXCEPT ![m] = @ - 1]
        /\ UNCHANGED <<reg, retries, crashes>>
    BY <1>12 DEF JobRaises
  <2>2. Retrying(n)' = Retrying(n) /\ InHand(n)' = InHand(n)
    BY <2>1 DEF Retrying, InHand
  <2>3. CASE n = m
    <3>1. CallsFor(n)' = CallsFor(n) \/ CallsFor(n)' = CallsFor(n) \cup {p}
      BY <1>0, <2>1, <2>3 DEF CallsFor, TypeOK
    <3>2. /\ IsFiniteSet(CallsFor(n) \cup {p})
          /\ Cardinality(CallsFor(n) \cup {p})
               \in {Cardinality(CallsFor(n)), Cardinality(CallsFor(n)) + 1}
      BY <1>1, FS_AddElement
    <3>3. /\ IsFiniteSet(CallsFor(n)')
          /\ Cardinality(CallsFor(n)') \in Nat
          /\ Cardinality(CallsFor(n)') <= Cardinality(CallsFor(n)) + 1
      BY <1>1, <3>1, <3>2
    <3>4. sends'[n] = sends[n] - 1
      BY <1>0, <2>1, <2>3 DEF TypeOK
    <3> QED BY <1>1, <2>1, <2>2, <3>3, <3>4 DEF Answered
  <2>4. CASE n # m
    <3>1. CallsFor(n)' = CallsFor(n)
      BY <1>0, <2>1, <2>4 DEF CallsFor, TypeOK
    <3>2. sends'[n] = sends[n]
      BY <1>0, <2>1, <2>4 DEF TypeOK
    <3> QED BY <1>1, <1>2, <2>1, <2>2, <3>1, <3>2
  <2> QED BY <2>3, <2>4
<1>13. ASSUME JobCommit PROVE Answered(n)'
  <2>1. /\ reg[Worker].op = "job"
        /\ reg' = [reg EXCEPT ![Worker] = Idle]
        /\ sends' = [sends EXCEPT ![reg[Worker].m] = @ - 1]
        /\ UNCHANGED <<accepted, retries, crashes>>
    BY <1>13 DEF JobCommit, provider
  <2>2. Retrying(n)' = Retrying(n) /\ InHand(n)' = 0
    BY <1>0, <2>1, Fields DEF Retrying, InHand, TypeOK
  <2>3. sends'[n] + InHand(n) = sends[n]
    BY <1>0, <1>1, <2>1 DEF InHand, TypeOK
  <2> QED BY <1>1, <1>2, <1>4, <2>1, <2>2, <2>3
<1>14. ASSUME NEW p \in Pids, NEW s \in Status, Report(p, s) PROVE Answered(n)'
  BY <1>1, <1>2, <1>14 DEF Report, CallsFor, Retrying, InHand
<1>15. ASSUME NEW t \in Threads, NEW p \in Pids, NEW s \in Status, CallbackRead(t, p, s)
       PROVE  Answered(n)'
  <2>1. /\ reg[t].op = "idle"
        /\ UNCHANGED <<accepted, sends, retries, crashes>>
    BY <1>15 DEF CallbackRead, provider
  <2>2. PICK m \in Messages :
          reg' = [reg EXCEPT ![t] = [op |-> "callback", m |-> m, pid |-> p, to |-> s]]
    BY <1>15 DEF CallbackRead
  <2>3. Retrying(n)' = Retrying(n) /\ InHand(n)' = InHand(n)
    BY <1>0, <2>1, <2>2, Fields DEF Retrying, InHand, TypeOK
  <2> QED BY <1>1, <1>2, <1>4, <2>1, <2>3
<1>16. ASSUME NEW t \in Threads, CallbackCommit(t) PROVE Answered(n)'
  <2>1. /\ reg[t].op = "callback"
        /\ reg' = [reg EXCEPT ![t] = Idle]
        /\ UNCHANGED <<accepted, sends, retries, crashes>>
    BY <1>16 DEF CallbackCommit, provider
  <2>2. Retrying(n)' = Retrying(n) /\ InHand(n)' = InHand(n)
    BY <1>0, <2>1, Fields DEF Retrying, InHand, TypeOK
  <2> QED BY <1>1, <1>2, <1>4, <2>1, <2>2
\* A crash answers for the call it leaves uncommitted.
<1>17. ASSUME Crash PROVE Answered(n)'
  <2>1. /\ crashes' = crashes + 1
        /\ reg' = [a \in Actors |-> Idle]
        /\ UNCHANGED <<accepted, sends, retries>>
    BY <1>17 DEF Crash, provider
  <2>2. Retrying(n)' = {} /\ InHand(n)' = 0
    BY <1>0, <2>1, Fields DEF Retrying, InHand
  <2>3. Cardinality(Retrying(n))' = 0 /\ IsFiniteSet(Retrying(n))'
    BY <2>2, FS_EmptySet
  <2>4. CallsFor(n)' = CallsFor(n)
    BY <1>4, <2>1
  <2> QED BY <1>1, <2>1, <2>2, <2>3, <2>4 DEF Answered
<1>18. CASE UNCHANGED vars
  BY <1>1, <1>2, <1>18 DEF vars, CallsFor, Retrying, InHand
<1>19. ASSUME NEW m \in Messages, Stop(m) \/ Start(m) \/ Help(m) PROVE Answered(n)'
  BY <1>9, <1>19 DEF Stop, Start, Help
<1> QED
  BY <1>5, <1>6, <1>7, <1>8, <1>10, <1>11, <1>12, <1>13, <1>14, <1>15, <1>16, <1>17, <1>18,
     <1>19
  DEF Next, WorkerStep, Request

LEMMA BudgetAlways == Spec => [](Inv /\ Unsent /\ Budget)
<1>1. Init => Unsent /\ Budget
  <2> SUFFICES ASSUME Init PROVE Unsent /\ Budget
    OBVIOUS
  <2>1. /\ \A m \in Messages : /\ msg[m].status = "absent" /\ msg[m].pid = None
                               /\ sends[m] = 0
                               /\ m # None
        /\ \A a \in Actors : reg[a] = Idle
        /\ retries = 0 /\ crashes = 0
        /\ Idle.op = "idle" /\ Idle.m = None
    BY DeliveryAssumption DEF Init, Idle
  <2>2. \A m \in Messages : CallsFor(m) = {} /\ Retrying(m) = {} /\ InHand(m) = 0
    BY <2>1 DEF Init, CallsFor, Retrying, InHand, Actors
  <2>3. Unsent
    BY <2>1, <2>2 DEF Unsent
  <2>4. IsFiniteSet({}) /\ Cardinality({}) = 0
    BY FS_EmptySet
  <2>5. ASSUME NEW m \in Messages PROVE Answered(m)
    <3>1. CallsFor(m) = {} /\ Retrying(m) = {} /\ InHand(m) = 0 /\ sends[m] = 0
          /\ retries = 0 /\ crashes = 0
      BY <2>1, <2>2
    <3> QED BY <2>4, <3>1 DEF Answered
  <2>6. Budget
    BY <2>5 DEF Budget
  <2> QED BY <2>3, <2>6
<1>2. Inv /\ Unsent /\ [Next]_vars => Unsent'
  BY UnsentNext
<1>3. Inv /\ Unsent /\ Budget /\ [Next]_vars => Budget'
  BY BudgetNext
<1> QED BY <1>1, <1>2, <1>3, InvAlways, PTL DEF Spec

\* However requests, keywords, callbacks, jobs and crashes overlap, the provider never
\* accepts a message more often than once, once more for each retry that was asked for,
\* and once more for each crash between its answer and the commit (outbound.py:16-31,
\* messages.py:56-70).
THEOREM TextsCounted == Spec => []TextedOnce
<1>1. Inv /\ Budget => TextedOnce
  <2> SUFFICES ASSUME Inv, Budget, NEW m \in Messages
               PROVE  Cardinality(CallsFor(m)) <= 1 + retries + crashes
    BY DEF TextedOnce, CallsFor
  <2>1. /\ Cardinality(CallsFor(m)) \in Nat
        /\ Cardinality(Retrying(m)) \in Nat
        /\ retries \in Nat /\ crashes \in Nat /\ sends[m] \in Nat
    BY DeliveryAssumption, FS_CardinalityType DEF Inv, TypeOK, Budget, Answered
  <2>2. InHand(m) \in Nat /\ InHand(m) <= sends[m]
    BY <2>1 DEF InHand, Inv, InFlight
  <2>3. Cardinality(CallsFor(m)) + sends[m] + Cardinality(Retrying(m))
          <= 1 + retries + crashes + InHand(m)
    BY DEF Budget, Answered
  <2> QED BY <2>1, <2>2, <2>3
<1> QED BY <1>1, BudgetAlways, PTL

(***************************************************************************)
(* Callbacks one at a time                                                 *)
(***************************************************************************)

\* No other thread is about the message of a callback under way, that message still has a
\* SID, and the callback would still not be ignored; a retry's message has failed or waits
\* again.
CallbackAlone ==
    \A t \in Threads :
        /\ reg[t].op = "callback" =>
             /\ \A u \in Threads : u # t => reg[u].m # reg[t].m
             /\ msg[reg[t].m].pid # None
             /\ ~Ignored(msg[reg[t].m].status, reg[t].to)
        /\ reg[t].op = "retry" => msg[reg[t].m].status \in Failures \cup {"queued"}

LEMMA AloneNext ==
    ASSUME "callback" \notin Overlapping, Inv, Unsent, CallbackAlone, [Next]_vars
    PROVE  CallbackAlone'
<1> USE DeliveryAssumption
<1>0. TypeOK
  BY DEF Inv
<1>1. \A t \in Threads : reg[t].op \in {"callback", "retry"} =>
        /\ reg[t].m \in Messages
        /\ msg[reg[t].m].status # "absent"
  BY <1>0, Fields DEF Unsent
<1>4. ASSUME NEW t \in Threads, NEW m \in Messages, SendRead(t, m) PROVE CallbackAlone'
  <2>1. /\ reg' = [reg EXCEPT ![t] = [Idle EXCEPT !.op = "send", !.m = m]]
        /\ [Idle EXCEPT !.op = "send", !.m = m].op = "send"
        /\ [Idle EXCEPT !.op = "send", !.m = m].m = m
        /\ \A u \in Threads : reg[u].m # m
        /\ msg' = msg
    BY <1>0, <1>4, Fields DEF SendRead, Idle
  <2>2. /\ \A u \in Threads : u # t => reg'[u] = reg[u]
        /\ reg'[t].op = "send" /\ reg'[t].m = m
    BY <1>0, <2>1, Fields DEF TypeOK
  <2> QED BY <2>1, <2>2 DEF CallbackAlone
<1>5. ASSUME NEW t \in Threads, SendCommit(t) PROVE CallbackAlone'
  <2>1. /\ reg[t].op = "send"
        /\ msg[reg[t].m].status = "absent"
    BY <1>0, <1>5, Fields DEF SendCommit, Unsent
  <2>2. /\ \A u \in Threads : u # t => reg'[u] = reg[u]
        /\ reg'[t].op = "idle" /\ reg'[t].m = None
        /\ \A n \in Messages : n # reg[t].m => msg'[n] = msg[n]
    BY <1>0, <1>5, Fields DEF SendCommit, TypeOK
  <2>3. \A u \in Threads : reg[u].op \in {"callback", "retry"} => reg[u].m # reg[t].m
    BY <1>1, <2>1
  <2> QED BY <1>1, <2>2, <2>3 DEF CallbackAlone
<1>6. ASSUME NEW t \in Threads, NEW m \in Messages, RetryRead(t, m) PROVE CallbackAlone'
  <2>1. \A u \in Threads : reg[u].op = "callback" => reg[u].m # m
    BY <1>6 DEF RetryRead, MayBegin
  <2>2. /\ \A u \in Threads : u # t => reg'[u] = reg[u]
        /\ reg'[t].op = "retry" /\ reg'[t].m = m
        /\ msg[m].status \in Failures
        /\ msg' = msg
    BY <1>0, <1>6, Fields DEF RetryRead, TypeOK
  <2> QED BY <2>1, <2>2 DEF CallbackAlone
<1>7. ASSUME NEW t \in Threads, RetryCommit(t) PROVE CallbackAlone'
  <2>1. reg[t].op = "retry" /\ reg[t].m \in Messages
    BY <1>1, <1>7 DEF RetryCommit
  <2>2. \A u \in Threads : reg[u].op = "callback" => reg[u].m # reg[t].m
    BY <2>1 DEF CallbackAlone
  <2>3. /\ \A u \in Threads : u # t => reg'[u] = reg[u]
        /\ reg'[t].op = "idle" /\ reg'[t].m = None
        /\ \A n \in Messages : n # reg[t].m => msg'[n] = msg[n]
    BY <1>0, <1>7, Fields DEF RetryCommit, TypeOK
  <2>4. msg'[reg[t].m].status = "queued"
    BY <1>0, <1>7, <2>1, Fields DEF RetryCommit, TypeOK, MessageRow
  <2> QED BY <1>1, <2>2, <2>3, <2>4 DEF CallbackAlone
<1>8. ASSUME NEW m \in Messages, NEW new, NEW auto, Keyword(m, new, auto)
      PROVE  CallbackAlone'
  <2>1. /\ reg' = reg
        /\ msg[m].status = "absent"
        /\ \A n \in Messages : n # m => msg'[n] = msg[n]
    BY <1>8 DEF Keyword, TypeOK
  <2> QED BY <1>1, <2>1 DEF CallbackAlone, Ignored
<1>9. ASSUME NEW m \in Messages, NEW p \in Pids, JobCall(m, p) PROVE CallbackAlone'
  <2>1. /\ msg' = msg
        /\ \A u \in Threads : reg'[u] = reg[u]
    BY <1>0, <1>9, Fields DEF JobCall, TypeOK
  <2> QED BY <2>1 DEF CallbackAlone, Ignored
<1>10. ASSUME NEW m \in Messages, NEW p \in Pids \cup {None}, JobRaises(m, p)
       PROVE  CallbackAlone'
  <2>1. /\ reg' = reg
        /\ \A n \in Messages : n # m => msg'[n] = msg[n]
    BY <1>10 DEF JobRaises, TypeOK
  <2>2. /\ msg'[m].status = "failed"
        /\ msg'[m].pid = msg[m].pid
    BY <1>0, <1>10, Fields DEF JobRaises, TypeOK, MessageRow
  <2> QED BY <1>1, <2>1, <2>2, StatusNames DEF CallbackAlone, Ignored, Failures
<1>11. ASSUME JobCommit PROVE CallbackAlone'
  <2>1. /\ reg[Worker].m \in Messages
        /\ reg[Worker].pid # None
    BY <1>0, <1>11, Fields DEF JobCommit, Inv, InFlight
  <2>2. /\ \A n \in Messages : n # reg[Worker].m => msg'[n] = msg[n]
        /\ \A u \in Threads : reg'[u] = reg[u]
    BY <1>0, <1>11, Fields DEF JobCommit, TypeOK
  <2>3. /\ msg'[reg[Worker].m].status = msg[reg[Worker].m].status
        /\ msg'[reg[Worker].m].pid # None
    BY <1>0, <1>11, <2>1, Fields DEF JobCommit, TypeOK, MessageRow
  <2> QED BY <1>1, <2>2, <2>3 DEF CallbackAlone, Ignored
<1>12. ASSUME NEW t \in Threads, NEW p \in Pids, NEW s \in Status, CallbackRead(t, p, s)
       PROVE  CallbackAlone'
  <2>1. PICK m \in Messages :
          /\ MayBegin("callback", m)
          /\ msg[m].pid = p
          /\ ~Ignored(msg[m].status, s)
          /\ reg' = [reg EXCEPT ![t] = [op |-> "callback", m |-> m, pid |-> p, to |-> s]]
    BY <1>12 DEF CallbackRead
  <2>2. \A u \in Threads : reg[u].m # m
    BY <2>1 DEF MayBegin
  <2>3. /\ \A u \in Threads : u # t => reg'[u] = reg[u]
        /\ reg'[t].op = "callback" /\ reg'[t].m = m /\ reg'[t].to = s
        /\ msg' = msg
        /\ p # None
    BY <1>0, <1>12, <2>1, Fields DEF CallbackRead, TypeOK
  <2> QED BY <2>1, <2>2, <2>3 DEF CallbackAlone, Ignored
<1>13. ASSUME NEW t \in Threads, CallbackCommit(t) PROVE CallbackAlone'
  <2>1. reg[t].op = "callback" /\ reg[t].m \in Messages
    BY <1>1, <1>13 DEF CallbackCommit
  <2>2. /\ \A u \in Threads : u # t => reg'[u] = reg[u] /\ reg[u].m # reg[t].m
        /\ reg'[t].op = "idle" /\ reg'[t].m = None
        /\ \A n \in Messages : n # reg[t].m => msg'[n] = msg[n]
    BY <1>0, <1>13, <2>1, Fields DEF CallbackCommit, CallbackAlone, TypeOK
  <2> QED BY <1>1, <2>2 DEF CallbackAlone
<1>14. ASSUME Crash PROVE CallbackAlone'
  <2>1. \A u \in Threads : reg'[u].op = "idle"
    BY <1>0, <1>14, Fields DEF Crash
  <2> QED BY <2>1 DEF CallbackAlone
<1>15. ASSUME UNCHANGED <<msg, reg>> PROVE CallbackAlone'
  BY <1>15 DEF CallbackAlone, Ignored
<1>16. ASSUME NEW m \in Messages, Stop(m) \/ Start(m) \/ Help(m) PROVE CallbackAlone'
  BY <1>8, <1>16 DEF Stop, Start, Help
<1> QED
  BY <1>4, <1>5, <1>6, <1>7, <1>9, <1>10, <1>11, <1>12, <1>13, <1>14, <1>15, <1>16
  DEF Next, WorkerStep, Request, JobSkip, Report, vars

\* A status moves forward, fails, or starts again from a failure; and a message that
\* waits to be sent is moved by a step that takes one of its jobs.
StatusStep(m) ==
    /\ msg[m].status \in Forward /\ msg'[m].status \in Forward
         => Rank[msg[m].status] <= Rank[msg'[m].status]
    /\ msg[m].status = "queued" /\ msg[m].pid = None /\ msg'[m].status # "queued"
         => sends'[m] < sends[m]

LEMMA StatusMoves ==
    ASSUME Inv, Unsent, CallbackAlone, [Next]_vars, NEW n \in Messages
    PROVE  StatusStep(n)
<1> USE DeliveryAssumption
<1>0. TypeOK
  BY DEF Inv
<1>1. /\ Forward = {"queued", "sent", "delivered"}
      /\ Rank["queued"] = 1 /\ Rank["sent"] = 2 /\ Rank["delivered"] = 3
      /\ "absent" \notin Forward /\ "failed" \notin Forward
      /\ Failures \cap Forward = {}
  BY StatusNames DEF Rank, Failures
<1>2. ASSUME msg'[n].status = msg[n].status PROVE StatusStep(n)
  BY <1>1, <1>2 DEF StatusStep
<1>3. ASSUME msg[n].status = "absent" PROVE StatusStep(n)
  BY <1>1, <1>3 DEF StatusStep
<1>4. ASSUME NEW t \in Threads, SendCommit(t) PROVE StatusStep(n)
  <2>1. msg[reg[t].m].status = "absent"
    BY <1>0, <1>4, Fields DEF SendCommit, Unsent
  <2>2. n # reg[t].m => msg'[n] = msg[n]
    BY <1>4 DEF SendCommit, TypeOK
  <2> QED BY <1>2, <1>3, <2>1, <2>2
<1>5. ASSUME NEW t \in Threads, RetryCommit(t) PROVE StatusStep(n)
  <2>1. CASE n = reg[t].m
    <3>1. msg'[n].status = "queued"
      BY <1>0, <1>5, <2>1, Fields DEF RetryCommit, TypeOK, MessageRow
    <3>2. msg[n].status \in Failures \cup {"queued"}
      BY <1>5, <2>1 DEF RetryCommit, CallbackAlone
    <3> QED BY <1>1, <3>1, <3>2 DEF StatusStep
  <2>2. CASE n # reg[t].m
    BY <1>0, <1>2, <1>5, <2>2 DEF RetryCommit, TypeOK
  <2> QED BY <2>1, <2>2
<1>6. ASSUME NEW m \in Messages, NEW new, NEW auto, Keyword(m, new, auto) PROVE StatusStep(n)
  <2>1. /\ msg[m].status = "absent"
        /\ n # m => msg'[n] = msg[n]
    BY <1>6 DEF Keyword, TypeOK
  <2> QED BY <1>2, <1>3, <2>1
<1>7. ASSUME NEW m \in Messages, NEW p \in Pids \cup {None}, JobRaises(m, p)
      PROVE  StatusStep(n)
  <2>1. CASE n = m
    <3>1. msg'[n].status = "failed"
      BY <1>0, <1>7, <2>1, Fields DEF JobRaises, TypeOK, MessageRow
    <3>2. sends'[n] < sends[n]
      <4>1. sends[n] \in Nat
        BY <1>0, Fields
      <4>2. sends'[n] = sends[n] - 1
        BY <1>0, <1>7, <2>1 DEF JobRaises, TypeOK
      <4> QED BY <4>1, <4>2
    <3> QED BY <1>1, <3>1, <3>2 DEF StatusStep
  <2>2. CASE n # m
    BY <1>2, <1>7, <2>2 DEF JobRaises, TypeOK
  <2> QED BY <2>1, <2>2
<1>8. ASSUME JobCommit PROVE StatusStep(n)
  <2>1. msg'[n].status = msg[n].status
    BY <1>0, <1>8, Fields DEF JobCommit, TypeOK, MessageRow
  <2> QED BY <1>2, <2>1
<1>9. ASSUME NEW t \in Threads, CallbackCommit(t) PROVE StatusStep(n)
  <2>1. CASE n = reg[t].m
    <3>1. msg'[n].status = reg[t].to
      BY <1>0, <1>9, <2>1, Fields DEF CallbackCommit, TypeOK, MessageRow
    <3>2. msg[n].pid # None /\ ~Ignored(msg[n].status, reg[t].to)
      BY <1>9, <2>1 DEF CallbackCommit, CallbackAlone
    <3> QED BY <1>1, <3>1, <3>2 DEF StatusStep, Ignored
  <2>2. CASE n # reg[t].m
    BY <1>2, <1>9, <2>2 DEF CallbackCommit, TypeOK
  <2> QED BY <2>1, <2>2
<1>10. ASSUME UNCHANGED msg PROVE StatusStep(n)
  BY <1>2, <1>10
<1>11. ASSUME NEW m \in Messages, Stop(m) \/ Start(m) \/ Help(m) PROVE StatusStep(n)
  BY <1>6, <1>11 DEF Stop, Start, Help
<1> QED
  BY <1>4, <1>5, <1>7, <1>8, <1>9, <1>10, <1>11
  DEF Next, WorkerStep, Request, SendRead, RetryRead, JobSkip, JobCall, Report,
      CallbackRead, Crash, vars

LEMMA AloneAlways ==
    ASSUME "callback" \notin Overlapping
    PROVE  Spec => [](Inv /\ Unsent /\ CallbackAlone)
<1>1. Init => CallbackAlone
  BY DEF Init, CallbackAlone, Idle, Actors
<1>2. Inv /\ Unsent /\ CallbackAlone /\ [Next]_vars => CallbackAlone'
  BY AloneNext
<1>3. Spec => [](Inv /\ Unsent)
  BY BudgetAlways, PTL
<1> QED BY <1>1, <1>2, <1>3, PTL DEF Spec

\* Two callbacks that overlap can turn "delivered" back into "sent" (MCDeliveryRace.cfg
\* finds it).  That is the only way: as long as no callback is interleaved with another
\* request, the worker, keywords, reordered and repeated callbacks, retries and crashes
\* never make a status go back (messages.py:28-53).
THEOREM StatusesForward ==
    ASSUME "callback" \notin Overlapping
    PROVE  Spec => ForwardOnly
<1>1. Inv /\ Unsent /\ CallbackAlone /\ [Next]_vars
        => \A m \in Messages :
             msg[m].status \in Forward /\ msg'[m].status \in Forward
               => Rank[msg[m].status] <= Rank[msg'[m].status]
  BY StatusMoves DEF StatusStep
<1> QED BY <1>1, AloneAlways, PTL DEF Spec, ForwardOnly

\* Under the same assumption a message that was queued again is moved by its own next
\* sending only: no callback about the call that a retry supersedes finds it, however
\* late it comes (messages.py:62-65; the safety half of SendingsSettle).
THEOREM SupersededIgnored ==
    ASSUME "callback" \notin Overlapping
    PROVE  Spec => StaleCallbackHarmless
<1>1. Inv /\ Unsent /\ CallbackAlone /\ [Next]_vars
        => \A m \in Messages :
             msg[m].status = "queued" /\ msg[m].pid = None /\ msg'[m].status # "queued"
               => sends'[m] < sends[m]
  BY StatusMoves DEF StatusStep
<1> QED BY <1>1, AloneAlways, PTL DEF Spec, StaleCallbackHarmless

(***************************************************************************)
(* Short links                                                             *)
(***************************************************************************)

\* What LinkOpensOne needs to be inductive: a code is of one asset (uq on short_code), and
\* an asset whose link was sent is still there and still has the code.
LinksInv ==
    /\ \A a, b \in Assets : Created(a) /\ Created(b) /\ asset[a].code = asset[b].code => a = b
    /\ \A x \in texted : Created(x.asset) /\ asset[x.asset].code = x.code
    /\ \A m \in Makers : drawn[m].tries < MaxDraws

LEMMA LinksStep ==
    ASSUME LinksTypeOK, LinksInv, [LinksNext]_linkVars
    PROVE  LinksTypeOK' /\ LinksInv'
<1> USE LinksAssumption
<1>1. ASSUME NEW m \in Makers, NEW k \in Codes, DrawCode(m, k)
      PROVE  LinksTypeOK' /\ LinksInv'
  <2>1. drawn' = [drawn EXCEPT ![m].code = k] /\ UNCHANGED <<asset, texted>>
    BY <1>1 DEF DrawCode
  <2>2. drawn' \in [Makers -> Draw] /\ \A n \in Makers : drawn'[n].tries = drawn[n].tries
    BY <2>1 DEF LinksTypeOK, Draw
  <2> QED BY <2>1, <2>2 DEF LinksTypeOK, LinksInv, Created
<1>2. ASSUME NEW m \in Makers, NEW a \in Assets, NEW url \in Urls, NEW active \in BOOLEAN,
             InsertAsset(m, a, url, active)
      PROVE  LinksTypeOK' /\ LinksInv'
  <2> DEFINE row == [code |-> drawn[m].code, url |-> url, active |-> active]
  <2>1. /\ ~Created(a) /\ ~InUse(drawn[m].code)
        /\ asset' = [asset EXCEPT ![a] = row]
        /\ drawn' = [drawn EXCEPT ![m] = NoDraw]
        /\ UNCHANGED texted
    BY <1>2 DEF InsertAsset
  <2>2. row \in AssetRow /\ row.code = drawn[m].code
    BY <1>2 DEF InsertAsset, AssetRow, LinksTypeOK, Draw
  <2>3. drawn' \in [Makers -> Draw] /\ \A n \in Makers : drawn'[n].tries < MaxDraws
    BY <2>1 DEF LinksTypeOK, LinksInv, Draw, NoDraw
  <2> HIDE DEF row
  <2>4. /\ asset' \in [Assets -> AssetRow \cup {None}]
        /\ asset'[a] = row
        /\ \A b \in Assets \ {a} : asset'[b] = asset[b]
    BY <2>1, <2>2 DEF LinksTypeOK
  <2>5. ASSUME NEW b \in Assets \ {a}, Created(b)' PROVE asset'[b].code # row.code
    BY <2>1, <2>2, <2>4, <2>5 DEF InUse, Created
  <2>6. \A b, c \in Assets : Created(b)' /\ Created(c)' /\ asset'[b].code = asset'[c].code => b = c
    BY <2>4, <2>5 DEF LinksInv, Created
  <2>7. ASSUME NEW x \in texted' PROVE Created(x.asset)' /\ asset'[x.asset].code = x.code
    <3>1. x \in texted /\ x.asset \in Assets /\ Created(x.asset) /\ asset[x.asset].code = x.code
      BY <2>1 DEF LinksTypeOK, LinksInv
    <3> QED BY <2>1, <2>4, <3>1 DEF Created
  <2> QED BY <2>1, <2>3, <2>4, <2>6, <2>7 DEF LinksTypeOK, LinksInv
<1>3. ASSUME NEW m \in Makers, Collide(m) PROVE LinksTypeOK' /\ LinksInv'
  <2>1. /\ drawn[m] \in Draw /\ drawn[m].tries \in 0 .. MaxDraws /\ drawn[m].tries < MaxDraws
        /\ UNCHANGED <<asset, texted>>
        /\ drawn' = [drawn EXCEPT ![m] =
                         IF drawn[m].tries + 1 = MaxDraws THEN NoDraw
                         ELSE [code |-> None, tries |-> drawn[m].tries + 1]]
    BY <1>3 DEF Collide, LinksTypeOK, LinksInv, Draw
  <2>2. drawn'[m] \in Draw /\ drawn'[m].tries < MaxDraws
    BY <2>1 DEF Draw, NoDraw, LinksTypeOK
  <2>3. \A n \in Makers \ {m} : drawn'[n] = drawn[n]
    BY <2>1 DEF LinksTypeOK
  <2>4. drawn' \in [Makers -> Draw] /\ \A n \in Makers : drawn'[n].tries < MaxDraws
    BY <2>1, <2>2, <2>3 DEF LinksTypeOK, LinksInv
  <2> QED BY <2>1, <2>4 DEF LinksTypeOK, LinksInv, Created
<1>4. ASSUME NEW m \in Makers, GiveUp(m) PROVE LinksTypeOK' /\ LinksInv'
  <2>1. drawn' = [drawn EXCEPT ![m] = NoDraw] /\ UNCHANGED <<asset, texted>>
    BY <1>4 DEF GiveUp
  <2>2. drawn' \in [Makers -> Draw] /\ \A n \in Makers : drawn'[n].tries < MaxDraws
    BY <2>1 DEF LinksTypeOK, LinksInv, Draw, NoDraw
  <2> QED BY <2>1, <2>2 DEF LinksTypeOK, LinksInv, Created
<1>5. ASSUME NEW a \in Assets, Created(a), asset'[a] \in AssetRow,
             asset'[a].code = asset[a].code,
             asset' \in [Assets -> AssetRow \cup {None}],
             \A b \in Assets \ {a} : asset'[b] = asset[b],
             UNCHANGED <<drawn, texted>>
      PROVE  LinksTypeOK' /\ LinksInv'
  <2>1. \A b \in Assets : /\ Created(b)' <=> Created(b)
                          /\ Created(b) => asset'[b].code = asset[b].code
    BY <1>5 DEF Created
  <2>2. \A x \in texted : x.asset \in Assets
    BY DEF LinksTypeOK
  <2> QED BY <1>5, <2>1, <2>2 DEF LinksTypeOK, LinksInv
<1>6. ASSUME NEW a \in Assets, NEW url \in Urls, NEW active \in BOOLEAN, UpdateAsset(a, url, active)
      PROVE  LinksTypeOK' /\ LinksInv'
  <2>1. /\ Created(a) /\ asset[a] \in AssetRow
        /\ asset' = [asset EXCEPT ![a].url = url, ![a].active = active]
        /\ UNCHANGED <<drawn, texted>>
    BY <1>6 DEF UpdateAsset, Created, LinksTypeOK
  <2>2. asset'[a] \in AssetRow /\ asset'[a].code = asset[a].code
    BY <2>1 DEF LinksTypeOK, AssetRow
  <2>3. /\ asset' \in [Assets -> AssetRow \cup {None}]
        /\ \A b \in Assets \ {a} : asset'[b] = asset[b]
    BY <2>1, <2>2 DEF LinksTypeOK
  <2> QED BY <1>5, <2>1, <2>2, <2>3
<1>7. ASSUME NEW a \in Assets, DeleteAsset(a) PROVE LinksTypeOK' /\ LinksInv'
  <2>1. /\ Created(a) /\ asset[a] \in AssetRow
        /\ asset' = [asset EXCEPT ![a].active = FALSE]
        /\ UNCHANGED <<drawn, texted>>
    BY <1>7 DEF DeleteAsset, Created, LinksTypeOK
  <2>2. asset'[a] \in AssetRow /\ asset'[a].code = asset[a].code
    BY <2>1 DEF LinksTypeOK, AssetRow
  <2>3. /\ asset' \in [Assets -> AssetRow \cup {None}]
        /\ \A b \in Assets \ {a} : asset'[b] = asset[b]
    BY <2>1, <2>2 DEF LinksTypeOK
  <2> QED BY <1>5, <2>1, <2>2, <2>3
<1>8. ASSUME NEW a \in Assets, TextLink(a) PROVE LinksTypeOK' /\ LinksInv'
  <2>1. /\ Created(a) /\ asset[a] \in AssetRow /\ asset[a].code \in Codes
        /\ texted' = texted \cup {[code |-> asset[a].code, asset |-> a]}
        /\ UNCHANGED <<asset, drawn>>
    BY <1>8 DEF TextLink, Created, LinksTypeOK, AssetRow
  <2>2. texted' \subseteq [code : Codes, asset : Assets]
    BY <2>1 DEF LinksTypeOK
  <2>3. \A x \in texted' : Created(x.asset) /\ asset[x.asset].code = x.code
    BY <2>1 DEF LinksInv
  <2> QED BY <2>1, <2>2, <2>3 DEF LinksTypeOK, LinksInv, Created
<1>9. CASE UNCHANGED linkVars
  BY <1>9 DEF linkVars, LinksTypeOK, LinksInv, Created
<1> QED BY <1>1, <1>2, <1>3, <1>4, <1>6, <1>7, <1>8, <1>9 DEF LinksNext

LEMMA LinksAlways == LinksSpec => [](LinksTypeOK /\ LinksInv)
<1>1. LinksInit => LinksTypeOK /\ LinksInv
  BY LinksAssumption DEF LinksInit, LinksTypeOK, LinksInv, Draw, NoDraw, Created
<1>2. LinksTypeOK /\ LinksInv /\ [LinksNext]_linkVars => (LinksTypeOK /\ LinksInv)'
  BY LinksStep
<1> QED BY <1>1, <1>2, PTL DEF LinksSpec

\* However many assets are created at once, changed, deleted and brought back, a link that
\* was sent opens the asset it was sent for, or nothing while that is switched off
\* (assets.py:41-43, 46-60, 71-74).
THEOREM LinksOpenTheirOwn == LinksSpec => []LinkOpensOne
<1>1. LinksTypeOK /\ LinksInv => LinkOpensOne
  <2> SUFFICES ASSUME LinksTypeOK, LinksInv, NEW x \in texted
               PROVE  Opens(x.code) = IF Created(x.asset) /\ asset[x.asset].active
                                      THEN asset[x.asset].url ELSE None
    BY DEF LinkOpensOne
  <2>1. x.asset \in Assets /\ Created(x.asset) /\ asset[x.asset].code = x.code
    BY DEF LinksTypeOK, LinksInv
  <2>2. \A a \in Assets : Created(a) /\ asset[a].code = x.code => a = x.asset
    BY <2>1 DEF LinksInv
  <2>3. CASE asset[x.asset].active
    <3> DEFINE Open(a) == Created(a) /\ asset[a].active /\ asset[a].code = x.code
    <3>1. (CHOOSE a \in Assets : Open(a)) = x.asset
      BY <2>1, <2>2, <2>3
    <3> QED BY <2>1, <2>3, <3>1 DEF Opens
  <2>4. CASE ~asset[x.asset].active
    BY <2>1, <2>2, <2>4 DEF Opens
  <2> QED BY <2>3, <2>4
<1> QED BY <1>1, LinksAlways, PTL

(***************************************************************************)
(* Signing in                                                              *)
(***************************************************************************)

\* A session's row is there until its sign-out, and ends when it was born to; who is let in
\* has read the row.  Of the attempts, the limiter has lost only those out of the window.
DoorInv ==
    /\ \A k \in Tokens : session[k] # None =>
           /\ k \notin signedOut
           /\ born[k] # None
           /\ session[k].ends = born[k] + Lifetime
    /\ \A k \in signedOut : born[k] # None
    /\ \A c \in Calls : call[c].at # "free" =>
           /\ call[c].token \in Tokens
           /\ ~call[c].ended
           /\ born[call[c].token] # None
           /\ call[c].asked < born[call[c].token] + Lifetime
    /\ \A c \in Calls : call[c].at = "entry" => call[c].row \in SessionRow

\* The limiter's queue is the end of the list of all attempts.
LimiterInv ==
    /\ hits \in Seq(Clock) /\ tries \in Seq(Clock)
    /\ Len(hits) <= Len(tries)
    /\ \A i \in 1 .. Len(hits) : hits[i] = tries[Len(tries) - Len(hits) + i]
    /\ \A i \in 1 .. Len(tries) - Len(hits) : clock - tries[i] > Window

\* allow drops from the left, and only what is out of the window (ratelimit.py:25-27).
LEMMA KeptIs ==
    ASSUME hits \in Seq(Clock), clock \in Clock
    PROVE  \E first \in 1 .. Len(hits) + 1 :
               /\ Kept = SubSeq(hits, first, Len(hits))
               /\ \A j \in 1 .. first - 1 : clock - hits[j] > Window
<1> USE SignInAssumption
<1>1. Len(hits) \in Nat /\ clock \in Nat /\ \A i \in 1 .. Len(hits) : hits[i] \in Nat
  BY DEF Clock
<1> DEFINE InWindow(i) == i > Len(hits) \/ clock - hits[i] <= Window
           First(i) == InWindow(i) /\ \A j \in 1 .. i - 1 : ~InWindow(j)
           T == {i \in 1 .. Len(hits) + 1 : InWindow(i)}
<1>2. T # {} /\ T \in SUBSET Nat
  <2>1. Len(hits) + 1 \in T
    BY <1>1
  <2> QED BY <1>1, <2>1
<1>3. PICK m \in T : \A k \in T : m <= k
  BY <1>2, LeastNumber, Zenon
<1>4. m \in 1 .. Len(hits) + 1 /\ InWindow(m)
  OBVIOUS
<1>5. ASSUME NEW j \in 1 .. m - 1 PROVE ~InWindow(j)
  <2>1. j \in 1 .. Len(hits) + 1 /\ ~(m <= j)
    BY <1>1, <1>4
  <2>2. j \notin T
    BY <1>3, <2>1
  <2> QED BY <2>1, <2>2
<1> DEFINE first == CHOOSE i \in 1 .. Len(hits) + 1 : First(i)
<1>6. first \in 1 .. Len(hits) + 1 /\ First(first)
  BY <1>4, <1>5
<1>7. Kept = SubSeq(hits, first, Len(hits))
  BY DEF Kept
<1>8. \A j \in 1 .. first - 1 : clock - hits[j] > Window
  <2> HIDE DEF first
  <2> TAKE j \in 1 .. first - 1
  <2>1. ~InWindow(j)
    BY <1>6
  <2>2. j \in 1 .. Len(hits)
    BY <1>1, <1>6
  <2> QED BY <1>1, <2>1, <2>2
<1> HIDE DEF first
<1> QED BY <1>6, <1>7, <1>8

\* What is left is the end of the list of attempts, and what was dropped is of old.
LEMMA KeptLimits ==
    ASSUME LimiterInv, clock \in Clock
    PROVE  /\ Kept \in Seq(Clock)
           /\ Len(Kept) <= Len(hits)
           /\ \A i \in 1 .. Len(Kept) : Kept[i] = tries[Len(tries) - Len(Kept) + i]
           /\ \A i \in 1 .. Len(tries) - Len(Kept) : clock - tries[i] > Window
<1>1. PICK first \in 1 .. Len(hits) + 1 :
          /\ Kept = SubSeq(hits, first, Len(hits))
          /\ \A j \in 1 .. first - 1 : clock - hits[j] > Window
  BY KeptIs DEF LimiterInv
<1>2. /\ hits \in Seq(Clock) /\ Len(hits) \in Nat /\ Len(tries) \in Nat /\ first \in Nat
      /\ Len(hits) <= Len(tries)
  BY DEF LimiterInv
<1>3. /\ Kept \in Seq(Clock)
      /\ Len(Kept) = Len(hits) - first + 1
      /\ \A i \in 1 .. Len(Kept) : Kept[i] = hits[first + i - 1]
  <2>1. \A i \in first .. Len(hits) : hits[i] \in Clock
    BY <1>2
  <2>2. /\ SubSeq(hits, first, Len(hits)) \in Seq(Clock)
        /\ Len(SubSeq(hits, first, Len(hits))) =
               IF first <= Len(hits) THEN Len(hits) - first + 1 ELSE 0
        /\ \A i \in 1 .. Len(hits) - first + 1 :
               SubSeq(hits, first, Len(hits))[i] = hits[first + i - 1]
    BY <1>2, <2>1, SubSeqProperties
  <2> QED BY <1>1, <1>2, <2>2
<1>4. ASSUME NEW i \in 1 .. Len(Kept)
      PROVE  Kept[i] = tries[Len(tries) - Len(Kept) + i]
  <2>1. first >= 1 /\ first + i - 1 \in 1 .. Len(hits)
    <3> HIDE DEF Kept
    <3> QED BY <1>2, <1>3
  <2>2. Kept[i] = hits[first + i - 1]
    BY <1>3
  <2>3. hits[first + i - 1] = tries[Len(tries) - Len(hits) + (first + i - 1)]
    BY <2>1 DEF LimiterInv
  <2>4. Len(tries) - Len(hits) + (first + i - 1) = Len(tries) - Len(Kept) + i
    BY <1>2, <1>3
  <2> QED BY <2>2, <2>3, <2>4
<1>5. ASSUME NEW i \in 1 .. Len(tries) - Len(Kept) PROVE clock - tries[i] > Window
  <2>1. CASE i <= Len(tries) - Len(hits)
    <3>1. i \in 1 .. Len(tries) - Len(hits)
      BY <1>2, <2>1
    <3> QED BY <3>1 DEF LimiterInv
  <2>2. CASE i > Len(tries) - Len(hits)
    <3> DEFINE j == i - (Len(tries) - Len(hits))
    <3>1. j \in 1 .. first - 1 /\ j \in 1 .. Len(hits) /\ i = Len(tries) - Len(hits) + j
      BY <1>2, <1>3, <2>2
    <3>2. hits[j] = tries[i]
      BY <3>1 DEF LimiterInv
    <3> QED BY <1>1, <3>1, <3>2
  <2> QED BY <1>2, <1>3, <2>1, <2>2
<1> QED BY <1>2, <1>3, <1>4, <1>5

LEMMA AdmittedLimits ==
    ASSUME SignInTypeOK, LimiterInv, LoginsLimited, Admitted, clock' = clock
    PROVE  LimiterInv' /\ LoginsLimited' /\ Len(hits') <= Attempts
<1> USE SignInAssumption
<1>1. /\ Len(Kept) < Attempts
      /\ hits' = Append(Kept, clock)
      /\ tries' = Append(tries, clock)
      /\ clock \in Clock /\ clock \in Nat
  BY DEF Admitted, SignInTypeOK, Clock
<1>2. /\ Kept \in Seq(Clock) /\ tries \in Seq(Clock) /\ Len(Kept) \in Nat /\ Len(tries) \in Nat
      /\ Len(Kept) <= Len(tries)
      /\ \A i \in 1 .. Len(Kept) : Kept[i] = tries[Len(tries) - Len(Kept) + i]
      /\ \A i \in 1 .. Len(tries) - Len(Kept) : clock - tries[i] > Window
  <2>1. Len(hits) <= Len(tries) /\ hits \in Seq(Clock) /\ tries \in Seq(Clock)
    BY DEF LimiterInv
  <2> QED BY <1>1, <2>1, KeptLimits
<1>3. /\ hits' \in Seq(Clock) /\ tries' \in Seq(Clock)
      /\ Len(hits') = Len(Kept) + 1 /\ Len(tries') = Len(tries) + 1
      /\ \A i \in 1 .. Len(Kept) : hits'[i] = Kept[i]
      /\ hits'[Len(Kept) + 1] = clock
      /\ \A i \in 1 .. Len(tries) : tries'[i] = tries[i]
      /\ tries'[Len(tries) + 1] = clock
  BY <1>1, <1>2
<1>4. ASSUME NEW i \in 1 .. Len(hits')
      PROVE  hits'[i] = tries'[Len(tries') - Len(hits') + i]
  <2>1. CASE i \in 1 .. Len(Kept)
    <3>1. Len(tries') - Len(hits') + i = Len(tries) - Len(Kept) + i
      BY <1>2, <1>3
    <3>2. Len(tries) - Len(Kept) + i \in 1 .. Len(tries)
      BY <1>2, <2>1
    <3> QED BY <1>2, <1>3, <2>1, <3>1, <3>2
  <2>2. CASE i = Len(Kept) + 1
    <3>1. Len(tries') - Len(hits') + i = Len(tries) + 1
      BY <1>2, <1>3, <2>2
    <3> QED BY <1>3, <2>2, <3>1
  <2> QED BY <1>2, <1>3, <2>1, <2>2
<1>5. \A i \in 1 .. Len(tries') - Len(hits') : clock' - tries'[i] > Window
  <2>1. \A i \in 1 .. Len(tries') - Len(hits') : /\ i \in 1 .. Len(tries) - Len(Kept)
                                                /\ i \in 1 .. Len(tries)
    BY <1>2, <1>3
  <2> QED BY <1>2, <1>3, <2>1
<1>6. LimiterInv'
  BY <1>2, <1>3, <1>4, <1>5 DEF LimiterInv
<1>7. ASSUME NEW i \in 1 .. Len(tries'), NEW j \in 1 .. Len(tries'), j >= i + Attempts
      PROVE  tries'[j] - tries'[i] > Window
  <2>1. CASE j \in 1 .. Len(tries)
    <3>1. i \in 1 .. Len(tries)
      BY <1>2, <1>7, <2>1
    <3> QED BY <1>3, <1>7, <2>1, <3>1 DEF LoginsLimited
  <2>2. CASE j = Len(tries) + 1
    <3>1. i \in 1 .. Len(tries) - Len(Kept) /\ i \in 1 .. Len(tries)
      BY <1>1, <1>2, <1>7, <2>2
    <3>2. tries'[j] = clock /\ tries'[i] = tries[i] /\ clock - tries[i] > Window
      BY <1>2, <1>3, <2>2, <3>1
    <3> QED BY <3>2
  <2> QED BY <1>2, <1>3, <2>1, <2>2
<1>8. LoginsLimited'
  BY <1>7 DEF LoginsLimited
<1> QED BY <1>1, <1>2, <1>3, <1>6, <1>8
LEMMA SignInStep ==
    ASSUME SignInTypeOK, DoorInv, LimiterInv, LoginsLimited, [SignInNext]_signInVars
    PROVE  SignInTypeOK' /\ DoorInv' /\ LimiterInv' /\ LoginsLimited'
<1> USE SignInAssumption
<1>0. /\ clock \in Clock /\ clock \in Nat /\ Lifetime \in Nat /\ LastTick \in Nat
      /\ hits \in Seq(Clock) /\ tries \in Seq(Clock)
      /\ Len(hits) \in Nat /\ Len(tries) \in Nat
      /\ \A k \in Tokens : born[k] # None => born[k] \in Nat
  BY DEF SignInTypeOK, Clock
<1>a. ASSUME UNCHANGED <<hits, tries, clock>>
      PROVE  LimiterInv' /\ LoginsLimited' /\ hits' \in Seq(Clock) /\ Len(hits') <= Attempts
                /\ clock' \in Clock /\ tries' \in Seq(Clock)
  BY <1>a DEF LimiterInv, LoginsLimited, SignInTypeOK
<1>b. ASSUME Admitted, clock' = clock
      PROVE  LimiterInv' /\ LoginsLimited' /\ hits' \in Seq(Clock) /\ Len(hits') <= Attempts
                /\ clock' \in Clock /\ tries' \in Seq(Clock)
  BY <1>0, <1>b, AdmittedLimits DEF LimiterInv
<1>c. ASSUME UNCHANGED <<session, call, born, signedOut>>
      PROVE  /\ DoorInv'
             /\ session' \in [Tokens -> SessionRow \cup {None}]
             /\ call' \in [Calls -> CallRow]
             /\ born' \in [Tokens -> Clock \cup {None}]
             /\ signedOut' \subseteq Tokens
  BY <1>c DEF DoorInv, SignInTypeOK
<1>1. ASSUME NEW k \in Tokens, Login(k)
      PROVE  SignInTypeOK' /\ DoorInv' /\ LimiterInv' /\ LoginsLimited'
  <2>1. /\ born[k] = None /\ Admitted /\ UNCHANGED <<call, clock, signedOut>>
        /\ session' = [session EXCEPT ![k] = [ends |-> clock + Lifetime, seen |-> clock]]
        /\ born' = [born EXCEPT ![k] = clock]
    BY <1>1 DEF Login
  <2>2. [ends |-> clock + Lifetime, seen |-> clock] \in SessionRow
    BY <1>0 DEF SessionRow, Clock
  <2>3. /\ session' \in [Tokens -> SessionRow \cup {None}]
        /\ born' \in [Tokens -> Clock \cup {None}]
        /\ session'[k].ends = clock + Lifetime /\ born'[k] = clock /\ clock # None
        /\ \A l \in Tokens \ {k} : session'[l] = session[l] /\ born'[l] = born[l]
    BY <1>0, <2>1, <2>2 DEF SignInTypeOK
  <2>4. k \notin signedOut /\ \A c \in Calls : call[c].at # "free" => call[c].token # k
    BY <2>1 DEF DoorInv
  <2>5. SignInTypeOK'
    BY <1>b, <2>1, <2>3 DEF SignInTypeOK
  <2>6. DoorInv'
    <3>1. ASSUME NEW l \in Tokens, session'[l] # None
          PROVE  l \notin signedOut' /\ born'[l] # None /\ session'[l].ends = born'[l] + Lifetime
      BY <2>1, <2>3, <2>4, <3>1 DEF DoorInv
    <3>2. \A l \in signedOut' : born'[l] # None
      BY <2>1, <2>3, <2>4 DEF DoorInv, SignInTypeOK
    <3>3. ASSUME NEW c \in Calls, call'[c].at # "free"
          PROVE  /\ call'[c].token \in Tokens
                 /\ ~call'[c].ended
                 /\ born'[call'[c].token] # None
                 /\ call'[c].asked < born'[call'[c].token] + Lifetime
      BY <2>1, <2>3, <2>4, <3>3 DEF DoorInv
    <3>4. \A c \in Calls : call'[c].at = "entry" => call'[c].row \in SessionRow
      BY <2>1 DEF DoorInv
    <3> QED BY <3>1, <3>2, <3>3, <3>4 DEF DoorInv
  <2> QED BY <1>b, <2>1, <2>5, <2>6
<1>2. CASE LoginFailed
  <2>1. Admitted /\ UNCHANGED <<session, call, clock, born, signedOut>>
    BY <1>2 DEF LoginFailed
  <2> QED BY <1>b, <1>c, <2>1 DEF SignInTypeOK
<1>3. CASE TurnedAway
  <2>1. hits' = Kept /\ UNCHANGED <<session, call, clock, born, signedOut, tries>>
    BY <1>3 DEF TurnedAway
  <2>2. /\ Kept \in Seq(Clock) /\ Len(Kept) <= Len(hits) /\ Len(hits) <= Attempts
        /\ \A i \in 1 .. Len(Kept) : Kept[i] = tries[Len(tries) - Len(Kept) + i]
        /\ \A i \in 1 .. Len(tries) - Len(Kept) : clock - tries[i] > Window
        /\ Len(hits) <= Len(tries)
    BY <1>0, KeptLimits DEF LimiterInv, SignInTypeOK
  <2>3. Len(Kept) <= Len(tries) /\ Len(Kept) <= Attempts /\ Len(Kept) \in Nat
    BY <1>0, <2>2
  <2>4. LimiterInv' /\ LoginsLimited'
    BY <1>0, <2>1, <2>2, <2>3 DEF LimiterInv, LoginsLimited
  <2>5. SignInTypeOK'
    BY <1>0, <1>c, <2>1, <2>2, <2>3 DEF SignInTypeOK
  <2> QED BY <1>c, <2>1, <2>4, <2>5
<1>4. ASSUME NEW c \in Calls, NEW k \in Tokens, NEW out \in BOOLEAN, Require(c, k, out)
      PROVE  SignInTypeOK' /\ DoorInv' /\ LimiterInv' /\ LoginsLimited'
  <2>1. /\ call[c].at = "free" /\ session[k] # None /\ session[k].ends > clock
        /\ call' = [call EXCEPT ![c] = [at |-> "entry", token |-> k, logout |-> out,
                                        row |-> session[k], asked |-> clock,
                                        ended |-> k \in signedOut]]
        /\ UNCHANGED <<session, hits, clock, born, signedOut, tries>>
    BY <1>4 DEF Require, Loaded
  <2>2. session[k] \in SessionRow /\ k \notin signedOut /\ born[k] # None
        /\ session[k].ends = born[k] + Lifetime
    BY <2>1 DEF SignInTypeOK, DoorInv
  <2> DEFINE new == [at |-> "entry", token |-> k, logout |-> out, row |-> session[k],
                     asked |-> clock, ended |-> FALSE]
  <2>3. /\ call' \in [Calls -> CallRow]
        /\ call'[c].token = k /\ ~call'[c].ended /\ call'[c].asked = clock
        /\ call'[c].row = session[k]
        /\ \A d \in Calls \ {c} : call'[d] = call[d]
    <3>1. (k \in signedOut) = FALSE
      BY <2>2
    <3>2. call' = [call EXCEPT ![c] = new]
      BY <2>1, <3>1, Zenon
    <3>3. new \in CallRow /\ new.token = k /\ ~new.ended /\ new.asked = clock
          /\ new.row = session[k]
      BY <1>0, <2>2 DEF CallRow
    <3> HIDE DEF new
    <3> QED BY <3>2, <3>3 DEF SignInTypeOK
  <2> HIDE DEF new
  <2>4. clock < born[k] + Lifetime
    BY <1>0, <2>1, <2>2
  <2>5. ASSUME NEW d \in Calls, call'[d].at # "free"
        PROVE  /\ call'[d].token \in Tokens
               /\ ~call'[d].ended
               /\ born'[call'[d].token] # None
               /\ call'[d].asked < born'[call'[d].token] + Lifetime
               /\ call'[d].at = "entry" => call'[d].row \in SessionRow
    BY <2>1, <2>2, <2>3, <2>4, <2>5 DEF DoorInv
  <2>6. DoorInv'
    <3>1. \A d \in Calls : call'[d].at = "entry" => call'[d].row \in SessionRow
      BY <2>5
    <3>2. /\ \A l \in Tokens : session'[l] # None =>
               /\ l \notin signedOut'
               /\ born'[l] # None
               /\ session'[l].ends = born'[l] + Lifetime
          /\ \A l \in signedOut' : born'[l] # None
      BY <2>1 DEF DoorInv
    <3> QED BY <2>5, <3>1, <3>2 DEF DoorInv
  <2> QED BY <1>a, <2>1, <2>3, <2>6 DEF SignInTypeOK
<1>5. ASSUME NEW c \in Calls, Touch(c)
      PROVE  SignInTypeOK' /\ DoorInv' /\ LimiterInv' /\ LoginsLimited'
  <2> DEFINE k == call[c].token
  <2>1. /\ call[c].at = "entry"
        /\ session' = IF session[k] # None THEN [session EXCEPT ![k] = Touched(c, session[k])]
                      ELSE session
        /\ call' = [call EXCEPT ![c] = IF TouchDue(c) /\ ~(session[k] # None) THEN NoCall
                                       ELSE [call[c] EXCEPT !.at = "in", !.row = None]]
        /\ UNCHANGED <<hits, clock, born, signedOut, tries>>
    BY <1>5 DEF Touch
  <2>2. call[c] \in CallRow /\ k \in Tokens /\ ~call[c].ended /\ call[c].asked \in Clock
    BY <2>1 DEF SignInTypeOK, DoorInv, CallRow
  <2>3. /\ session' \in [Tokens -> SessionRow \cup {None}]
        /\ \A l \in Tokens : session'[l] # None =>
               session[l] # None /\ session'[l].ends = session[l].ends
    <3>1. ASSUME session[k] # None
          PROVE  Touched(c, session[k]) \in SessionRow
                    /\ Touched(c, session[k]).ends = session[k].ends
      <4>1. session[k] \in SessionRow
        BY <2>2, <3>1 DEF SignInTypeOK
      <4> QED BY <2>2, <4>1 DEF Touched, SessionRow
    <3> HIDE DEF k
    <3>2. CASE session[k] # None
      BY <2>1, <2>2, <3>1, <3>2 DEF SignInTypeOK
    <3>3. CASE session[k] = None
      BY <2>1, <3>3 DEF SignInTypeOK
    <3> QED BY <3>2, <3>3
  <2>4. CASE call' = [call EXCEPT ![c] = NoCall]
    <3>1. /\ call' \in [Calls -> CallRow]
          /\ call'[c].at = "free"
          /\ \A d \in Calls \ {c} : call'[d] = call[d]
      BY <1>0, <2>4 DEF SignInTypeOK, CallRow, NoCall, Clock
    <3>2. DoorInv'
      BY <2>1, <2>3, <3>1 DEF DoorInv
    <3> QED BY <1>a, <2>1, <2>3, <3>1, <3>2 DEF SignInTypeOK
  <2>5. CASE call' = [call EXCEPT ![c] = [call[c] EXCEPT !.at = "in", !.row = None]]
    <3>1. /\ call' \in [Calls -> CallRow]
          /\ call'[c].at = "in" /\ call'[c].token = k /\ call'[c].ended = call[c].ended
          /\ call'[c].asked = call[c].asked
          /\ \A d \in Calls \ {c} : call'[d] = call[d]
      BY <2>2, <2>5 DEF SignInTypeOK, CallRow
    <3>2. DoorInv'
      BY <2>1, <2>3, <3>1 DEF DoorInv
    <3> QED BY <1>a, <2>1, <2>3, <3>1, <3>2 DEF SignInTypeOK
  <2> QED BY <2>1, <2>4, <2>5
<1>6. ASSUME NEW c \in Calls, HandlerEnds(c)
      PROVE  SignInTypeOK' /\ DoorInv' /\ LimiterInv' /\ LoginsLimited'
  <2>1. /\ call' = [call EXCEPT ![c] = NoCall]
        /\ UNCHANGED <<session, hits, clock, born, signedOut, tries>>
    BY <1>6 DEF HandlerEnds
  <2>2. /\ call' \in [Calls -> CallRow]
        /\ call'[c].at = "free"
        /\ \A d \in Calls \ {c} : call'[d] = call[d]
    BY <1>0, <2>1 DEF SignInTypeOK, CallRow, NoCall, Clock
  <2>3. DoorInv'
    BY <2>1, <2>2 DEF DoorInv
  <2> QED BY <1>a, <2>1, <2>2, <2>3 DEF SignInTypeOK
<1>7. ASSUME NEW c \in Calls, Logout(c)
      PROVE  SignInTypeOK' /\ DoorInv' /\ LimiterInv' /\ LoginsLimited'
  <2> DEFINE k == call[c].token
  <2>1. /\ call[c].at = "in"
        /\ session' = [session EXCEPT ![k] = None]
        /\ signedOut' = signedOut \cup {k}
        /\ call' = [call EXCEPT ![c] = NoCall]
        /\ UNCHANGED <<hits, clock, born, tries>>
    BY <1>7 DEF Logout
  <2>2. k \in Tokens /\ born[k] # None
    BY <2>1 DEF DoorInv
  <2>3. /\ call' \in [Calls -> CallRow]
        /\ call'[c].at = "free"
        /\ \A d \in Calls \ {c} : call'[d] = call[d]
    BY <1>0, <2>1 DEF SignInTypeOK, CallRow, NoCall, Clock
  <2> HIDE DEF k
  <2>4. /\ session' \in [Tokens -> SessionRow \cup {None}]
        /\ signedOut' \subseteq Tokens
        /\ session'[k] = None
        /\ \A l \in Tokens \ {k} : session'[l] = session[l]
    BY <2>1, <2>2 DEF SignInTypeOK
  <2>5. DoorInv'
    BY <2>1, <2>2, <2>3, <2>4 DEF DoorInv
  <2> QED BY <1>a, <2>1, <2>3, <2>4, <2>5 DEF SignInTypeOK
<1>8. CASE Restart
  <2>1. /\ call' = [c \in Calls |-> NoCall] /\ hits' = <<>> /\ tries' = <<>>
        /\ UNCHANGED <<session, clock, born, signedOut>>
    BY <1>8 DEF Restart
  <2>2. call' \in [Calls -> CallRow] /\ \A c \in Calls : call'[c].at = "free"
    BY <1>0, <2>1 DEF CallRow, NoCall, Clock
  <2>3. DoorInv'
    BY <2>1, <2>2 DEF DoorInv
  <2>4. LimiterInv' /\ LoginsLimited'
    BY <2>1 DEF LimiterInv, LoginsLimited
  <2> QED BY <1>0, <2>1, <2>2, <2>3, <2>4 DEF SignInTypeOK
<1>9. CASE ClockRuns
  <2>1. /\ clock' = clock + 1 /\ clock' \in Clock
        /\ UNCHANGED <<session, call, hits, born, signedOut, tries>>
    BY <1>0, <1>9 DEF ClockRuns, Clock
  <2>2. \A i \in 1 .. Len(tries) : tries[i] \in Nat
    BY <1>0 DEF Clock
  <2>3. ASSUME NEW i \in 1 .. Len(tries) - Len(hits) PROVE clock' - tries[i] > Window
    <3>1. i \in 1 .. Len(tries)
      BY <1>0
    <3>2. clock - tries[i] > Window
      BY DEF LimiterInv
    <3> QED BY <1>0, <2>1, <2>2, <3>1, <3>2
  <2>4. LimiterInv' /\ LoginsLimited'
    BY <2>1, <2>3 DEF LimiterInv, LoginsLimited
  <2> QED BY <1>c, <2>1, <2>4 DEF SignInTypeOK
<1>10. CASE UNCHANGED signInVars
  <2>1. UNCHANGED <<session, call, hits, clock, born, signedOut, tries>>
    BY <1>10 DEF signInVars
  <2> QED BY <1>a, <1>c, <2>1 DEF SignInTypeOK
<1> QED
  BY <1>1, <1>2, <1>3, <1>4, <1>5, <1>6, <1>7, <1>8, <1>9, <1>10 DEF SignInNext

LEMMA SignInAlways == SignInSpec => [](SignInTypeOK /\ DoorInv /\ LimiterInv /\ LoginsLimited)
<1>1. SignInInit => SignInTypeOK /\ DoorInv /\ LimiterInv /\ LoginsLimited
  <2> SUFFICES ASSUME SignInInit PROVE SignInTypeOK /\ DoorInv /\ LimiterInv /\ LoginsLimited
    OBVIOUS
  <2>1. hits = <<>> /\ tries = <<>> /\ Len(hits) = 0 /\ Len(tries) = 0 /\ clock = 0
    BY DEF SignInInit
  <2>2. SignInTypeOK
    BY <2>1, SignInAssumption DEF SignInInit, SignInTypeOK, NoCall, CallRow, Clock
  <2>3. DoorInv
    BY SignInAssumption DEF SignInInit, DoorInv, NoCall
  <2>4. LimiterInv /\ LoginsLimited
    BY <2>1 DEF LimiterInv, LoginsLimited
  <2> QED BY <2>2, <2>3, <2>4
<1>2. /\ SignInTypeOK /\ DoorInv /\ LimiterInv /\ LoginsLimited
      /\ [SignInNext]_signInVars
      => (SignInTypeOK /\ DoorInv /\ LimiterInv /\ LoginsLimited)'
  BY SignInStep
<1> QED BY <1>1, <1>2, PTL DEF SignInSpec

\* However requests with one cookie overlap, nobody is let in who asked after the sign-out or
\* past the end of the session (sessions.py:38-54, decorators.py:22-32); and, for any limit
\* and window, no window has more attempts than the limit (ratelimit.py:22-31).
THEOREM DoorIsKept == SignInSpec => []DoorKept
<1>1. DoorInv /\ LoginsLimited => DoorKept
  BY DEF DoorInv, DoorKept, EndedStaysEnded
<1> QED BY <1>1, SignInAlways, PTL

(***************************************************************************)
(* Notifications                                                           *)
(***************************************************************************)

\* What AlertsLand needs to be inductive: the rows are of calls made so far, so a new one
\* is told apart from them all, and whoever is about to mark rows has seen each of them.
AlertsInv ==
    /\ \A a \in alerts : a.call <= calls
    /\ \A a1, a2 \in alerts : a1.call = a2.call /\ a1.to = a2.to => a1 = a2
    /\ \A a \in alerts : a.read => a.seen
    /\ \A u \in Employees : chosen[u] # None =>
         /\ \A n \in chosen[u] : n <= calls
         /\ \A a \in alerts : a.to = u /\ a.call \in chosen[u] => a.seen

LEMMA AlertRows ==
    ASSUME AlertsTypeOK, NEW a \in alerts
    PROVE  /\ a \in AlertRow
           /\ a.call \in 1 .. MaxCalls /\ a.to \in Employees
           /\ a.read \in BOOLEAN /\ a.seen \in BOOLEAN
BY DEF AlertsTypeOK, AlertRow

\* One request notifies each of a set of members, once (notifications.py:14-31).
LEMMA NotifyUsersSteps ==
    ASSUME AlertsTypeOK, AlertsInv, NEW us \in SUBSET Employees, NotifyUsers(us)
    PROVE  AlertsTypeOK' /\ AlertsInv'
<1> USE AlertsAssumption
<1>1. /\ calls \in 0 .. MaxCalls /\ calls < MaxCalls /\ calls' = calls + 1
      /\ UNCHANGED <<posting, chosen>>
      /\ alerts' = alerts \cup {[call |-> calls + 1, to |-> u, read |-> FALSE, seen |-> FALSE] :
                                    u \in us}
  BY DEF NotifyUsers, AlertsTypeOK
<1>2. /\ calls + 1 \in 1 .. MaxCalls
      /\ calls' \in 0 .. MaxCalls
  BY <1>1
<1>3. \A u \in us : [call |-> calls + 1, to |-> u, read |-> FALSE, seen |-> FALSE] \in AlertRow
  BY <1>2 DEF AlertRow
<1>4. AlertsTypeOK'
  BY <1>1, <1>2, <1>3 DEF AlertsTypeOK
<1>5. ASSUME NEW a \in alerts'
      PROVE  \/ a \in alerts /\ a.call # calls + 1 /\ a.call <= calls
             \/ a.call = calls + 1 /\ a \in AlertRow
                  /\ a = [call |-> calls + 1, to |-> a.to, read |-> FALSE, seen |-> FALSE]
  <2>1. CASE a \in alerts
    <3>1. a.call \in 1 .. MaxCalls /\ a.call <= calls
      BY <2>1, AlertRows DEF AlertsInv
    <3> QED BY <1>1, <2>1, <3>1
  <2>2. CASE a \notin alerts
    BY <1>1, <1>3, <2>2
  <2> QED BY <2>1, <2>2
<1>6. ASSUME NEW a \in alerts' PROVE a.call <= calls'
  <2>1. CASE a \in alerts /\ a.call <= calls
    <3>1. a.call \in 1 .. MaxCalls
      BY <2>1, AlertRows
    <3> QED BY <1>1, <2>1, <3>1
  <2>2. CASE a.call = calls + 1
    BY <1>1, <2>2
  <2> QED BY <1>5, <2>1, <2>2
<1>7. ASSUME NEW a1 \in alerts', NEW a2 \in alerts', a1.call = a2.call, a1.to = a2.to
      PROVE  a1 = a2
  BY <1>5, <1>7 DEF AlertsInv
<1>8. \A a \in alerts' : a.read => a.seen
  BY <1>5 DEF AlertsInv
<1>9. ASSUME NEW u \in Employees, chosen[u] # None
      PROVE  /\ \A n \in chosen[u] : n <= calls'
             /\ \A a \in alerts' : a.to = u /\ a.call \in chosen[u] => a.seen
  <2>1. chosen[u] \in SUBSET (1 .. MaxCalls)
    BY <1>9 DEF AlertsTypeOK
  <2>2. \A n \in chosen[u] : n \in 1 .. MaxCalls /\ n <= calls
    BY <1>9, <2>1 DEF AlertsInv
  <2>3. \A n \in chosen[u] : n <= calls' /\ n # calls + 1
    BY <1>1, <2>2
  <2>4. ASSUME NEW a \in alerts', a.to = u, a.call \in chosen[u] PROVE a.seen
    <3>1. a \in alerts
      BY <1>5, <2>3, <2>4
    <3> QED BY <1>9, <2>4, <3>1 DEF AlertsInv
  <2> QED BY <2>3, <2>4
<1>10. AlertsInv'
  BY <1>1, <1>6, <1>7, <1>8, <1>9 DEF AlertsInv
<1> QED BY <1>4, <1>10

\* Rows that are rewritten in place stay the rows they were, read or not.
LEMMA RowsRewritten ==
    ASSUME AlertsTypeOK, AlertsInv, NEW f, UNCHANGED <<posting, calls>>,
           alerts' = {f[a] : a \in alerts},
           chosen' \in [Employees -> {None} \cup SUBSET (1 .. MaxCalls)],
           \A a \in alerts : /\ f[a] \in AlertRow
                             /\ f[a].call = a.call /\ f[a].to = a.to
                             /\ a.seen => f[a].seen
                             /\ f[a].read => f[a].seen,
           \A u \in Employees : chosen'[u] # None =>
               /\ \A n \in chosen'[u] : n <= calls
               /\ \A a \in alerts : a.to = u /\ a.call \in chosen'[u] => f[a].seen
    PROVE  AlertsTypeOK' /\ AlertsInv'
<1>1. AlertsTypeOK'
  BY DEF AlertsTypeOK
<1>2. \A a \in alerts' : a.call <= calls'
  BY DEF AlertsInv
<1>3. \A a1, a2 \in alerts' : a1.call = a2.call /\ a1.to = a2.to => a1 = a2
  BY DEF AlertsInv
<1>4. \A a \in alerts' : a.read => a.seen
  OBVIOUS
<1>5. \A u \in Employees : chosen'[u] # None =>
         /\ \A n \in chosen'[u] : n <= calls'
         /\ \A a \in alerts' : a.to = u /\ a.call \in chosen'[u] => a.seen
  OBVIOUS
<1> QED BY <1>1, <1>2, <1>3, <1>4, <1>5 DEF AlertsInv

LEMMA AlertsStep ==
    ASSUME AlertsTypeOK, AlertsInv, [AlertsNext]_alertVars
    PROVE  AlertsTypeOK' /\ AlertsInv'
<1> USE AlertsAssumption
<1>1. ASSUME NEW u \in Employees \cup {None}, NEW b \in Wards \cup {None},
             NotifyUserOrDepartment(u, b)
      PROVE  AlertsTypeOK' /\ AlertsInv'
  <2>1. PICK us \in Targets(u, b) : NotifyUsers(us)
    BY <1>1 DEF NotifyUserOrDepartment
  <2>2. us \subseteq Employees
    BY <2>1 DEF Targets, Addressed, Belong, DeskMembers, Admins
  <2> QED BY <2>1, <2>2, NotifyUsersSteps
<1>2. CASE NotifySupervisors
  <2>1. Supervisors \subseteq Employees
    BY DEF Supervisors
  <2> QED BY <1>2, <2>1, NotifyUsersSteps DEF NotifySupervisors
<1>3. ASSUME NEW author \in Employees, NEW names, WriteNote(author, names)
      PROVE  AlertsTypeOK' /\ AlertsInv'
  <2>1. Mentioned(author, names) \subseteq Employees
    BY DEF Mentioned
  <2> QED BY <1>3, <2>1, NotifyUsersSteps DEF WriteNote
<1>4. ASSUME NEW u \in Employees, NEW n \in 1 .. MaxCalls, ReadAlert(u, n)
      PROVE  AlertsTypeOK' /\ AlertsInv'
  <2> DEFINE f == [a \in alerts |-> IF a.to = u /\ a.call \in {n}
                                    THEN [a EXCEPT !.read = TRUE, !.seen = TRUE] ELSE a]
  <2>1. /\ alerts' = {f[a] : a \in alerts}
        /\ UNCHANGED <<posting, calls, chosen>>
    BY <1>4 DEF ReadAlert, Mark
  <2>2. ASSUME NEW a \in alerts
        PROVE  /\ f[a] \in AlertRow
               /\ f[a].call = a.call /\ f[a].to = a.to
               /\ a.seen => f[a].seen
               /\ f[a].read => f[a].seen
    <3>1. a.read => a.seen
      BY DEF AlertsInv
    <3> QED BY <3>1, AlertRows DEF AlertRow
  <2>3. chosen' \in [Employees -> {None} \cup SUBSET (1 .. MaxCalls)]
    BY <2>1 DEF AlertsTypeOK
  <2>4. \A v \in Employees : chosen'[v] # None =>
           /\ \A i \in chosen'[v] : i <= calls
           /\ \A a \in alerts : a.to = v /\ a.call \in chosen'[v] => f[a].seen
    BY <2>1, <2>2 DEF AlertsInv
  <2> HIDE DEF f
  <2> QED BY <2>1, <2>2, <2>3, <2>4, RowsRewritten
<1>5. ASSUME NEW u \in Employees, MarkAllSelects(u) PROVE AlertsTypeOK' /\ AlertsInv'
  <2> DEFINE f == [a \in alerts |-> IF a.to = u THEN [a EXCEPT !.seen = TRUE] ELSE a]
  <2>1. /\ alerts' = {f[a] : a \in alerts}
        /\ chosen' = [chosen EXCEPT ![u] = UnreadAlerts(u)]
        /\ UNCHANGED <<posting, calls>>
    BY <1>5 DEF MarkAllSelects
  <2>2. ASSUME NEW a \in alerts
        PROVE  /\ f[a] \in AlertRow
               /\ f[a].call = a.call /\ f[a].to = a.to
               /\ a.seen => f[a].seen
               /\ a.to = u => f[a].seen
               /\ f[a].read => f[a].seen
    <3>1. a.read => a.seen
      BY DEF AlertsInv
    <3> QED BY <3>1, AlertRows DEF AlertRow
  <2>3. /\ UnreadAlerts(u) \subseteq 1 .. MaxCalls
        /\ \A n \in UnreadAlerts(u) : n <= calls
    BY AlertRows DEF UnreadAlerts, AlertsInv
  <2>4. chosen' \in [Employees -> {None} \cup SUBSET (1 .. MaxCalls)]
    BY <2>1, <2>3 DEF AlertsTypeOK
  <2>5. ASSUME NEW v \in Employees, chosen'[v] # None
        PROVE  /\ \A i \in chosen'[v] : i <= calls
               /\ \A a \in alerts : a.to = v /\ a.call \in chosen'[v] => f[a].seen
    <3>1. CASE v = u
      <4>1. chosen'[v] = UnreadAlerts(u)
        BY <2>1, <3>1 DEF AlertsTypeOK
      <4> QED BY <2>2, <2>3, <3>1, <4>1
    <3>2. CASE v # u
      <4>1. chosen'[v] = chosen[v]
        BY <2>1, <3>2 DEF AlertsTypeOK
      <4> QED BY <2>2, <2>5, <4>1 DEF AlertsInv
    <3> QED BY <3>1, <3>2
  <2> HIDE DEF f
  <2> QED BY <2>1, <2>2, <2>4, <2>5, RowsRewritten
<1>6. ASSUME NEW u \in Employees, MarkAllCommits(u) PROVE AlertsTypeOK' /\ AlertsInv'
  <2> DEFINE f == [a \in alerts |-> IF a.to = u /\ a.call \in chosen[u]
                                    THEN [a EXCEPT !.read = TRUE] ELSE a]
  <2>1. /\ alerts' = {f[a] : a \in alerts}
        /\ chosen[u] # None
        /\ chosen' = [chosen EXCEPT ![u] = None]
        /\ UNCHANGED <<posting, calls>>
    BY <1>6 DEF MarkAllCommits, Written
  <2>2. ASSUME NEW a \in alerts
        PROVE  /\ f[a] \in AlertRow
               /\ f[a].call = a.call /\ f[a].to = a.to
               /\ a.seen => f[a].seen
               /\ f[a].read => f[a].seen
    <3>1. a.read => a.seen
      BY DEF AlertsInv
    <3>2. a.to = u /\ a.call \in chosen[u] => a.seen
      BY <2>1 DEF AlertsInv
    <3> QED BY <3>1, <3>2, AlertRows DEF AlertRow
  <2>3. chosen' \in [Employees -> {None} \cup SUBSET (1 .. MaxCalls)]
    BY <2>1 DEF AlertsTypeOK
  <2>4. \A v \in Employees : chosen'[v] # None => chosen'[v] = chosen[v]
    BY <2>1 DEF AlertsTypeOK
  <2>5. \A v \in Employees : chosen'[v] # None =>
           /\ \A i \in chosen'[v] : i <= calls
           /\ \A a \in alerts : a.to = v /\ a.call \in chosen'[v] => f[a].seen
    BY <2>2, <2>4 DEF AlertsInv
  <2> HIDE DEF f
  <2> QED BY <2>1, <2>2, <2>3, <2>5, RowsRewritten
<1>7. ASSUME NEW u \in Employees, MarkAllFails(u) PROVE AlertsTypeOK' /\ AlertsInv'
  BY <1>7 DEF MarkAllFails, AlertsTypeOK, AlertsInv
<1>8. ASSUME NEW u \in Employees, NEW p \in Postings, Repost(u, p)
      PROVE  AlertsTypeOK' /\ AlertsInv'
  BY <1>8 DEF Repost, AlertsTypeOK, AlertsInv
<1>9. CASE UNCHANGED alertVars
  BY <1>9 DEF alertVars, AlertsTypeOK, AlertsInv
<1> QED
  BY <1>1, <1>2, <1>3, <1>4, <1>5, <1>6, <1>7, <1>8, <1>9 DEF AlertsNext

LEMMA AlertsAlways == AlertsSpec => [](AlertsTypeOK /\ AlertsInv)
<1>1. AlertsInit => AlertsTypeOK /\ AlertsInv
  BY AlertsAssumption DEF AlertsInit, AlertsTypeOK, AlertsInv, Postings
<1>2. AlertsTypeOK /\ AlertsInv /\ [AlertsNext]_alertVars => (AlertsTypeOK /\ AlertsInv)'
  BY AlertsStep
<1> QED BY <1>1, <1>2, PTL DEF AlertsSpec

\* However often members are reposted and departments are empty, a notification reaches
\* somebody as long as there is an administrator, nobody has it twice, and no request that
\* marks all as read ever marks one that came after it (notifications.py:27-31, 50-58, 88-95).
THEOREM AlertsAlwaysLand == AlertsSpec => []AlertsLand
<1>1. AlertsInv => AlertsLand
  <2> SUFFICES ASSUME Admins # {}, NEW u \in Employees \cup {None}, NEW b \in Wards \cup {None}
               PROVE  {} \notin Targets(u, b)
    BY DEF AlertsLand, AlertsInv
  <2> QED BY DEF Targets
<1> QED BY <1>1, AlertsAlways, PTL

(***************************************************************************)
(* The lists of the inbox                                                  *)
(***************************************************************************)

Truth == {"true", "false", "null"}

\* Conditions of SQL, as far as a WHERE clause can tell.
LEMMA IsTruth == \A p \in BOOLEAN : /\ Is(p) \in {"true", "false"}
                                    /\ Is(p) = "true" <=> p
BY DEF Is

LEMMA NotTruth == \A p \in Truth : /\ Not(p) \in Truth
                                   /\ Not(p) = "true" <=> p = "false"
                                   /\ Not(p) = "false" <=> p = "true"
BY DEF Not, Truth

LEMMA AndTruth ==
    ASSUME NEW ps \in SUBSET Truth
    PROVE  /\ And(ps) \in Truth
           /\ And(ps) = "true" <=> \A p \in ps : p = "true"
           /\ And(ps) = "false" <=> "false" \in ps
BY DEF And, Truth

LEMMA OrTruth ==
    ASSUME NEW ps \in SUBSET Truth
    PROVE  /\ Or(ps) \in Truth
           /\ Or(ps) = "true" <=> "true" \in ps
           /\ Or(ps) = "false" <=> \A p \in ps : p = "false"
<1> DEFINE qs == {Not(p) : p \in ps}
<1>1. qs \in SUBSET Truth
  BY NotTruth
<1>2. And(qs) \in Truth /\ (And(qs) = "true" <=> \A q \in qs : q = "true")
      /\ (And(qs) = "false" <=> "false" \in qs)
  BY <1>1, AndTruth
<1>3. (\A q \in qs : q = "true") <=> \A p \in ps : p = "false"
  BY NotTruth
<1>4. "false" \in qs <=> "true" \in ps
  BY NotTruth
<1> QED BY <1>2, <1>3, <1>4, NotTruth DEF Or

\* The mark in Python and the condition in SQL say the same, whatever is NULL.
LEMMA AwaitsIs ==
    ASSUME NEW c \in ThreadRow
    PROVE  Awaits(c) \in {"true", "false"} /\ (Awaits(c) = "true" <=> Badge(c))
<1> USE DeskAssumption
<1>1. /\ c.wrote \in Nat \cup {None} /\ c.answered \in Nat \cup {None} /\ None \notin Nat
  BY DEF ThreadRow, Hours
<1> DEFINE wrote == Is(c.wrote # None)
           none == Is(c.answered = None)
           early == Before(c.answered, c.wrote)
<1>2. /\ wrote \in {"true", "false"} /\ (wrote = "true" <=> c.wrote # None)
      /\ none \in {"true", "false"} /\ (none = "true" <=> c.answered = None)
  BY DEF Is
<1>3. /\ early \in Truth
      /\ c.wrote # None /\ c.answered # None =>
             early \in {"true", "false"} /\ (early = "true" <=> c.answered < c.wrote)
      /\ c.answered = None => early = "null"
  BY <1>1 DEF Before, Is, Truth
<1> HIDE DEF wrote, none, early
<1> DEFINE either == Or({none, early})
<1>4. /\ either \in Truth
      /\ either = "true" <=> none = "true" \/ early = "true"
      /\ either = "false" <=> none = "false" /\ early = "false"
  <2>1. {none, early} \in SUBSET Truth
    BY <1>2, <1>3 DEF Truth
  <2> QED BY <2>1, OrTruth
<1> HIDE DEF either
<1>5. /\ And({wrote, either}) \in Truth
      /\ And({wrote, either}) = "true" <=> wrote = "true" /\ either = "true"
      /\ And({wrote, either}) = "false" <=> wrote = "false" \/ either = "false"
  <2>1. {wrote, either} \in SUBSET Truth
    BY <1>2, <1>4 DEF Truth
  <2> QED BY <2>1, AndTruth
<1>6. Awaits(c) = And({wrote, either})
  BY DEF Awaits, wrote, either, none, early
<1> QED BY <1>1, <1>2, <1>3, <1>4, <1>5, <1>6 DEF Truth, Badge

\* What the list of the resolved comes to.
Settled(c) ==
    /\ c.status = "open" /\ c.wrote # None
    /\ c.wrote + Silence < oclock
    /\ ~Badge(c) /\ ~pending

LEMMA SettlesIs ==
    ASSUME DeskTypeOK, NEW c \in ThreadRow
    PROVE  Settles(c) \in {"true", "false"} /\ (Settles(c) = "true" <=> Settled(c))
<1> USE DeskAssumption
<1>1. c.wrote \in Nat \cup {None} /\ None \notin Nat /\ oclock \in Nat /\ pending \in BOOLEAN
      /\ Silence \in Nat
  BY DEF ThreadRow, Hours, DeskTypeOK
<1> DEFINE open == Is(c.status = "open")
           wrote == Is(c.wrote # None)
           silent == IF c.wrote = None THEN "null" ELSE Is(c.wrote + Silence < oclock)
           calm == Not(Awaits(c))
           free == Not(Is(pending))
           ps == {open, wrote, silent, calm, free}
<1>2. /\ open \in {"true", "false"} /\ (open = "true" <=> c.status = "open")
      /\ wrote \in {"true", "false"} /\ (wrote = "true" <=> c.wrote # None)
  BY DEF Is
<1>3. /\ silent \in Truth
      /\ c.wrote # None => silent \in {"true", "false"}
                              /\ (silent = "true" <=> c.wrote + Silence < oclock)
  BY DEF Is, Truth
<1>4. calm \in {"true", "false"} /\ (calm = "true" <=> ~Badge(c))
  BY AwaitsIs, NotTruth DEF Truth
<1>5. free \in {"true", "false"} /\ (free = "true" <=> ~pending)
  BY <1>1, NotTruth DEF Is, Truth
<1>6. Settles(c) = And(ps)
  BY DEF Settles
<1> HIDE DEF open, wrote, silent, calm, free
<1>7. ps \in SUBSET Truth
  BY <1>2, <1>3, <1>4, <1>5 DEF Truth
<1>8. /\ And(ps) \in Truth
      /\ And(ps) = "true" <=> \A p \in ps : p = "true"
      /\ And(ps) = "false" <=> "false" \in ps
  BY <1>7, AndTruth
<1>9. (\A p \in ps : p = "true") <=> Settled(c)
  BY <1>2, <1>3, <1>4, <1>5 DEF Settled
<1>10. ~Settled(c) => "false" \in ps
  BY <1>2, <1>3, <1>4, <1>5 DEF Settled
<1> QED BY <1>6, <1>8, <1>9, <1>10

LEMMA InQueueIs ==
    ASSUME DeskTypeOK, NEW c \in ThreadRow
    PROVE  /\ InQueue(c) \in {"true", "false"}
           /\ InQueue(c) = "true" <=> c.status = "open" /\ ~Settled(c)
<1> DEFINE open == Is(c.status = "open")
           rest == Not(Settles(c))
<1>1. open \in {"true", "false"} /\ (open = "true" <=> c.status = "open")
  BY DEF Is
<1>2. rest \in {"true", "false"} /\ (rest = "true" <=> ~Settled(c))
  BY SettlesIs, NotTruth DEF Truth
<1>3. InQueue(c) = And({open, rest})
  BY DEF InQueue
<1> HIDE DEF open, rest
<1>4. {open, rest} \in SUBSET Truth
  BY <1>1, <1>2 DEF Truth
<1>5. /\ And({open, rest}) = "true" <=> open = "true" /\ rest = "true"
      /\ And({open, rest}) = "false" <=> open = "false" \/ rest = "false"
  BY <1>4, AndTruth
<1> QED BY <1>1, <1>2, <1>3, <1>5

LEMMA ListsAre ==
    ASSUME DeskTypeOK, NEW c \in ThreadRow
    PROVE  /\ Lists(c) \subseteq {"all", "unassigned", "resolved", "archived", "snoozed"}
           /\ "all" \in Lists(c) <=> c.status = "open" /\ ~Settled(c)
           /\ "resolved" \in Lists(c) <=> Settled(c)
           /\ "archived" \in Lists(c) <=> c.status = "archived"
           /\ "snoozed" \in Lists(c) <=> c.status = "snoozed"
           /\ "unassigned" \in Lists(c) <=> /\ c.status = "open" /\ ~Settled(c)
                                            /\ c.agent = None /\ c.branch = None
<1> DEFINE L == InList(c)
           nobody == Is(c.agent = None)
           nowhere == Is(c.branch = None)
           queue == InQueue(c)
<1>1. /\ nobody \in {"true", "false"} /\ (nobody = "true" <=> c.agent = None)
      /\ nowhere \in {"true", "false"} /\ (nowhere = "true" <=> c.branch = None)
  BY DEF Is
<1>2. queue \in {"true", "false"} /\ (queue = "true" <=> c.status = "open" /\ ~Settled(c))
  BY InQueueIs
<1>3. /\ DOMAIN L = {"all", "unassigned", "resolved", "archived", "snoozed"}
      /\ L["all"] = queue
      /\ L["unassigned"] = And({queue, nobody, nowhere})
      /\ L["resolved"] = Settles(c)
      /\ L["archived"] = Is(c.status = "archived")
      /\ L["snoozed"] = Is(c.status = "snoozed")
  BY DEF InList
<1>4. Is(c.status = "archived") = "true" <=> c.status = "archived"
  BY DEF Is
<1>5. Is(c.status = "snoozed") = "true" <=> c.status = "snoozed"
  BY DEF Is
<1> HIDE DEF nobody, nowhere, queue
<1>6. And({queue, nobody, nowhere}) = "true" <=>
          queue = "true" /\ nobody = "true" /\ nowhere = "true"
  <2>1. {queue, nobody, nowhere} \in SUBSET Truth
    BY <1>1, <1>2 DEF Truth
  <2> QED BY <2>1, AndTruth
<1>7. Lists(c) = {f \in DOMAIN L : L[f] = "true"}
  BY DEF Lists
<1> HIDE DEF L
<1> QED BY <1>1, <1>2, <1>3, <1>4, <1>5, <1>6, <1>7, SettlesIs

LEMMA DeskListed == DeskTypeOK => ListedOnce
<1> SUFFICES ASSUME DeskTypeOK PROVE ListedOnce
  OBVIOUS
<1> USE DeskAssumption
<1> DEFINE c == thread
           ls == Lists(c) \ {"unassigned"}
<1>1. /\ c \in ThreadRow /\ c.status \in {"open", "snoozed", "archived"}
      /\ c.agent \in Agents \cup {None} /\ c.branch \in Branches \cup {None}
  BY DEF DeskTypeOK, ThreadRow
<1> HIDE DEF c
<1>2. Settled(c) => c.status = "open" /\ ~Badge(c)
  BY DEF Settled
<1>3. Cardinality(ls) = 1
  <2>1. CASE c.status = "open" /\ ~Settled(c)
    <3>1. ls = {"all"}
      BY <1>1, <2>1, ListsAre
    <3> QED BY <3>1, FS_Singleton
  <2>2. CASE Settled(c)
    <3>1. ls = {"resolved"}
      BY <1>1, <1>2, <2>2, ListsAre
    <3> QED BY <3>1, FS_Singleton
  <2>3. CASE c.status = "archived"
    <3>1. ls = {"archived"}
      BY <1>1, <1>2, <2>3, ListsAre
    <3> QED BY <3>1, FS_Singleton
  <2>4. CASE c.status = "snoozed"
    <3>1. ls = {"snoozed"}
      BY <1>1, <1>2, <2>4, ListsAre
    <3> QED BY <3>1, FS_Singleton
  <2> QED BY <1>1, <2>1, <2>2, <2>3, <2>4
<1>4. Badge(c) <=> Awaits(c) = "true"
  BY <1>1, AwaitsIs
<1>5. Badge(c) /\ c.status = "open" => "all" \in Lists(c)
  BY <1>1, <1>2, ListsAre
<1>6. ASSUME "unassigned" \in Lists(c), NEW u \in Agents PROVE OwnedBy(c, u) # "true"
  <2>1. c.agent = None
    BY <1>1, <1>6, ListsAre
  <2>2. Equals(c.agent, u) = "null"
    BY <2>1 DEF Equals
  <2>3. {InQueue(c), Equals(c.agent, u)} \in SUBSET Truth
    BY <1>1, <2>2, InQueueIs DEF Truth
  <2> QED BY <2>2, <2>3, AndTruth DEF OwnedBy
<1>7. ASSUME "all" \in Lists(c), "unassigned" \notin Lists(c)
      PROVE  \/ \E u \in Agents : OwnedBy(c, u) = "true"
             \/ \E b \in Branches : \A u \in Agents : Scope(c, u, b) = "true"
  <2>1. /\ c.agent # None \/ c.branch # None
        /\ c.status = "open" /\ ~Settled(c)
    BY <1>1, <1>7, ListsAre
  <2>2. CASE c.agent # None
    <3>1. c.agent \in Agents /\ Equals(c.agent, c.agent) = "true" /\ InQueue(c) = "true"
      BY <1>1, <2>1, <2>2, InQueueIs DEF Equals, Is
    <3>2. {InQueue(c), Equals(c.agent, c.agent)} \in SUBSET Truth
      BY <3>1 DEF Truth
    <3>3. OwnedBy(c, c.agent) = "true"
      BY <3>1, <3>2, AndTruth DEF OwnedBy
    <3> QED BY <3>1, <3>3
  <2>3. CASE c.branch # None
    <3>1. c.branch \in Branches /\ c.branch # None /\ Equals(c.branch, c.branch) = "true"
      BY <1>1, <2>3 DEF Equals, Is
    <3>2. ASSUME NEW u \in Agents PROVE Scope(c, u, c.branch) = "true"
      <4>1. Equals(c.agent, u) \in Truth
        BY DEF Equals, Is, Truth
      <4>2. {Equals(c.agent, u), Equals(c.branch, c.branch)} \in SUBSET Truth
        BY <3>1, <4>1 DEF Truth
      <4> QED BY <3>1, <4>2, OrTruth DEF Scope
    <3> QED BY <3>1, <3>2
  <2> QED BY <2>1, <2>2, <2>3
<1> QED BY <1>3, <1>4, <1>5, <1>6, <1>7 DEF ListedOnce, c

LEMMA DeskStep == DeskTypeOK /\ [DeskNext]_deskVars => DeskTypeOK'
<1> SUFFICES ASSUME DeskTypeOK, [DeskNext]_deskVars PROVE DeskTypeOK'
  OBVIOUS
<1> USE DeskAssumption
<1>0. /\ thread \in ThreadRow /\ pending \in BOOLEAN /\ oclock \in Hours
      /\ thread.agent \in Agents \cup {None} /\ thread.branch \in Branches \cup {None}
      /\ thread.status \in {"open", "snoozed", "archived"}
  BY DEF DeskTypeOK, ThreadRow
<1>1. ASSUME NEW keyword \in BOOLEAN, Writes(keyword) PROVE DeskTypeOK'
  BY <1>0, <1>1 DEF Writes, Reopened, DeskTypeOK, ThreadRow
<1>2. CASE Answer
  BY <1>0, <1>2 DEF Answer, DeskTypeOK, ThreadRow
<1>3. ASSUME NEW clear \in BOOLEAN, NEW u \in Agents \cup {None}, NEW b \in Branches \cup {None},
             NEW status \in {"open", "snoozed", "archived", None},
             PatchThread(clear, u, b, status)
      PROVE  DeskTypeOK'
  <2> DEFINE agent == CASE u # None -> u [] clear \/ b # None -> None [] OTHER -> thread.agent
             branch == IF b # None THEN b ELSE IF clear THEN None ELSE thread.branch
             state == IF status # None THEN status ELSE thread.status
  <2>1. thread' = [thread EXCEPT !.agent = agent, !.branch = branch, !.status = state]
        /\ UNCHANGED <<pending, oclock>>
    BY <1>3 DEF PatchThread
  <2>2. agent \in Agents \cup {None}
    <3>1. CASE u # None
      BY <3>1
    <3>2. CASE u = None /\ (clear \/ b # None)
      BY <3>2
    <3>3. CASE u = None /\ ~(clear \/ b # None)
      BY <1>0, <3>3
    <3> QED BY <3>1, <3>2, <3>3
  <2>3. branch \in Branches \cup {None} /\ state \in {"open", "snoozed", "archived"}
    BY <1>0
  <2> HIDE DEF agent, branch, state
  <2>4. thread' \in ThreadRow
    BY <1>0, <2>1, <2>2, <2>3 DEF ThreadRow
  <2> QED BY <1>0, <2>1, <2>4 DEF DeskTypeOK
<1>4. CASE WakeThread
  BY <1>0, <1>4 DEF WakeThread, DeskTypeOK, ThreadRow
<1>5. CASE TurnPending
  <2>1. pending' \in BOOLEAN /\ UNCHANGED <<thread, oclock>>
    BY <1>5 DEF TurnPending
  <2> QED BY <1>0, <2>1 DEF DeskTypeOK
<1>6. CASE HourPasses
  <2>1. oclock' \in Hours /\ UNCHANGED <<thread, pending>>
    BY <1>0, <1>6 DEF HourPasses, Hours
  <2> QED BY <1>0, <2>1 DEF DeskTypeOK
<1>7. CASE UNCHANGED deskVars
  BY <1>7 DEF deskVars, DeskTypeOK
<1> QED BY <1>1, <1>2, <1>3, <1>4, <1>5, <1>6, <1>7 DEF DeskNext

LEMMA DeskAlways == DeskSpec => []DeskTypeOK
<1>1. DeskInit => DeskTypeOK
  <2>1. 0 \in Hours
    BY DeskAssumption DEF Hours
  <2>2. [status |-> "open", wrote |-> 0, answered |-> None, agent |-> None, branch |-> None]
            \in ThreadRow
    BY <2>1 DEF ThreadRow
  <2> QED BY <2>1, <2>2 DEF DeskInit, DeskTypeOK
<1> QED BY <1>1, DeskStep, PTL DEF DeskSpec

\* Whatever is NULL, a conversation is in exactly one of the lists of the inbox, the mark
\* beside a guest who waits is what the queue counts, who waits is in the queue, and what is
\* in the queue is unassigned, somebody's, or a department's that sees it
\* (conversations.py:103-158, 177-180).
THEOREM AlwaysListedOnce == DeskSpec => []ListedOnce
BY DeskAlways, DeskListed, PTL

----------------------------------------------------------------------------
\* The feed of the log.

\* Whether a reader who was given this cursor is past an entry.
PassedBy(cursor, e) == cursor = None \/ ~Older(PlaceOf(e), cursor)

\* Entries somebody sees are stamped and finitely many.  A reader has seen exactly those that
\* were there and that they have passed, and of the later ones only such as they have passed.
FeedInv ==
    /\ FeedTypeOK
    /\ IsFiniteSet(visible)
    /\ \A e \in visible : stampedAt[e] # None
    /\ reader # None =>
         /\ reader.there \subseteq visible
         /\ \A e \in Notices :
              /\ reader.seen[e] \in {0, 1}
              /\ reader.seen[e] = 1 => e \in visible /\ PassedBy(reader.next, e)
              /\ e \in reader.there /\ PassedBy(reader.next, e) => reader.seen[e] = 1

\* A place is a number and an entry, and no NULL.
LEMMA PlacesCompare ==
    ASSUME NEW x \in FeedCursor PROVE x.at \in Nat /\ x.id \in Nat /\ x # None
<1>1. Notices \subseteq Nat /\ LastStamp \in Nat /\ None \notin FeedCursor
  BY FeedAssumption, Zenon
<1>2. x.at \in 0 .. LastStamp /\ x.id \in Notices
  BY Zenon DEF FeedCursor
<1>3. x # None
  BY <1>1, Zenon
<1>4. LastStamp \in Nat /\ Notices \subseteq Nat
  BY <1>1
<1>5. x.at \in Nat
  BY <1>2, <1>4
<1>6. x.id \in Nat
  BY <1>2, <1>4
<1> QED BY <1>3, <1>5, <1>6, Zenon

\* (created_at, id) orders the entries that are stamped (log.py:343-350).
LEMMA PlacesOrdered ==
    ASSUME FeedTypeOK, NEW S \in SUBSET visible, \A e \in visible : stampedAt[e] # None
    PROVE  /\ \A e \in S : PlaceOf(e) \in FeedCursor /\ PlaceOf(e) # None
           /\ \A x, y, z \in FeedCursor : Older(x, y) /\ Older(y, z) => Older(x, z)
           /\ \A x \in FeedCursor : ~Older(x, x)
           /\ \A d, e \in S : Older(PlaceOf(d), PlaceOf(e)) \/ Older(PlaceOf(e), PlaceOf(d)) \/ d = e
<1>1. \A x \in FeedCursor : x.at \in Nat /\ x.id \in Nat /\ x # None
  BY PlacesCompare
<1>0. Notices \subseteq Nat /\ LastStamp \in Nat
  BY FeedAssumption
<1>2. \A e \in S : e \in Nat /\ stampedAt[e] \in 0 .. LastStamp /\ stampedAt[e] \in Nat
  BY <1>0 DEF FeedTypeOK
<1>3. \A e \in S : PlaceOf(e) \in FeedCursor /\ PlaceOf(e) # None
  <2>1. \A e \in S : PlaceOf(e) \in FeedCursor
    BY <1>2 DEF FeedTypeOK, FeedCursor, PlaceOf
  <2> QED BY <1>1, <2>1
<1>4. \A x, y, z \in FeedCursor : Older(x, y) /\ Older(y, z) => Older(x, z)
  BY <1>1 DEF Older
<1>5. \A x \in FeedCursor : ~Older(x, x)
  BY <1>1 DEF Older
<1>6. \A d, e \in S : Older(PlaceOf(d), PlaceOf(e)) \/ Older(PlaceOf(e), PlaceOf(d)) \/ d = e
  BY <1>2 DEF Older, PlaceOf
<1> QED BY <1>3, <1>4, <1>5, <1>6

\* Of a set with an entry there is one with nothing newer, and one with nothing older: the
\* first and the last row of a listing.
LEMMA FirstAndLast ==
    ASSUME FeedTypeOK, NEW S \in SUBSET visible, S # {}, IsFiniteSet(S),
           \A e \in visible : stampedAt[e] # None
    PROVE  /\ \E e \in S : NewerIn(S, e) = {}
           /\ OldestOf(S) \in S
           /\ \A d \in S : ~Older(PlaceOf(d), PlaceOf(OldestOf(S)))
<1>1. /\ \A e \in S : PlaceOf(e) \in FeedCursor /\ PlaceOf(e) # None
      /\ \A x, y, z \in FeedCursor : Older(x, y) /\ Older(y, z) => Older(x, z)
      /\ \A x \in FeedCursor : ~Older(x, x)
  BY PlacesOrdered
<1> DEFINE OlderIn(e) == {d \in S : Older(PlaceOf(d), PlaceOf(e))}
<1>4. \A e \in S : Cardinality(NewerIn(S, e)) \in Nat /\ Cardinality(OlderIn(e)) \in Nat
  <2>1. \A e \in S : NewerIn(S, e) \subseteq S /\ OlderIn(e) \subseteq S
    BY DEF NewerIn
  <2> QED BY <2>1, FS_Subset, FS_CardinalityType
<1>2. ASSUME NEW e \in S, NewerIn(S, e) # {}
      PROVE  \E d \in S : Cardinality(NewerIn(S, d)) < Cardinality(NewerIn(S, e))
  <2>1. PICK d \in S : Older(PlaceOf(e), PlaceOf(d))
    BY <1>2 DEF NewerIn
  <2>2. NewerIn(S, d) \subseteq NewerIn(S, e) /\ d \in NewerIn(S, e) /\ d \notin NewerIn(S, d)
    BY <1>1, <2>1 DEF NewerIn
  <2>3. IsFiniteSet(NewerIn(S, e))
    BY FS_Subset DEF NewerIn
  <2> QED BY <2>2, <2>3, FewerThan
<1>3. ASSUME NEW e \in S, OlderIn(e) # {}
      PROVE  \E d \in S : Cardinality(OlderIn(d)) < Cardinality(OlderIn(e))
  <2>1. PICK d \in S : Older(PlaceOf(d), PlaceOf(e))
    BY <1>3
  <2>2. OlderIn(d) \subseteq OlderIn(e) /\ d \in OlderIn(e) /\ d \notin OlderIn(d)
    BY <1>1, <2>1
  <2>3. IsFiniteSet(OlderIn(e))
    BY FS_Subset
  <2> QED BY <2>2, <2>3, FewerThan
<1>5. \E e \in S : NewerIn(S, e) = {}
  <2> DEFINE T == {Cardinality(NewerIn(S, e)) : e \in S}
  <2>0. T \in SUBSET Nat /\ T # {}
    BY <1>4
  <2>1. PICK m \in T : \A k \in T : m <= k
    BY <2>0, LeastNumber, Zenon
  <2>2. PICK e \in S : m = Cardinality(NewerIn(S, e))
    OBVIOUS
  <2>3. \A d \in S : m <= Cardinality(NewerIn(S, d))
    BY <2>1
  <2>4. ASSUME NEW d \in S PROVE ~(Cardinality(NewerIn(S, d)) < Cardinality(NewerIn(S, e)))
    <3>1. Cardinality(NewerIn(S, e)) \in Nat /\ Cardinality(NewerIn(S, d)) \in Nat
      BY <1>4
    <3>2. Cardinality(NewerIn(S, e)) <= Cardinality(NewerIn(S, d))
      BY <2>2, <2>3
    <3> QED BY <3>1, <3>2
  <2> QED BY <1>2, <2>4, Zenon
<1>6. \E e \in S : OlderIn(e) = {}
  <2> DEFINE T == {Cardinality(OlderIn(e)) : e \in S}
  <2>0. T \in SUBSET Nat /\ T # {}
    BY <1>4
  <2>1. PICK m \in T : \A k \in T : m <= k
    BY <2>0, LeastNumber, Zenon
  <2>2. PICK e \in S : m = Cardinality(OlderIn(e))
    OBVIOUS
  <2>3. \A d \in S : m <= Cardinality(OlderIn(d))
    BY <2>1
  <2>4. ASSUME NEW d \in S PROVE ~(Cardinality(OlderIn(d)) < Cardinality(OlderIn(e)))
    <3>1. Cardinality(OlderIn(e)) \in Nat /\ Cardinality(OlderIn(d)) \in Nat
      BY <1>4
    <3>2. Cardinality(OlderIn(e)) <= Cardinality(OlderIn(d))
      BY <2>2, <2>3
    <3> QED BY <3>1, <3>2
  <2> QED BY <1>3, <2>4, Zenon
<1>7. /\ OldestOf(S) \in S
      /\ \A d \in S : ~Older(PlaceOf(d), PlaceOf(OldestOf(S)))
  BY <1>6 DEF OldestOf
<1> QED BY <1>5, <1>7

\* A page has exactly the entries before its cursor that its next cursor is past, whatever
\* was passed stays passed, and its next cursor is an entry's place (log.py:343-350).
LEMMA PageIs ==
    ASSUME FeedInv, NEW cursor \in FeedCursor \cup {None}
    PROVE  /\ Page(cursor).next \in FeedCursor \cup {None}
           /\ Page(cursor).entries \subseteq Earlier(cursor)
           /\ \A e \in Earlier(cursor) :
                e \in Page(cursor).entries <=> PassedBy(Page(cursor).next, e)
           /\ \A e \in visible : e \notin Earlier(cursor) => PassedBy(Page(cursor).next, e)
<1> DEFINE found == Earlier(cursor)
           rows == NewestOf(found)
           last == OldestOf(rows)
<1>1. /\ Page(cursor).entries = rows
      /\ Page(cursor).next = IF Cardinality(found) > PageSize THEN PlaceOf(last) ELSE None
  BY DEF Page
<1>2. /\ found \subseteq visible /\ rows \subseteq found
      /\ IsFiniteSet(found) /\ IsFiniteSet(rows)
      /\ Cardinality(found) \in Nat
      /\ \A e \in found : /\ IsFiniteSet(NewerIn(found, e))
                          /\ Cardinality(NewerIn(found, e)) \in Nat
  <2>1. found \subseteq visible /\ rows \subseteq found
    BY DEF Earlier, NewestOf
  <2>2. IsFiniteSet(visible)
    BY DEF FeedInv
  <2>3. IsFiniteSet(found) /\ IsFiniteSet(rows)
    BY <2>1, <2>2, FS_Subset
  <2>4. \A e \in found : NewerIn(found, e) \subseteq found
    BY DEF NewerIn
  <2> QED BY <2>1, <2>3, <2>4, FS_Subset, FS_CardinalityType
<1>3. FeedTypeOK /\ \A e \in visible : stampedAt[e] # None
  BY DEF FeedInv
<1>4. /\ \A e \in visible : PlaceOf(e) \in FeedCursor /\ PlaceOf(e) # None
      /\ \A x, y, z \in FeedCursor : Older(x, y) /\ Older(y, z) => Older(x, z)
      /\ \A x \in FeedCursor : ~Older(x, x)
      /\ \A d, e \in visible : Older(PlaceOf(d), PlaceOf(e)) \/ Older(PlaceOf(e), PlaceOf(d)) \/ d = e
  BY <1>3, PlacesOrdered
<1>5. PageSize \in Nat \ {0}
  BY FeedAssumption
<1>6. CASE Cardinality(found) > PageSize
  <2>1. found # {}
    BY <1>5, <1>6, FS_EmptySet
  <2>2. PICK first \in found : NewerIn(found, first) = {}
    BY <1>2, <1>3, <2>1, FirstAndLast
  <2>3. first \in rows
    BY <1>5, <2>2, FS_EmptySet DEF NewestOf
  <2>4. last \in rows /\ \A d \in rows : ~Older(PlaceOf(d), PlaceOf(last))
    BY <1>2, <1>3, <2>3, FirstAndLast
  <2>5. Page(cursor).next = PlaceOf(last) /\ PlaceOf(last) \in FeedCursor
    BY <1>1, <1>2, <1>4, <1>6, <2>4
  <2>6. ASSUME NEW e \in found, ~Older(PlaceOf(e), PlaceOf(last)) PROVE e \in rows
    <3>1. NewerIn(found, e) \subseteq NewerIn(found, last)
      BY <1>2, <1>4, <2>4, <2>6 DEF NewerIn
    <3>2. Cardinality(NewerIn(found, e)) <= Cardinality(NewerIn(found, last))
      BY <1>2, <2>4, <3>1, FS_Subset
    <3>3. Cardinality(NewerIn(found, last)) < PageSize
      BY <2>4 DEF NewestOf
    <3>4. Cardinality(NewerIn(found, e)) < PageSize
      BY <1>2, <1>5, <2>4, <3>2, <3>3
    <3> QED BY <3>4 DEF NewestOf
  <2>7. ASSUME NEW e \in visible, e \notin found PROVE ~Older(PlaceOf(e), PlaceOf(last))
    <3>1. cursor \in FeedCursor /\ ~Older(PlaceOf(e), cursor)
      BY <2>7 DEF Earlier
    <3>2. Older(PlaceOf(last), cursor)
      BY <1>2, <2>4, <3>1, FeedAssumption DEF Earlier
    <3> QED BY <1>2, <1>4, <2>4, <3>1, <3>2
  <2> HIDE DEF rows, last, found
  <2>8. \A e \in found : e \in rows <=> ~Older(PlaceOf(e), PlaceOf(last))
    BY <2>4, <2>6
  <2>9. \A e \in visible : PassedBy(Page(cursor).next, e) <=> ~Older(PlaceOf(e), PlaceOf(last))
    BY <1>2, <1>4, <2>4, <2>5 DEF PassedBy
  <2> QED BY <1>1, <1>2, <2>5, <2>7, <2>8, <2>9 DEF found
<1>7. CASE ~(Cardinality(found) > PageSize)
  <2>1. ASSUME NEW e \in found PROVE e \in rows
    <3>1. NewerIn(found, e) \subseteq found /\ e \notin NewerIn(found, e)
      BY <1>2, <1>4 DEF NewerIn
    <3>2. Cardinality(NewerIn(found, e)) < Cardinality(found)
      BY <1>2, <3>1, FewerThan
    <3>3. Cardinality(NewerIn(found, e)) < PageSize
      BY <1>2, <1>5, <1>7, <3>2
    <3> QED BY <3>3 DEF NewestOf
  <2>2. Page(cursor).next = None
    BY <1>1, <1>7
  <2> QED BY <1>1, <1>2, <2>1, <2>2 DEF PassedBy
<1> QED BY <1>6, <1>7

LEMMA FeedInvInit == FeedInit => FeedInv
BY FeedAssumption, FS_EmptySet DEF FeedInit, FeedInv, FeedTypeOK

LEMMA FeedInvStep == FeedInv /\ [FeedNext]_feedVars => FeedInv'
<1> SUFFICES ASSUME FeedInv, [FeedNext]_feedVars PROVE FeedInv'
  OBVIOUS
<1> USE DEF FeedInv
\* What moves no entry that is seen, and no reader.
<1>k. ASSUME FeedTypeOK', IsFiniteSet(visible'), visible \subseteq visible', reader' = reader,
             \A e \in visible' : stampedAt'[e] # None,
             \A e \in visible : stampedAt'[e] = stampedAt[e]
      PROVE  FeedInv'
  <2>2. ASSUME reader # None, NEW e \in Notices, e \in visible
        PROVE  PassedBy(reader.next, e)' <=> PassedBy(reader.next, e)
    BY <1>k, <2>2 DEF PassedBy, PlaceOf, Older
  <2>3. reader # None => reader.there \subseteq visible
    OBVIOUS
  <2> QED BY <1>k, <2>2, <2>3
<1>1. ASSUME NEW e \in Notices, StampNotice(e) PROVE FeedInv'
  <2>1. FeedTypeOK'
    BY <1>1 DEF StampNotice, FeedTypeOK
  <2>2. \A d \in visible : stampedAt'[d] = stampedAt[d]
    BY <1>1 DEF StampNotice, FeedTypeOK
  <2> QED BY <1>1, <1>k, <2>1, <2>2 DEF StampNotice
<1>2. ASSUME NEW e \in Notices, CommitNotice(e) PROVE FeedInv'
  <2>1. FeedTypeOK'
    BY <1>2 DEF CommitNotice, FeedTypeOK
  <2>2. IsFiniteSet(visible')
    BY <1>2, FS_AddElement DEF CommitNotice
  <2> QED BY <1>2, <1>k, <2>1, <2>2 DEF CommitNotice
<1>3. ASSUME NEW e \in Notices, LoseNotice(e) PROVE FeedInv'
  <2>1. FeedTypeOK'
    BY <1>3 DEF LoseNotice, FeedTypeOK
  <2>2. \A d \in visible : stampedAt'[d] = stampedAt[d]
    BY <1>3 DEF LoseNotice, FeedTypeOK
  <2> QED BY <1>3, <1>k, <2>1, <2>2 DEF LoseNotice
<1>4. ASSUME NEW e \in Notices, NEW pinned \in BOOLEAN, PinNotice(e, pinned) PROVE FeedInv'
  <2>1. FeedTypeOK'
    BY <1>4 DEF PinNotice, FeedTypeOK
  <2> QED BY <1>4, <1>k, <2>1 DEF PinNotice
<1>5. CASE FeedElapse
  <2>1. FeedTypeOK'
    BY <1>5, FeedAssumption DEF FeedElapse, FeedTypeOK
  <2> QED BY <1>5, <1>k, <2>1 DEF FeedElapse
<1>6. CASE OpenFeed
  <2> DEFINE p == Page(None)
  <2>1. /\ reader' = [next |-> p.next, there |-> visible, top |-> p.pinned,
                       seen |-> [e \in Notices |-> IF e \in p.entries THEN 1 ELSE 0]]
        /\ UNCHANGED <<wallClock, stampedAt, visible, onTop>>
    BY <1>6 DEF OpenFeed
  <2>2. Earlier(None) = visible
    BY DEF Earlier
  <2>3. /\ p.next \in FeedCursor \cup {None}
        /\ p.entries \subseteq visible
        /\ \A e \in visible : e \in p.entries <=> PassedBy(p.next, e)
    BY <2>2, PageIs
  <2> HIDE DEF p
  <2>4. FeedTypeOK'
    <3>1. [e \in Notices |-> IF e \in p.entries THEN 1 ELSE 0] \in [Notices -> Nat]
      OBVIOUS
    <3>2. visible \in SUBSET Notices /\ p.pinned \in SUBSET Notices
      BY DEF p, Page, FeedTypeOK
    <3> QED BY <2>1, <2>3, <3>1, <3>2 DEF FeedTypeOK
  <2>5. \A e \in Notices : PassedBy(reader.next, e)' <=> PassedBy(p.next, e)
    BY <2>1 DEF PassedBy, PlaceOf
  <2> QED BY <2>1, <2>3, <2>4, <2>5 DEF FeedTypeOK
<1>7. CASE MoreFeed
  <2> DEFINE p == Page(reader.next)
  <2>1. /\ reader # None /\ reader.next # None
        /\ reader' = [reader EXCEPT !.next = p.next, !.top = p.pinned,
                          !.seen = [e \in Notices |-> @[e] + IF e \in p.entries THEN 1 ELSE 0]]
        /\ UNCHANGED <<wallClock, stampedAt, visible, onTop>>
    BY <1>7 DEF MoreFeed
  <2>2. /\ p.next \in FeedCursor \cup {None}
        /\ p.entries \subseteq Earlier(reader.next)
        /\ \A e \in Earlier(reader.next) : e \in p.entries <=> PassedBy(p.next, e)
        /\ \A e \in visible : e \notin Earlier(reader.next) => PassedBy(p.next, e)
    BY <2>1, PageIs DEF FeedTypeOK
  <2>3. \A e \in visible : e \in Earlier(reader.next) <=> ~PassedBy(reader.next, e)
    BY <2>1 DEF Earlier, PassedBy
  <2>4. Earlier(reader.next) \subseteq visible
    BY DEF Earlier
  <2> HIDE DEF p
  <2>5. \A e \in Notices : reader'.seen[e] = reader.seen[e] + IF e \in p.entries THEN 1 ELSE 0
    BY <2>1 DEF FeedTypeOK
  <2>6. reader'.next = p.next /\ reader'.there = reader.there /\ reader'.top = p.pinned
    BY <2>1 DEF FeedTypeOK
  <2>7. FeedTypeOK'
    <3>1. [e \in Notices |-> reader.seen[e] + IF e \in p.entries THEN 1 ELSE 0] \in [Notices -> Nat]
      BY <2>1 DEF FeedTypeOK
    <3>2. p.pinned \in SUBSET Notices
      BY DEF p, Page, FeedTypeOK
    <3> QED BY <2>1, <2>2, <3>1, <3>2 DEF FeedTypeOK
  <2>8. \A e \in Notices : PassedBy(reader.next, e)' <=> PassedBy(p.next, e)
    BY <2>1, <2>6 DEF PassedBy, PlaceOf
  <2>9. ASSUME NEW e \in Notices
        PROVE  /\ reader'.seen[e] \in {0, 1}
               /\ reader'.seen[e] = 1 => e \in visible /\ PassedBy(p.next, e)
               /\ e \in reader.there /\ PassedBy(p.next, e) => reader'.seen[e] = 1
    <3>1. /\ reader.seen[e] \in {0, 1}
          /\ reader.seen[e] = 1 => e \in visible /\ PassedBy(reader.next, e)
          /\ e \in reader.there /\ PassedBy(reader.next, e) => reader.seen[e] = 1
          /\ e \in reader.there => e \in visible
      BY <2>1
    <3>2. CASE e \in p.entries
      BY <2>2, <2>3, <2>4, <2>5, <3>1, <3>2
    <3>3. CASE e \notin p.entries
      <4>1. reader'.seen[e] = reader.seen[e]
        BY <2>5, <3>1, <3>3
      <4> QED BY <2>2, <2>3, <3>1, <3>3, <4>1
    <3> QED BY <3>2, <3>3
  <2> QED BY <2>1, <2>6, <2>7, <2>8, <2>9
<1>8. CASE UNCHANGED feedVars
  BY <1>8, <1>k DEF feedVars, FeedTypeOK
<1> QED BY <1>1, <1>2, <1>3, <1>4, <1>5, <1>6, <1>7, <1>8 DEF FeedNext

LEMMA FeedAlways == FeedSpec => []FeedInv
BY FeedInvInit, FeedInvStep, PTL DEF FeedSpec

\* Whoever reads the log page after page is shown no entry twice and, at the end, each that was
\* there when they began, for any number of entries, of one instant or not, and pages of any
\* length, whatever is posted, committed, lost or pinned meanwhile (log.py:343-350).
THEOREM PagesShowAllOnce == FeedSpec => []SeenOnce
<1>1. FeedInv => SeenOnce
  BY DEF FeedInv, SeenOnce, PassedBy, FeedTypeOK
<1> QED BY <1>1, FeedAlways, PTL

----------------------------------------------------------------------------
\* The forms of the log.

\* A field that was made has a label and a type, and a place of its own.
BoxesHold ==
    /\ \A b \in BoxMade : box[b].label \in Labels /\ box[b].type \in FormTypes
    /\ \A b, c \in BoxMade : box[b].position = box[c].position => b = c

PostHolds(r) ==
    report[r] # None =>
        /\ \E values \in Seq(ValueRow), notes \in Notes :
            /\ report[r] = [values |-> values, body |-> Summary(values) \o notes]
            /\ meant[r] = [values |-> values, notes |-> notes]
        /\ \A i \in DOMAIN report[r].values :
            LET v == report[r].values[i] IN v.field \in BoxMade /\ box[v.field].type = v.type

FormsInv ==
    /\ FormsTypeOK
    /\ meant \in [Reports -> {None} \cup [values : Seq(ValueRow), notes : Notes]]
    /\ BoxesHold
    /\ \A r \in Reports : PostHolds(r)

\* What was written is what is read: the lines of the values are cut off, the notes are left.
LEMMA NotesAreRead ==
    ASSUME NEW values \in Seq(ValueRow), NEW notes \in Notes
    PROVE  /\ Summary(values) \o notes \in Seq(BodyLine)
           /\ NotesOf(Summary(values) \o notes, values) = notes
<1> DEFINE s == Summary(values)
           body == s \o notes
<1>1. notes \in Seq(BodyLine)
  BY FormsAssumption
<1>2. ASSUME NEW i \in DOMAIN values PROVE s[i] \in BodyLine
  <2> DEFINE share == values[i].type = "percent"
  <2>1. values[i] \in ValueRow
    OBVIOUS
  <2>2. values[i].label \in Labels /\ values[i].value \in Answers
    BY <2>1 DEF ValueRow
  <2>3. s[i] = <<values[i].label, share, values[i].value>>
    BY DEF Summary
  <2>4. share \in BOOLEAN
    OBVIOUS
  <2> HIDE DEF share, s
  <2>5. s[i] \in Labels \X BOOLEAN \X Answers
    BY <2>2, <2>3, <2>4
  <2> QED BY <2>5 DEF BodyLine
<1>3. s \in Seq(BodyLine) /\ Len(s) = Len(values) /\ Len(s) \in Nat
  <2>1. DOMAIN s = 1 .. Len(values) /\ DOMAIN values = 1 .. Len(values) /\ Len(values) \in Nat
    BY DEF Summary
  <2>2. s = [i \in 1 .. Len(values) |-> s[i]]
    BY <2>1 DEF Summary
  <2> QED BY <1>2, <2>1, <2>2
<1> HIDE DEF s
<1>4. /\ body \in Seq(BodyLine) /\ Len(body) = Len(s) + Len(notes) /\ Len(notes) \in Nat
      /\ \A i \in 1 .. Len(s) : body[i] = s[i]
      /\ \A i \in 1 .. Len(notes) : body[Len(s) + i] = notes[i]
  BY <1>1, <1>3
<1>5. SubSeq(body, 1, Len(values)) = s /\ Len(values) <= Len(body)
  BY <1>1, <1>3, <1>4
<1>6. SubSeq(body, Len(values) + 1, Len(body)) = notes
  BY <1>1, <1>3, <1>4
<1> QED BY <1>4, <1>5, <1>6 DEF NotesOf, s

\* The fields that were made can be listed by their places.
LEMMA BoxesList ==
    ASSUME box \in [Boxes -> Box], BoxesHold, NEW bs \in SUBSET BoxMade
    PROVE  ListsAll(InOrder(bs), bs)
<1> DEFINE before == {p \in bs \X bs : box[p[1]].position < box[p[2]].position}
<1>1. IsFiniteSet(bs)
  <2>1. bs \subseteq Boxes
    BY DEF BoxMade
  <2> QED BY <2>1, FormsAssumption, FS_Subset
<1> DEFINE number == [b \in bs |-> box[b].position]
<1>2. number \in [bs -> Nat]
  <2>1. \A b \in bs : box[b].position \in Nat
    BY DEF BoxMade, Box
  <2> QED BY <2>1
<1>3. \A c, d \in bs : number[c] = number[d] => c = d
  BY DEF BoxesHold
<1>4. \A c, d \in bs : <<c, d>> \in before <=> number[c] < number[d]
  OBVIOUS
<1>5. InOrder(bs) = Listing(bs, before)
  BY DEF InOrder
<1> HIDE DEF before, number
<1> QED BY <1>1, <1>2, <1>3, <1>4, <1>5, ByNumber

LEMMA FormsInvInit == FormsInit => FormsInv
<1> SUFFICES ASSUME FormsInit PROVE FormsInv
  OBVIOUS
<1>1. Blank \in Box /\ Blank.state = "none"
  BY DEF Blank, Box
<1>2. FormsTypeOK /\ BoxMade = {}
  BY <1>1 DEF FormsInit, FormsTypeOK, BoxMade
<1>3. BoxesHold
  BY <1>2 DEF BoxesHold
<1>4. \A r \in Reports : PostHolds(r)
  BY DEF FormsInit, PostHolds
<1>5. meant \in [Reports -> {None} \cup [values : Seq(ValueRow), notes : Notes]]
  BY DEF FormsInit
<1> QED BY <1>2, <1>3, <1>4, <1>5 DEF FormsInv

\* Of a save with fields: each listed one stands in its place, the rest behind the shelf.
LEMMA SaveFormKeeps ==
    ASSUME FormsInv, NEW active \in BOOLEAN, NEW n \in 1 .. Cardinality(Boxes),
           NEW listed \in [1 .. n -> BoxIn],
           \A i, j \in 1 .. n : listed[i].id = listed[j].id => i = j,
           SaveForm(active, listed)
    PROVE  FormsInv'
<1> DEFINE kept == {listed[i].id : i \in DOMAIN listed}
           gone == InOrder(BoxMade \ kept)
           at(b) == CHOOSE i \in DOMAIN listed : listed[i].id = b
           up(b) == [state |-> "active", position |-> at(b) - 1, label |-> listed[at(b)].label,
                     type |-> listed[at(b)].type, required |-> listed[at(b)].required]
           off(b) == [box[b] EXCEPT !.state = "retired",
                                    !.position = Shelf + PlaceIn(gone, b) - 1]
<1>0. /\ box \in [Boxes -> Box] /\ BoxesHold /\ Cardinality(Boxes) \in Nat
      /\ Cardinality(Boxes) < Shelf /\ Shelf \in Nat
  BY FormsAssumption, FS_CardinalityType DEF FormsInv, FormsTypeOK
<1>1. \A i \in 1 .. n : /\ listed[i].id \in Boxes /\ listed[i].label \in Labels
                        /\ listed[i].type \in FormTypes /\ listed[i].required \in BOOLEAN
  <2>1. \A i \in 1 .. n : listed[i] \in BoxIn
    OBVIOUS
  <2> QED BY <2>1 DEF BoxIn
<1>2. \A b \in kept : at(b) \in 1 .. n /\ listed[at(b)].id = b
  OBVIOUS
<1>3. box' = [b \in Boxes |-> CASE b \in kept -> up(b)
                                [] b \in BoxMade \ kept -> off(b)
                                [] OTHER -> box[b]]
  BY DEF SaveForm, SyncedBoxes
<1>4. /\ DOMAIN gone = 1 .. Len(gone) /\ Len(gone) \in Nat
      /\ \A b \in BoxMade \ kept : \E i \in DOMAIN gone : gone[i] = b
  <2>1. ListsAll(gone, BoxMade \ kept)
    BY <1>0, BoxesList
  <2> QED BY <2>1 DEF ListsAll
<1>5. \A b \in BoxMade \ kept : PlaceIn(gone, b) \in 1 .. Len(gone) /\ gone[PlaceIn(gone, b)] = b
  BY <1>4 DEF PlaceIn
<1>6. kept \subseteq Boxes
  BY <1>1
<1> HIDE DEF gone, at, kept
<1>7. \A b \in kept : box'[b] = up(b)
  BY <1>3, <1>6
<1>8. \A b \in BoxMade \ kept : box'[b] = off(b)
  BY <1>3 DEF BoxMade
<1>9. \A b \in Boxes : b \notin kept /\ b \notin BoxMade => box'[b] = box[b]
  BY <1>3
<1>10. ASSUME NEW b \in kept
       PROVE  /\ box'[b] \in Box /\ box'[b].state = "active" /\ box'[b].position = at(b) - 1
              /\ box'[b].position \in 0 .. Shelf - 1
              /\ box'[b].label \in Labels /\ box'[b].type \in FormTypes
              /\ box'[b].type = listed[at(b)].type
  <2>1. at(b) \in 1 .. n /\ box'[b] = up(b)
    BY <1>2, <1>7
  <2>2. at(b) - 1 \in Nat /\ at(b) - 1 \in 0 .. Shelf - 1
    BY <1>0, <2>1
  <2> QED BY <1>1, <2>1, <2>2 DEF Box
<1>11. ASSUME NEW b \in BoxMade \ kept
       PROVE  /\ box'[b] \in Box /\ box'[b].state = "retired"
              /\ box'[b].position = Shelf + PlaceIn(gone, b) - 1
              /\ box'[b].position >= Shelf /\ box'[b].position \in Nat
              /\ box'[b].label = box[b].label /\ box'[b].type = box[b].type
  <2>1. PlaceIn(gone, b) \in Nat /\ PlaceIn(gone, b) >= 1
    BY <1>4, <1>5
  <2>2. box[b] \in Box
    BY <1>0 DEF BoxMade
  <2> DEFINE p == Shelf + PlaceIn(gone, b) - 1
  <2>3. p \in Nat /\ p >= Shelf
    BY <1>0, <2>1
  <2>4. box'[b] = [box[b] EXCEPT !.state = "retired", !.position = p]
    BY <1>8
  <2> HIDE DEF p
  <2>5. /\ box'[b] \in Box /\ box'[b].state = "retired" /\ box'[b].position = p
        /\ box'[b].label = box[b].label /\ box'[b].type = box[b].type
    BY <2>2, <2>3, <2>4 DEF Box
  <2> QED BY <2>3, <2>5 DEF p
<1>12. box' \in [Boxes -> Box]
  <2>1. \A b \in Boxes : box'[b] \in Box
    BY <1>0, <1>9, <1>10, <1>11
  <2> QED BY <1>3, <2>1
<1>13. \A b \in Boxes : b \in BoxMade' <=> b \in kept \/ b \in BoxMade
  BY <1>9, <1>10, <1>11 DEF BoxMade
<1>14. BoxesHold'
  <2>1. \A b \in BoxMade' : box'[b].label \in Labels /\ box'[b].type \in FormTypes
    BY <1>0, <1>10, <1>11, <1>13 DEF BoxMade, BoxesHold
  <2>2. ASSUME NEW b \in BoxMade', NEW c \in BoxMade', box'[b].position = box'[c].position
        PROVE  b = c
    <3>0. (b \in kept \/ b \in BoxMade \ kept) /\ (c \in kept \/ c \in BoxMade \ kept)
      BY <1>13 DEF BoxMade
    <3>1. CASE b \in kept /\ c \in kept
      <4>1. at(b) = at(c)
        BY <1>2, <1>10, <2>2, <3>1
      <4> QED BY <1>2, <3>1, <4>1
    <3>2. CASE b \in BoxMade \ kept /\ c \in BoxMade \ kept
      <4>1. PlaceIn(gone, b) = PlaceIn(gone, c)
        BY <1>0, <1>4, <1>5, <1>11, <2>2, <3>2
      <4> QED BY <1>5, <3>2, <4>1
    <3>3. CASE b \in kept /\ c \in BoxMade \ kept
      BY <1>0, <1>10, <1>11, <2>2, <3>3
    <3>4. CASE b \in BoxMade \ kept /\ c \in kept
      BY <1>0, <1>10, <1>11, <2>2, <3>4
    <3> QED BY <3>0, <3>1, <3>2, <3>3, <3>4
  <2> QED BY <2>1, <2>2 DEF BoxesHold
<1>15. \A b \in BoxMade : b \in BoxMade' /\ box'[b].type = box[b].type
  <2>1. ASSUME NEW b \in BoxMade, b \in kept PROVE box'[b].type = box[b].type
    <3>1. at(b) \in DOMAIN listed /\ listed[at(b)].id = b
      BY <1>2, <2>1
    <3>2. box[b].state # "none"
      BY DEF BoxMade
    <3>3. listed[at(b)].type = box[b].type
      BY <3>1, <3>2 DEF SaveForm, KeepsType
    <3> QED BY <1>10, <2>1, <3>3
  <2>2. \A b \in BoxMade : b \in BoxMade'
    BY <1>13 DEF BoxMade
  <2> QED BY <1>11, <2>1, <2>2
<1>16. UNCHANGED <<report, meant>> /\ inUse' \in BOOLEAN
  BY DEF SaveForm
<1>17. FormsTypeOK'
  BY <1>12, <1>16 DEF FormsInv, FormsTypeOK
<1>18. \A r \in Reports : PostHolds(r)'
  BY <1>15, <1>16 DEF FormsInv, PostHolds, Summary
<1> QED BY <1>14, <1>16, <1>17, <1>18 DEF FormsInv

LEMMA SwitchFormKeeps ==
    ASSUME FormsInv, NEW active \in BOOLEAN, SwitchForm(active)
    PROVE  FormsInv'
<1>1. UNCHANGED <<box, report, meant>> /\ inUse' \in BOOLEAN
  BY DEF SwitchForm
<1>2. BoxesHold'
  BY <1>1 DEF FormsInv, BoxesHold, BoxMade
<1>3. \A r \in Reports : PostHolds(r)'
  BY <1>1 DEF FormsInv, BoxMade, PostHolds
<1> QED BY <1>1, <1>2, <1>3 DEF FormsInv, FormsTypeOK

LEMMA FileReportKeeps ==
    ASSUME FormsInv, NEW r \in Reports, NEW raw \in [Boxes -> Words \cup Numbers \cup {None}],
           NEW notes \in Notes, FileReport(r, raw, notes)
    PROVE  FormsInv'
<1> DEFINE asked == {b \in Fillable : raw[b] # None}
           answered == InOrder(asked)
           row(b) == [field |-> b, label |-> box[b].label, type |-> box[b].type,
                      value |-> Stored(box[b].type, raw[b])]
           values == [i \in DOMAIN answered |-> row(answered[i])]
           body == Summary(values) \o notes
<1>0. box \in [Boxes -> Box] /\ BoxesHold
  BY DEF FormsInv, FormsTypeOK
<1>1. /\ report' = [report EXCEPT ![r] = [values |-> values, body |-> body]]
      /\ meant' = [meant EXCEPT ![r] = [values |-> values, notes |-> notes]]
      /\ UNCHANGED <<box, inUse>>
  BY DEF FileReport
<1>2. asked \subseteq BoxMade
  BY DEF Fillable, BoxMade
<1>3. ListsAll(answered, asked)
  BY <1>0, <1>2, BoxesList
<1>4. ASSUME NEW b \in asked
      PROVE  row(b) \in ValueRow /\ row(b).field = b /\ row(b).type = box[b].type
  <2>1. b \in Boxes /\ box[b].label \in Labels /\ box[b].type \in FormTypes
    BY <1>0, <1>2 DEF BoxesHold, BoxMade
  <2>2. raw[b] \in Words \cup Numbers
    BY <2>1
  <2>3. Stored(box[b].type, raw[b]) \in Answers
    BY <2>1, <2>2 DEF Answers
  <2> QED BY <2>1, <2>3 DEF ValueRow
<1> HIDE DEF row, asked, answered
<1>5. /\ answered \in Seq(asked) /\ Len(answered) \in Nat
      /\ DOMAIN answered = 1 .. Len(answered)
      /\ \A i \in DOMAIN answered : answered[i] \in asked
  BY <1>3 DEF ListsAll
<1>6. \A i \in DOMAIN answered :
        /\ values[i] \in ValueRow /\ values[i].field = answered[i]
        /\ values[i].type = box[answered[i]].type
  BY <1>4, <1>5
<1>7. values \in Seq(ValueRow) /\ DOMAIN values = DOMAIN answered
  BY <1>5, <1>6
<1> HIDE DEF values
<1>8. body \in Seq(BodyLine)
  BY <1>7, NotesAreRead
<1>9. /\ report'[r] = [values |-> values, body |-> body]
      /\ meant'[r] = [values |-> values, notes |-> notes]
      /\ \A q \in Reports \ {r} : report'[q] = report[q] /\ meant'[q] = meant[q]
  BY <1>1 DEF FormsInv, FormsTypeOK
<1>10. FormsTypeOK' /\ meant' \in [Reports -> {None} \cup [values : Seq(ValueRow), notes : Notes]]
  <2> DEFINE R == [values : Seq(ValueRow), body : Seq(BodyLine)]
             M == [values : Seq(ValueRow), notes : Notes]
  <2>1. [values |-> values, body |-> body] \in R /\ [values |-> values, notes |-> notes] \in M
    BY <1>7, <1>8
  <2> HIDE DEF R, M, body
  <2>2. report' \in [Reports -> {None} \cup R] /\ meant' \in [Reports -> {None} \cup M]
    BY <1>1, <2>1 DEF FormsInv, FormsTypeOK, R, M
  <2> QED BY <1>1, <2>2 DEF FormsInv, FormsTypeOK, R, M
<1>11. PostHolds(r)'
  <2>1. \A i \in DOMAIN values :
          values[i].field \in BoxMade /\ box[values[i].field].type = values[i].type
    BY <1>2, <1>5, <1>6, <1>7
  <2>2. BoxMade' = BoxMade /\ box' = box
    BY <1>1 DEF BoxMade
  <2>3. \E vs \in Seq(ValueRow), ns \in Notes :
          /\ report'[r] = [values |-> vs, body |-> Summary(vs) \o ns]
          /\ meant'[r] = [values |-> vs, notes |-> ns]
    BY <1>7, <1>9
  <2>4. report'[r].values = values
    BY <1>9
  <2> QED BY <2>1, <2>2, <2>3, <2>4 DEF PostHolds
<1>12. ASSUME NEW q \in Reports \ {r} PROVE PostHolds(q)'
  <2>1. report'[q] = report[q] /\ meant'[q] = meant[q] /\ box' = box /\ BoxMade' = BoxMade
    BY <1>1, <1>9 DEF BoxMade
  <2>2. PostHolds(q)
    BY DEF FormsInv
  <2> QED BY <2>1, <2>2 DEF PostHolds
<1>13. BoxesHold'
  BY <1>1 DEF FormsInv, BoxesHold, BoxMade
<1> QED BY <1>10, <1>11, <1>12, <1>13 DEF FormsInv

LEMMA FormsInvReads == FormsInv => PostsReadBack
<1> SUFFICES ASSUME FormsInv, NEW r \in Reports, report[r] # None
             PROVE  /\ ReadOut(r) = meant[r]
                    /\ \A i \in DOMAIN report[r].values :
                         box[report[r].values[i].field].type = report[r].values[i].type
  BY DEF PostsReadBack
<1>1. PICK values \in Seq(ValueRow), notes \in Notes :
        /\ report[r] = [values |-> values, body |-> Summary(values) \o notes]
        /\ meant[r] = [values |-> values, notes |-> notes]
  BY DEF FormsInv, PostHolds
<1>2. ReadOut(r) = [values |-> values, notes |-> NotesOf(Summary(values) \o notes, values)]
  BY <1>1 DEF ReadOut
<1>3. ReadOut(r) = meant[r]
  BY <1>1, <1>2, NotesAreRead
<1> QED BY <1>3 DEF FormsInv, PostHolds

LEMMA FormsAlways == FormsSpec => []FormsInv
<1>1. FormsInv /\ [FormsNext]_formsVars => FormsInv'
  <2> SUFFICES ASSUME FormsInv, [FormsNext]_formsVars PROVE FormsInv'
    OBVIOUS
  <2>1. ASSUME NEW active \in BOOLEAN, SwitchForm(active) PROVE FormsInv'
    BY <2>1, SwitchFormKeeps
  <2>2. ASSUME NEW active \in BOOLEAN, NEW n \in 1 .. Cardinality(Boxes),
               NEW listed \in [1 .. n -> BoxIn],
               \A i, j \in 1 .. n : listed[i].id = listed[j].id => i = j,
               SaveForm(active, listed)
        PROVE  FormsInv'
    BY <2>2, SaveFormKeeps
  <2>3. ASSUME NEW r \in Reports, NEW raw \in [Boxes -> Words \cup Numbers \cup {None}],
               NEW notes \in Notes, FileReport(r, raw, notes)
        PROVE  FormsInv'
    BY <2>3, FileReportKeeps
  <2>4. CASE UNCHANGED formsVars
    <3>1. UNCHANGED <<box, inUse, report, meant>>
      BY <2>4 DEF formsVars
    <3>2. BoxesHold'
      BY <3>1 DEF FormsInv, BoxesHold, BoxMade
    <3>3. \A r \in Reports : PostHolds(r)'
      BY <3>1 DEF FormsInv, BoxMade, PostHolds
    <3> QED BY <3>1, <3>2, <3>3 DEF FormsInv, FormsTypeOK
  <2> QED BY <2>1, <2>2, <2>3, <2>4 DEF FormsNext
<1> QED BY <1>1, FormsInvInit, PTL DEF FormsSpec

\* A post reads for ever as it was written, for any number of fields, posts, saves of the
\* template and lines of notes: its answers under the labels they were given to, and of its
\* body the notes and nothing else, though the lines of the answers are recognised only by
\* writing them again (log_templates.py:334-336); and a field that was answered has the type
\* of its answers (log_templates.py:3-6).  In every step a field once made keeps its type,
\* and the fields keep their places apart, so that answers can be listed at all.
THEOREM PostsAlwaysReadBack == FormsSpec => []PostsReadBack
BY FormsAlways, FormsInvReads, PTL

----------------------------------------------------------------------------
\* The parts together.

\* A step of the whole is a step of one part, and the others stand still.
LEMMA FrontStep ==
    ASSUME [FrontNext]_frontVars
    PROVE  /\ [Next]_vars /\ [DeskNext]_deskVars /\ [LinksNext]_linkVars
           /\ [FormsNext]_formsVars /\ [FeedNext]_feedVars /\ [AlertsNext]_alertVars
           /\ [SignInNext]_signInVars
<1>1. CASE FrontNext
  BY <1>1 DEF FrontNext, Others
<1>2. CASE UNCHANGED frontVars
  BY <1>2 DEF frontVars
<1> QED BY <1>1, <1>2

\* What happens in the whole is, for each part, something that happens in it alone.
LEMMA FrontParts ==
    FrontSpec => /\ Spec /\ DeskSpec /\ LinksSpec /\ FormsSpec /\ FeedSpec /\ AlertsSpec
                 /\ SignInSpec
<1>1. FrontInit => /\ Init /\ DeskInit /\ LinksInit /\ FormsInit /\ FeedInit /\ AlertsInit
                   /\ SignInInit
  BY DEF FrontInit
<1> QED
  BY <1>1, FrontStep, PTL
  DEF FrontSpec, Spec, DeskSpec, LinksSpec, FormsSpec, FeedSpec, AlertsSpec, SignInSpec

\* Every variable of every part has its type, for any messages, requests, members, assets and
\* cookies (messages.py, conversations.py, log.py, notifications.py, auth.py).
THEOREM FrontTyped == FrontSpec => []FrontTypeOK
<1>1. LinksSpec => []LinksTypeOK
  BY LinksAlways, PTL
<1>2. FormsSpec => []FormsTypeOK
  <2>1. FormsInv => FormsTypeOK
    BY DEF FormsInv
  <2> QED BY <2>1, FormsAlways, PTL
<1>3. FeedSpec => []FeedTypeOK
  <2>1. FeedInv => FeedTypeOK
    BY DEF FeedInv
  <2> QED BY <2>1, FeedAlways, PTL
<1>4. AlertsSpec => []AlertsTypeOK
  BY AlertsAlways, PTL
<1>5. SignInSpec => []SignInTypeOK
  BY SignInAlways, PTL
<1>6. TypeOK /\ DeskTypeOK /\ LinksTypeOK /\ FormsTypeOK /\ FeedTypeOK /\ AlertsTypeOK
        /\ SignInTypeOK => FrontTypeOK
  BY DEF FrontTypeOK
<1> QED
  BY <1>1, <1>2, <1>3, <1>4, <1>5, <1>6, FrontParts, DeliveryTyped, DeskAlways, PTL

\* What each part promises it keeps beside the others, whatever overlaps in it; the second of
\* what texts promise, if no callback overlaps another request on its message (outbound.py,
\* log_templates.py, log.py, short_links.py, conversations.py, notifications.py, auth.py).
THEOREM FrontHolds ==
    FrontSpec => /\ [](NeverStranded /\ TextedOnce /\ PostsReadBack /\ SeenOnce)
                 /\ [](LinkOpensOne /\ ListedOnce /\ AlertsLand /\ DoorKept)
                 /\ "callback" \notin Overlapping => ForwardOnly /\ StaleCallbackHarmless
<1>1. FrontSpec => /\ [](NeverStranded /\ TextedOnce /\ PostsReadBack /\ SeenOnce)
                   /\ [](LinkOpensOne /\ ListedOnce /\ AlertsLand /\ DoorKept)
  BY FrontParts, NoMessageStranded, TextsCounted, PostsAlwaysReadBack, PagesShowAllOnce,
     LinksOpenTheirOwn, AlwaysListedOnce, AlertsAlwaysLand, DoorIsKept, PTL
<1>2. ASSUME "callback" \notin Overlapping
      PROVE  FrontSpec => ForwardOnly /\ StaleCallbackHarmless
  <2>1. (Spec => ForwardOnly) /\ (Spec => StaleCallbackHarmless)
    BY <1>2, StatusesForward, SupersededIgnored
  <2> QED BY <2>1, FrontParts, PTL
<1> QED BY <1>1, <1>2
=============================================================================
