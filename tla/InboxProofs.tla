---------------------------- MODULE InboxProofs ----------------------------
(***************************************************************************)
(* Conversations with guests.  First contact: a guest has one conversation *)
(* and a text is recorded once, for any number of texts and of requests    *)
(* that overlap in any way.  The argument: whoever opens a conversation    *)
(* found none, so it did not see the guest's consent (whoever commits      *)
(* consent commits a conversation with it), so it has written the guest    *)
(* row itself and holds it: no other transaction can be about to open one, *)
(* too.                                                                    *)
(*                                                                         *)
(* Then the response clock, for any SLA, any snooze and any number of      *)
(* request threads: when no reply and no sweep overlaps a text that starts *)
(* the clock, an unanswered guest has a running clock; when no reply       *)
(* overlaps a sweep, an alert is about the clock it stands beside.         *)
(***************************************************************************)
EXTENDS FirstContact, Inbox, SequenceTheorems, TLAPS

\* The guest row, and each SID, has one uncommitted writer.
OneWriter ==
    \A t, u \in Threads :
        /\ req[t].locked /\ req[u].locked => t = u
        /\ req[t].noted /\ req[u].noted /\ req[t].text = req[u].text => t = u

\* What a transaction has read is still so, or is covered by the row it holds.
Covered(t) ==
    /\ req[t].saw = "known" => guest = "known"
    /\ req[t].locked /\ req[t].text = None => guest = "absent"
    /\ req[t].pc \in {"find", "record", "reply", "commit"} /\ req[t].text # None
           => req[t].saw = "known" \/ req[t].locked
    /\ req[t].conv # None /\ req[t].conv \notin convs => req[t].locked /\ convs = {}
    /\ req[t].noted => req[t].text \in Texts /\ req[t].text \notin Recorded

\* How far a transaction has come.
Progress(t) ==
    /\ req[t].pc \in {"record", "reply", "commit"} /\ req[t].text # None
           => req[t].conv # None
    /\ req[t].pc \in {"reply", "commit"} /\ req[t].text # None => req[t].noted
    /\ req[t].pc \in {"consent", "find", "record", "reply"} => req[t].text # None
    /\ req[t].text = None => req[t].conv = None
    /\ req[t].pc \in {"idle", "guest", "consent", "find"} => req[t].conv = None
    /\ req[t].pc \in {"idle", "guest", "consent", "find", "record"} => ~req[t].noted
    /\ req[t].pc \in {"idle", "guest"} => ~req[t].locked

RecordedOnce == \A x \in Texts : recorded[x] <= 1

ContactInv ==
    /\ ContactTypeOK
    /\ OneWriter
    /\ \A t \in Threads : Covered(t) /\ Progress(t)
    /\ guest = "known" => convs # {}
    /\ SingleConversation
    /\ RecordedOnce

LEMMA ContactIdleFields ==
    /\ Idle \in ContactRequest
    /\ Idle.pc = "idle" /\ Idle.text = None /\ Idle.saw = "absent"
    /\ Idle.conv = None /\ ~Idle.locked /\ ~Idle.noted
BY DEF Idle, ContactRequest, Steps, Consent

LEMMA ContactFields ==
    ASSUME NEW r \in ContactRequest
    PROVE  /\ r.pc \in Steps /\ r.text \in Texts \cup {None} /\ r.saw \in Consent
           /\ r.locked \in BOOLEAN /\ r.conv \in Texts \cup {None} /\ r.noted \in BOOLEAN
BY DEF ContactRequest

LEMMA ContactInvInit == ContactInit => ContactInv
<1> SUFFICES ASSUME ContactInit PROVE ContactInv
  OBVIOUS
<1> USE DEF ContactInit
<1>1. \A t \in Threads : req[t] = Idle
  OBVIOUS
<1>2. \A t \in Threads : req[t].pc = "idle" /\ req[t].text = None /\ req[t].saw = "absent"
                         /\ req[t].conv = None /\ ~req[t].locked /\ ~req[t].noted
  BY <1>1, ContactIdleFields
<1>3. ContactTypeOK
  BY ContactIdleFields DEF ContactTypeOK, Consent
<1>4. OneWriter /\ \A t \in Threads : Covered(t) /\ Progress(t)
  BY <1>2 DEF OneWriter, Covered, Progress
<1> QED BY <1>3, <1>4 DEF ContactInv, SingleConversation, RecordedOnce

\* A step that commits nothing keeps the invariant if what it leaves of the
\* transaction does.
LEMMA Local ==
    ASSUME ContactInv,
           NEW t \in Threads,
           NEW r \in ContactRequest,
           req' = [req EXCEPT ![t] = r],
           UNCHANGED <<guest, convs, recorded>>,
           Covered(t)', Progress(t)',
           r.locked => GuestFree(t),
           r.noted => SidFree(t, r.text)
    PROVE  ContactInv'
<1>1. req'[t] = r /\ \A u \in Threads \ {t} : req'[u] = req[u]
  BY DEF ContactInv, ContactTypeOK
<1>2. ContactTypeOK'
  BY DEF ContactInv, ContactTypeOK
<1>3. OneWriter'
  BY <1>1 DEF ContactInv, OneWriter, GuestFree, SidFree
<1>4. \A u \in Threads \ {t} : Covered(u)' /\ Progress(u)'
  BY <1>1 DEF ContactInv, Covered, Progress, Recorded
<1> QED BY <1>2, <1>3, <1>4 DEF ContactInv, SingleConversation, RecordedOnce

LEMMA StatementsKeepContact ==
    ASSUME ContactInv,
           NEW t \in Threads,
           \/ \E x \in Texts : Receive(t, x)
           \/ CheckIn(t) \/ FindGuest(t) \/ InsertGuest(t) \/ OptIn(t) \/ KnownAlready(t)
           \/ FindConversation(t) \/ Record(t) \/ ChangeConsent(t) \/ ContactRollback(t)
    PROVE  ContactInv'
<1> USE FirstContactAssumption
<1>0. /\ req \in [Threads -> ContactRequest]
      /\ req[t] \in ContactRequest
      /\ Covered(t) /\ Progress(t)
  BY DEF ContactInv, ContactTypeOK
<1>a. /\ req[t].pc \in Steps /\ req[t].text \in Texts \cup {None} /\ req[t].saw \in Consent
      /\ req[t].locked \in BOOLEAN /\ req[t].conv \in Texts \cup {None}
      /\ req[t].noted \in BOOLEAN
  BY <1>0, ContactFields
<1>b. /\ req[t].locked => GuestFree(t)
      /\ req[t].noted => SidFree(t, req[t].text)
  BY <1>0 DEF ContactInv, OneWriter, GuestFree, SidFree
<1>c. \A r : req' = [req EXCEPT ![t] = r] => req'[t] = r
  BY <1>0
<1>1. ASSUME NEW x \in Texts, Receive(t, x) PROVE ContactInv'
  <2> DEFINE r == [Idle EXCEPT !.pc = "guest", !.text = x]
  <2>1. /\ r \in ContactRequest /\ r.pc = "guest" /\ r.text = x /\ r.saw = "absent"
        /\ r.conv = None /\ ~r.locked /\ ~r.noted
    BY DEF Idle, ContactRequest, Steps, Consent
  <2>2. req' = [req EXCEPT ![t] = r] /\ UNCHANGED <<guest, convs, recorded>>
    BY <1>1 DEF Receive, Go
  <2> HIDE DEF r
  <2>3. Covered(t)' /\ Progress(t)'
    BY <1>c, <2>1, <2>2 DEF Covered, Progress
  <2> QED BY <2>1, <2>2, <2>3, Local
<1>2. ASSUME CheckIn(t) PROVE ContactInv'
  <2> DEFINE r == [Idle EXCEPT !.pc = "guest"]
  <2>1. /\ r \in ContactRequest /\ r.pc = "guest" /\ r.text = None /\ r.saw = "absent"
        /\ r.conv = None /\ ~r.locked /\ ~r.noted
    BY DEF Idle, ContactRequest, Steps, Consent
  <2>2. req' = [req EXCEPT ![t] = r] /\ UNCHANGED <<guest, convs, recorded>>
    BY <1>2 DEF CheckIn, Go
  <2> HIDE DEF r
  <2>3. Covered(t)' /\ Progress(t)'
    BY <1>c, <2>1, <2>2 DEF Covered, Progress
  <2> QED BY <2>1, <2>2, <2>3, Local
<1>3. ASSUME FindGuest(t) PROVE ContactInv'
  <2> DEFINE r == [req[t] EXCEPT !.pc = AfterGuest(t), !.saw = guest]
  <2>1. /\ r \in ContactRequest /\ r.pc = AfterGuest(t) /\ r.text = req[t].text /\ r.saw = guest
        /\ r.conv = req[t].conv /\ r.locked = req[t].locked /\ r.noted = req[t].noted
    BY <1>0 DEF ContactRequest, Steps, AfterGuest, ContactInv, ContactTypeOK
  <2>2. /\ req' = [req EXCEPT ![t] = r] /\ UNCHANGED <<guest, convs, recorded>>
        /\ req[t].pc = "guest" /\ guest # "absent"
    BY <1>3 DEF FindGuest, Go
  <2> HIDE DEF r
  <2>3. Covered(t)' /\ Progress(t)'
    BY <1>0, <1>c, <2>1, <2>2 DEF Covered, Progress, AfterGuest
  <2> QED BY <1>b, <2>1, <2>2, <2>3, Local
<1>4. ASSUME InsertGuest(t) PROVE ContactInv'
  <2> DEFINE r == [req[t] EXCEPT !.pc = AfterGuest(t), !.saw = "unknown", !.locked = TRUE]
  <2>1. /\ r \in ContactRequest /\ r.pc = AfterGuest(t) /\ r.text = req[t].text /\ r.saw = "unknown"
        /\ r.conv = req[t].conv /\ r.locked /\ r.noted = req[t].noted
    BY <1>0 DEF ContactRequest, Steps, AfterGuest, Consent
  <2>2. /\ req' = [req EXCEPT ![t] = r] /\ UNCHANGED <<guest, convs, recorded>>
        /\ req[t].pc = "guest" /\ guest = "absent" /\ GuestFree(t)
    BY <1>4 DEF InsertGuest, Go
  <2> HIDE DEF r
  <2>3. Covered(t)' /\ Progress(t)'
    BY <1>0, <1>c, <2>1, <2>2 DEF Covered, Progress, AfterGuest
  <2> QED BY <1>b, <2>1, <2>2, <2>3, Local
<1>5. ASSUME OptIn(t) PROVE ContactInv'
  <2> DEFINE r == [req[t] EXCEPT !.pc = "find", !.locked = TRUE]
  <2>1. /\ r \in ContactRequest /\ r.pc = "find" /\ r.text = req[t].text /\ r.saw = req[t].saw
        /\ r.conv = req[t].conv /\ r.locked /\ r.noted = req[t].noted
    BY <1>0 DEF ContactRequest, Steps
  <2>2. /\ req' = [req EXCEPT ![t] = r] /\ UNCHANGED <<guest, convs, recorded>>
        /\ req[t].pc = "consent" /\ GuestFree(t)
    BY <1>5 DEF OptIn, Go
  <2> HIDE DEF r
  <2>3. Covered(t)' /\ Progress(t)'
    BY <1>0, <1>c, <2>1, <2>2 DEF Covered, Progress
  <2> QED BY <1>b, <2>1, <2>2, <2>3, Local
<1>6. ASSUME KnownAlready(t) PROVE ContactInv'
  <2> DEFINE r == [req[t] EXCEPT !.pc = "find"]
  <2>1. /\ r \in ContactRequest /\ r.pc = "find" /\ r.text = req[t].text /\ r.saw = req[t].saw
        /\ r.conv = req[t].conv /\ r.locked = req[t].locked /\ r.noted = req[t].noted
    BY <1>0 DEF ContactRequest, Steps
  <2>2. /\ req' = [req EXCEPT ![t] = r] /\ UNCHANGED <<guest, convs, recorded>>
        /\ req[t].pc = "consent" /\ req[t].saw = "known"
    BY <1>6 DEF KnownAlready, Go
  <2> HIDE DEF r
  <2>3. Covered(t)' /\ Progress(t)'
    BY <1>0, <1>c, <2>1, <2>2 DEF Covered, Progress
  <2> QED BY <1>b, <2>1, <2>2, <2>3, Local
<1>7. ASSUME FindConversation(t) PROVE ContactInv'
  <2>1. req[t].pc = "find" /\ req[t].text \in Texts
    BY <1>0, <1>a, <1>7 DEF FindConversation, Progress
  <2>2. PICK c \in (IF convs = {} THEN {req[t].text} ELSE convs) :
            Go(t, [req[t] EXCEPT !.pc = "record", !.conv = c])
            /\ UNCHANGED <<guest, convs, recorded>>
    BY <1>7 DEF FindConversation
  <2> DEFINE r == [req[t] EXCEPT !.pc = "record", !.conv = c]
  <2>3. c \in Texts
    BY <2>1, <2>2 DEF ContactInv, ContactTypeOK
  <2>4. /\ r \in ContactRequest /\ r.pc = "record" /\ r.text = req[t].text /\ r.saw = req[t].saw
        /\ r.conv = c /\ r.locked = req[t].locked /\ r.noted = req[t].noted
    BY <1>0, <2>3 DEF ContactRequest, Steps
  <2>5. req' = [req EXCEPT ![t] = r]
    BY <2>2 DEF Go
  <2> HIDE DEF r
  <2>6. convs = {} => req[t].locked
    BY <1>0, <2>1 DEF Covered, ContactInv
  <2>7. Covered(t)' /\ Progress(t)'
    BY <1>0, <1>c, <2>1, <2>2, <2>3, <2>4, <2>5, <2>6 DEF Covered, Progress
  <2> QED BY <1>b, <2>2, <2>4, <2>5, <2>7, Local
<1>8. ASSUME Record(t) PROVE ContactInv'
  <2> DEFINE r == [req[t] EXCEPT !.noted = TRUE,
                                 !.pc = IF req[t].text \in Keyword THEN "reply" ELSE "commit"]
  <2>1. /\ r \in ContactRequest /\ r.pc \in {"reply", "commit"} /\ r.text = req[t].text
        /\ r.saw = req[t].saw /\ r.conv = req[t].conv /\ r.locked = req[t].locked /\ r.noted
    BY <1>0 DEF ContactRequest, Steps
  <2>2. /\ req' = [req EXCEPT ![t] = r] /\ UNCHANGED <<guest, convs, recorded>>
        /\ req[t].pc = "record" /\ req[t].text \notin Recorded /\ SidFree(t, req[t].text)
    BY <1>8 DEF Record, Go
  <2> HIDE DEF r
  <2>3. req[t].text \in Texts
    BY <1>0, <1>a, <2>2 DEF Progress
  <2>4. Covered(t)' /\ Progress(t)'
    BY <1>0, <1>c, <2>1, <2>2, <2>3 DEF Covered, Progress, Recorded
  <2> QED BY <1>b, <2>1, <2>2, <2>4, Local
<1>9. ASSUME ChangeConsent(t) PROVE ContactInv'
  <2> DEFINE r == [req[t] EXCEPT !.pc = "commit", !.locked = TRUE]
  <2>1. /\ r \in ContactRequest /\ r.pc = "commit" /\ r.text = req[t].text /\ r.saw = req[t].saw
        /\ r.conv = req[t].conv /\ r.locked /\ r.noted = req[t].noted
    BY <1>0 DEF ContactRequest, Steps
  <2>2. /\ req' = [req EXCEPT ![t] = r] /\ UNCHANGED <<guest, convs, recorded>>
        /\ req[t].pc = "reply" /\ GuestFree(t)
    BY <1>9 DEF ChangeConsent, Go
  <2> HIDE DEF r
  <2>3. Covered(t)' /\ Progress(t)'
    BY <1>0, <1>c, <2>1, <2>2 DEF Covered, Progress, Recorded
  <2> QED BY <1>b, <2>1, <2>2, <2>3, Local
<1>10. ASSUME ContactRollback(t) PROVE ContactInv'
  <2>1. req' = [req EXCEPT ![t] = Idle] /\ UNCHANGED <<guest, convs, recorded>>
    BY <1>10 DEF ContactRollback, Go
  <2>2. Covered(t)' /\ Progress(t)'
    BY <1>c, <2>1, ContactIdleFields DEF Covered, Progress
  <2> QED BY <2>1, <2>2, ContactIdleFields, Local
<1> QED BY <1>1, <1>2, <1>3, <1>4, <1>5, <1>6, <1>7, <1>8, <1>9, <1>10

\* The one step that writes the database.
LEMMA CommitKeepsContact ==
    ASSUME ContactInv, NEW t \in Threads, ContactCommit(t)
    PROVE  ContactInv'
<1> USE FirstContactAssumption
<1>0. /\ req \in [Threads -> ContactRequest]
      /\ req[t] \in ContactRequest
      /\ Covered(t) /\ Progress(t)
      /\ convs \subseteq Texts /\ recorded \in [Texts -> Nat] /\ guest \in Consent
  BY DEF ContactInv, ContactTypeOK
<1>1. /\ req[t].pc = "commit"
      /\ guest' = IF ~req[t].locked THEN guest
                  ELSE IF req[t].text = None THEN "unknown" ELSE "known"
      /\ convs' = convs \cup ({req[t].conv} \ {None})
      /\ recorded' = [x \in Texts |-> recorded[x] + (IF x = req[t].text THEN 1 ELSE 0)]
      /\ req' = [req EXCEPT ![t] = Idle]
  BY DEF ContactCommit, Go
<1>2. req'[t] = Idle /\ \A u \in Threads \ {t} : req'[u] = req[u]
  BY <1>0, <1>1
<1>3. req[t].text \in Texts \cup {None} /\ req[t].conv \in Texts \cup {None}
  BY <1>0, ContactFields
<1>4. /\ ~req[t].locked => guest' = guest
      /\ req[t].locked /\ req[t].text = None => guest' = "unknown"
      /\ req[t].locked /\ req[t].text # None => guest' = "known"
  <2>1. req[t].locked \in BOOLEAN
    BY <1>0, ContactFields
  <2> QED BY <1>1, <2>1
<1>5. ContactTypeOK'
  BY <1>0, <1>1, <1>3, <1>4, ContactIdleFields DEF ContactTypeOK, Consent
<1>6. OneWriter'
  BY <1>2, ContactIdleFields DEF ContactInv, OneWriter
<1>7. \A x \in Texts : recorded'[x] = IF x = req[t].text THEN recorded[x] + 1 ELSE recorded[x]
  BY <1>0, <1>1
<1>8. Recorded' = Recorded \cup ({req[t].text} \ {None})
  BY <1>0, <1>3, <1>7 DEF Recorded
<1>9. RecordedOnce'
  <2>1. req[t].text # None => recorded[req[t].text] = 0
    BY <1>0, <1>1, <1>3 DEF Covered, Progress, Recorded
  <2> QED BY <1>0, <1>7, <2>1 DEF RecordedOnce, ContactInv
<1>10. SingleConversation'
  BY <1>0, <1>1 DEF Covered, ContactInv, SingleConversation
<1>11. guest' = "known" => guest = "known" \/ (req[t].locked /\ req[t].text # None)
  BY <1>4
<1>12. guest' = "known" => convs' # {}
  BY <1>0, <1>1, <1>11 DEF Progress, ContactInv
<1>13. guest = "known" => guest' = "known"
  BY <1>0, <1>4 DEF Covered
<1>14. ASSUME NEW u \in Threads \ {t} PROVE Covered(u)' /\ Progress(u)'
  <2>1. Covered(u) /\ Progress(u) /\ req'[u] = req[u]
    BY <1>2 DEF ContactInv
  <2>2. Progress(u)'
    BY <2>1 DEF Progress
  <2>3. req[u].locked => guest' = guest
    BY <1>4 DEF ContactInv, OneWriter
  <2>4. req[u].conv # None /\ req[u].conv \notin convs' => req[u].locked /\ convs' = {}
    <3>1. SUFFICES ASSUME req[u].conv # None, req[u].conv \notin convs'
                   PROVE  req[u].locked /\ convs' = {}
      OBVIOUS
    <3>2. req[u].locked /\ convs = {}
      BY <1>1, <2>1, <3>1 DEF Covered
    <3>3. ~req[t].locked
      BY <3>2 DEF ContactInv, OneWriter
    <3>4. req[t].conv = None
      BY <1>0, <3>2, <3>3 DEF Covered
    <3> QED BY <1>1, <3>2, <3>4
  <2>5. req[u].noted => req[u].text \in Texts /\ req[u].text \notin Recorded'
    <3>1. req[t].text # None => req[t].noted
      BY <1>0, <1>1 DEF Progress
    <3>2. req[u].noted /\ req[t].text # None => req[u].text # req[t].text
      BY <3>1 DEF ContactInv, OneWriter
    <3> QED BY <1>8, <2>1, <3>2 DEF Covered
  <2>6. Covered(u)'
    BY <1>13, <2>1, <2>3, <2>4, <2>5 DEF Covered
  <2> QED BY <2>2, <2>6
<1>15. Covered(t)' /\ Progress(t)'
  BY <1>2, ContactIdleFields DEF Covered, Progress
<1> QED BY <1>5, <1>6, <1>9, <1>10, <1>12, <1>14, <1>15 DEF ContactInv

LEMMA ContactInvNext == ContactInv /\ [ContactNext]_contactVars => ContactInv'
<1> SUFFICES ASSUME ContactInv, [ContactNext]_contactVars PROVE ContactInv'
  OBVIOUS
<1>1. CASE UNCHANGED contactVars
  BY <1>1 DEF contactVars, ContactInv, ContactTypeOK, OneWriter, Covered, Progress, SingleConversation,
              RecordedOnce, Recorded
<1>2. CASE ContactNext
  BY <1>2, StatementsKeepContact, CommitKeepsContact DEF ContactNext, Statement
<1> QED BY <1>1, <1>2

\* Types: every committed row and every open transaction stays within its type.
THEOREM ContactTyped == ContactSpec => []ContactTypeOK
<1>1. ContactInv => ContactTypeOK
  BY DEF ContactInv
<1> QED BY <1>1, ContactInvInit, ContactInvNext, PTL DEF ContactSpec

\* However many requests for one phone overlap, its guest gets one conversation
\* (conversations.py:60-86), although no constraint of the schema says so.
THEOREM OneConversation == ContactSpec => []SingleConversation
<1>1. ContactInv => SingleConversation
  BY DEF ContactInv
<1> QED BY <1>1, ContactInvInit, ContactInvNext, PTL DEF ContactSpec

\* However often and however concurrently a text is posted, it is one message
\* (inbound.py:30-35, uq_message_property_provider): the hook is an Intake of texts.
THEOREM TextsAreTakenOnce == ContactSpec => TextsTakenOnce
<1>1. ContactInit => TextsOnce!Init
  BY DEF ContactInit, TextsOnce!Init
<1>2. ContactInv /\ [ContactNext]_contactVars => [TextsOnce!Next]_recorded
  <2> SUFFICES ASSUME ContactInv, ContactNext, recorded' # recorded PROVE TextsOnce!Next
    BY DEF contactVars
  <2>1. PICK t \in Threads : ContactCommit(t)
    BY DEF ContactNext, Statement, Receive, CheckIn, FindGuest, InsertGuest, OptIn,
           KnownAlready, FindConversation, Record, ChangeConsent, ContactRollback
  <2>2. /\ recorded \in [Texts -> Nat]
        /\ req[t].text \in Texts \cup {None} /\ req[t].pc = "commit"
    BY <2>1, ContactFields DEF ContactCommit, ContactInv, ContactTypeOK
  <2>3. recorded' = [x \in Texts |-> recorded[x] + (IF x = req[t].text THEN 1 ELSE 0)]
    BY <2>1 DEF ContactCommit
  <2>4. req[t].text \in Texts
    <3> SUFFICES ASSUME req[t].text \notin Texts PROVE FALSE
      OBVIOUS
    <3>1. recorded' = recorded
      BY <2>2, <2>3
    <3> QED BY <3>1
  <2>5. recorded[req[t].text] = 0
    BY <2>2, <2>4, FirstContactAssumption DEF ContactInv, Covered, Progress, Recorded
  <2>6. recorded' = [recorded EXCEPT ![req[t].text] = 1]
    <3>1. ASSUME NEW x \in Texts
          PROVE  recorded[x] + (IF x = req[t].text THEN 1 ELSE 0)
                     = [recorded EXCEPT ![req[t].text] = 1][x]
      <4>1. recorded[x] \in Nat
        BY <2>2
      <4>2. CASE x = req[t].text
        BY <2>2, <2>5, <4>2
      <4>3. CASE x # req[t].text
        BY <2>2, <4>1, <4>3
      <4> QED BY <4>2, <4>3
    <3>2. recorded' = [x \in Texts |-> [recorded EXCEPT ![req[t].text] = 1][x]]
      BY <2>3, <3>1, Zenon
    <3> DEFINE once == [recorded EXCEPT ![req[t].text] = 1]
    <3>3. once = [x \in Texts |-> once[x]]
      BY <2>2
    <3> QED BY <3>2, <3>3, Zenon
  <2>7. TextsOnce!Take(req[t].text)
    BY <2>5, <2>6 DEF TextsOnce!Take
  <2> QED BY <2>4, <2>7 DEF TextsOnce!Next
<1> QED BY <1>1, <1>2, ContactInvInit, ContactInvNext, PTL DEF ContactSpec, TextsTakenOnce, TextsOnce!Spec

(***************************************************************************)
(* The response clock                                                      *)
(***************************************************************************)

Stamp == Nat \cup {None}

LEMMA InboxConstants ==
    /\ Worker \notin InboxThreads
    /\ SLA \in Nat /\ Quiet \in Nat /\ MaxTime \in Nat \ {0}
    /\ Naps \subseteq Nat
    /\ None \notin Nat
BY InboxAssumption

LEMMA ConvFields ==
    ASSUME NEW c \in Row(Stamp)
    PROVE  /\ c.status \in ConvStatus /\ c.until \in Stamp /\ c.closed \in BOOLEAN
           /\ c.due \in Stamp /\ c.alerted \in Stamp /\ c.guest \in Stamp /\ c.staff \in Stamp
BY DEF Row

\* Reviving a conversation does not touch its clock.
LEMMA RevivedClock ==
    ASSUME NEW c \in Row(Stamp)
    PROVE  /\ Revived(c) \in Row(Stamp)
           /\ Revived(c).due = c.due /\ Revived(c).alerted = c.alerted
           /\ Revived(c).guest = c.guest /\ Revived(c).staff = c.staff
BY ConvFields DEF Revived, Row, ConvStatus, Stamp

\* What the operation op makes, at time n, of the columns of c the clock is about.
Effect(op, c, d, n) ==
    /\ d.guest = IF op \in {"text", "keyword"} THEN n ELSE c.guest
    /\ d.staff = IF op \in {"keyword", "reply"} THEN n ELSE c.staff
    /\ d.due = IF op = "text" THEN n + SLA ELSE IF op = "reply" THEN None ELSE c.due
    /\ d.alerted = IF op \in {"text", "reply"} THEN None
                   ELSE IF op = "sweep" THEN n ELSE c.alerted

\* Every operation yields a row of the table, with the effect of its name.
LEMMA ConvTyped ==
    ASSUME NEW c \in Row(Stamp), now \in Nat
    PROVE  /\ Questioned(c) \in Row(Stamp) /\ Effect("text", c, Questioned(c), now)
           /\ Keyworded(c) \in Row(Stamp) /\ Effect("keyword", c, Keyworded(c), now)
           /\ Replied(c) \in Row(Stamp) /\ Effect("reply", c, Replied(c), now)
           /\ Archived(c) \in Row(Stamp) /\ Effect("patch", c, Archived(c), now)
           /\ \A n \in Naps : Snoozed(c, n) \in Row(Stamp) /\ Effect("patch", c, Snoozed(c, n), now)
           /\ Opened(c) \in Row(Stamp) /\ Effect("patch", c, Opened(c), now)
           /\ Alerted(c) \in Row(Stamp) /\ Effect("sweep", c, Alerted(c), now)
           /\ Woken(c) \in Row(Stamp) /\ Effect("wake", c, Woken(c), now)
<1> USE InboxConstants, ConvFields DEF Stamp, ConvStatus
<1> DEFINE r == Revived(c)
<1>1. /\ r \in Row(Stamp) /\ r.alerted = c.alerted /\ r.due = c.due
      /\ r.guest = c.guest /\ r.staff = c.staff
  BY RevivedClock
<1>2. now + SLA \in Stamp /\ \A n \in Naps : now + n \in Stamp
  OBVIOUS
<1> HIDE DEF r
<1>3. Questioned(c) \in Row(Stamp) /\ Effect("text", c, Questioned(c), now)
  BY <1>1, <1>2 DEF Questioned, Row, Effect, r
<1>4. Keyworded(c) \in Row(Stamp) /\ Effect("keyword", c, Keyworded(c), now)
  BY <1>1, <1>2 DEF Keyworded, Row, Effect, r
<1>5. Replied(c) \in Row(Stamp) /\ Effect("reply", c, Replied(c), now)
  BY DEF Replied, Row, Effect
<1>6. /\ Archived(c) \in Row(Stamp) /\ Effect("patch", c, Archived(c), now)
      /\ Opened(c) \in Row(Stamp) /\ Effect("patch", c, Opened(c), now)
  BY DEF Archived, Opened, Row, Effect
<1>7. Alerted(c) \in Row(Stamp) /\ Effect("sweep", c, Alerted(c), now)
  BY DEF Alerted, Row, Effect
<1>8. Woken(c) \in Row(Stamp) /\ Effect("wake", c, Woken(c), now)
  BY DEF Woken, Row, Effect
<1>9. \A n \in Naps : Snoozed(c, n) \in Row(Stamp) /\ Effect("patch", c, Snoozed(c, n), now)
  BY <1>2 DEF Snoozed, Row, Effect
<1> QED BY <1>3, <1>4, <1>5, <1>6, <1>7, <1>8, <1>9

LEMMA ConvMade ==
    ASSUME NEW s \in ConvStatus, NEW u \in Stamp, NEW k \in BOOLEAN, NEW d \in Stamp,
           NEW a \in Stamp, NEW g \in Stamp, NEW f \in Stamp
    PROVE  [status |-> s, until |-> u, closed |-> k, due |-> d, alerted |-> a,
            guest |-> g, staff |-> f] \in Row(Stamp)
BY DEF Row

\* A flush mixes columns of three rows of the table, and what comes out is one.
LEMMA FlushTyped ==
    ASSUME NEW row \in Row(Stamp), NEW old \in Row(Stamp), NEW new \in Row(Stamp)
    PROVE  Flushed(row, [old |-> old, new |-> new]) \in Row(Stamp)
<1> DEFINE r == Flushed(row, [old |-> old, new |-> new])
<1>1. r = [f \in DOMAIN row |-> IF new[f] = old[f] THEN row[f] ELSE new[f]]
  BY DEF Flushed
<1>2. DOMAIN row = {"status", "until", "closed", "due", "alerted", "guest", "staff"}
  BY DEF Row
<1>3. r = [status  |-> IF new.status = old.status THEN row.status ELSE new.status,
           until   |-> IF new.until = old.until THEN row.until ELSE new.until,
           closed  |-> IF new.closed = old.closed THEN row.closed ELSE new.closed,
           due     |-> IF new.due = old.due THEN row.due ELSE new.due,
           alerted |-> IF new.alerted = old.alerted THEN row.alerted ELSE new.alerted,
           guest   |-> IF new.guest = old.guest THEN row.guest ELSE new.guest,
           staff   |-> IF new.staff = old.staff THEN row.staff ELSE new.staff]
  BY <1>1, <1>2
<1> HIDE DEF r
<1>4. \A c \in {row, old, new} :
        /\ c.status \in ConvStatus /\ c.until \in Stamp /\ c.closed \in BOOLEAN
        /\ c.due \in Stamp /\ c.alerted \in Stamp /\ c.guest \in Stamp /\ c.staff \in Stamp
  BY ConvFields
<1> DEFINE either(p, o, n) == IF n = o THEN p ELSE n
<1>5. /\ either(row.status, old.status, new.status) \in ConvStatus
      /\ either(row.until, old.until, new.until) \in Stamp
      /\ either(row.closed, old.closed, new.closed) \in BOOLEAN
      /\ either(row.due, old.due, new.due) \in Stamp
      /\ either(row.alerted, old.alerted, new.alerted) \in Stamp
      /\ either(row.guest, old.guest, new.guest) \in Stamp
      /\ either(row.staff, old.staff, new.staff) \in Stamp
  BY <1>4, Zenon
<1>6. r = [status  |-> either(row.status, old.status, new.status),
           until   |-> either(row.until, old.until, new.until),
           closed  |-> either(row.closed, old.closed, new.closed),
           due     |-> either(row.due, old.due, new.due),
           alerted |-> either(row.alerted, old.alerted, new.alerted),
           guest   |-> either(row.guest, old.guest, new.guest),
           staff   |-> either(row.staff, old.staff, new.staff)]
  BY <1>3
<1> HIDE DEF either
<1>7. r \in Row(Stamp)
  BY <1>5, <1>6, ConvMade
<1> QED BY <1>7 DEF r

\* A transaction is opened for op, with what op makes of the row it has loaded.
Opening(a, op, d) ==
    /\ op \in InboxOps /\ a \in Actors /\ d \in Row(Stamp)
    /\ Begin(a, op, d)
    /\ Effect(op, conv, d, now)
    /\ now' = IF op \in {"text", "keyword", "reply"} THEN now + 1 ELSE now
    /\ now' \in Time
    /\ op = "sweep" => conv.due # None /\ conv.due < now /\ conv.alerted = None

\* What a step of InboxNext may be.
LEMMA InboxSteps ==
    ASSUME InboxTypeOK, [InboxNext]_inboxVars
    PROVE  \/ \E a \in Actors, op \in InboxOps, d \in Row(Stamp) : Opening(a, op, d)
           \/ \E a \in Actors : Commit(a) \/ Rollback(a)
           \/ /\ UNCHANGED <<conv, txn>>
              /\ now' \in Time /\ now <= now' /\ work' \in BOOLEAN
<1> USE InboxConstants
<1>0. /\ conv \in Row(Stamp) /\ now \in Nat /\ now \in Time /\ now <= MaxTime
      /\ Worker \in Actors /\ InboxThreads \subseteq Actors
  BY DEF InboxTypeOK, Stamp, Time, Actors
<1> DEFINE Goal == \E a \in Actors, op \in InboxOps, d \in Row(Stamp) : Opening(a, op, d)
<1>1. ASSUME NEW t \in InboxThreads, NEW op \in {"text", "keyword", "reply"},
             NEW d \in Row(Stamp), Message(t, op, d), Effect(op, conv, d, now)
      PROVE  Goal
  <2>1. Opening(t, op, d)
    BY <1>0, <1>1 DEF Message, Opening, InboxOps, Time
  <2> QED BY <1>0, <2>1 DEF InboxOps
<1>2. ASSUME NEW t \in InboxThreads, NEW d \in Row(Stamp),
             Patch(t, "patch", d), Effect("patch", conv, d, now)
      PROVE  Goal
  <2>1. Opening(t, "patch", d)
    BY <1>0, <1>2 DEF Patch, Opening, InboxOps
  <2> QED BY <1>0, <2>1 DEF InboxOps
<1> HIDE DEF Goal
<1>3. ASSUME NEW t \in InboxThreads, Request(t) PROVE Goal
  <2>1. CASE Question(t) \/ KeywordText(t) \/ Reply(t)
    BY <1>0, <1>1, <2>1, ConvTyped DEF Question, KeywordText, Reply
  <2>2. CASE Archive(t) \/ Reopen(t)
    BY <1>0, <1>2, <2>2, ConvTyped DEF Archive, Reopen
  <2>3. ASSUME NEW n \in Naps, Snooze(t, n) PROVE Goal
    BY <1>0, <1>2, <2>3, ConvTyped DEF Snooze
  <2> QED BY <1>3, <2>1, <2>2, <2>3 DEF Request
<1>4. CASE Sweep
  <2>1. /\ Alerted(conv) \in Row(Stamp) /\ Effect("sweep", conv, Alerted(conv), now)
        /\ conv.due # None /\ conv.due < now /\ conv.alerted = None
        /\ Patch(Worker, "sweep", Alerted(conv))
    BY <1>0, <1>4, ConvTyped DEF Sweep, Overdue
  <2>2. Opening(Worker, "sweep", Alerted(conv))
    BY <1>0, <2>1 DEF Patch, Opening, InboxOps
  <2> QED BY <1>0, <2>1, <2>2 DEF Goal, InboxOps
<1>5. CASE Wake
  <2>1. /\ Woken(conv) \in Row(Stamp) /\ Effect("wake", conv, Woken(conv), now)
        /\ Patch(Worker, "wake", Woken(conv))
    BY <1>0, <1>5, ConvTyped DEF Wake
  <2>2. Opening(Worker, "wake", Woken(conv))
    BY <1>0, <2>1 DEF Patch, Opening, InboxOps
  <2> QED BY <1>0, <2>1, <2>2 DEF Goal, InboxOps
<1>6. CASE WorkOrders \/ TimePasses \/ UNCHANGED inboxVars
  <2>1. /\ UNCHANGED <<conv, txn>> /\ now' \in {now, now + 1} /\ now' \in Time
    BY <1>0, <1>6 DEF WorkOrders, TimePasses, inboxVars, Time
  <2>2. work \in BOOLEAN /\ work' \in {work, ~work}
    BY <1>6 DEF WorkOrders, TimePasses, inboxVars, InboxTypeOK
  <2>3. work' \in BOOLEAN
    BY <2>2, Zenon
  <2> QED BY <1>0, <2>1, <2>3
<1> QED BY <1>3, <1>4, <1>5, <1>6 DEF InboxNext, Goal

\* Whatever overlaps, the operations keep the types.
LEMMA InboxTypeNext == InboxTypeOK /\ [InboxNext]_inboxVars => InboxTypeOK'
<1> SUFFICES ASSUME InboxTypeOK, [InboxNext]_inboxVars PROVE InboxTypeOK'
  OBVIOUS
<1>0. conv \in Row(Stamp) /\ now \in Time
  BY DEF InboxTypeOK, Stamp
<1>1. ASSUME NEW a \in Actors, NEW op \in InboxOps, NEW d \in Row(Stamp), Opening(a, op, d)
      PROVE  InboxTypeOK'
  <2>1. /\ txn' = [txn EXCEPT ![a] = [op |-> op, old |-> conv, new |-> d]]
        /\ UNCHANGED <<conv, work>> /\ now' \in Time
    BY <1>1 DEF Opening, Begin
  <2> QED BY <1>0, <2>1 DEF InboxTypeOK, Stamp
<1>2. ASSUME NEW a \in Actors, Commit(a) PROVE InboxTypeOK'
  <2>1. /\ conv' = Flushed(conv, txn[a]) /\ txn' = [txn EXCEPT ![a] = None]
        /\ UNCHANGED <<work, now>>
        /\ txn[a].old \in Row(Stamp) /\ txn[a].new \in Row(Stamp)
    BY <1>2 DEF Commit, InboxTypeOK, Stamp
  <2>2. Flushed(conv, txn[a]) = Flushed(conv, [old |-> txn[a].old, new |-> txn[a].new])
    BY DEF Flushed
  <2>3. conv' \in Row(Stamp)
    BY <1>0, <2>1, <2>2, FlushTyped
  <2> QED BY <2>1, <2>3 DEF InboxTypeOK, Stamp
<1>3. ASSUME NEW a \in Actors, Rollback(a) PROVE InboxTypeOK'
  BY <1>3 DEF Rollback, InboxTypeOK
<1>4. CASE UNCHANGED <<conv, txn>> /\ now' \in Time /\ work' \in BOOLEAN
  BY <1>4 DEF InboxTypeOK
<1> QED BY <1>1, <1>2, <1>3, <1>4, InboxSteps

LEMMA InboxStarts ==
    ASSUME InboxInit
    PROVE  /\ InboxTypeOK /\ \A a \in Actors : txn[a] = None
           /\ now = 1 /\ conv.guest = 0 /\ conv.alerted = None
           /\ \/ conv.due = SLA /\ conv.staff = None
              \/ conv.due = None /\ conv.staff = 0
<1> USE InboxConstants DEF InboxInit
<1> DEFINE asked == [Fresh EXCEPT !.guest = 0, !.due = SLA]
           answered == [Fresh EXCEPT !.guest = 0, !.staff = 0]
<1>1. Fresh \in Row(Stamp)
  BY DEF Row, Fresh, Stamp, ConvStatus
<1>2. /\ asked \in Row(Stamp) /\ asked.guest = 0 /\ asked.alerted = None /\ asked.due = SLA
      /\ asked.staff = None
  BY <1>1 DEF Row, Fresh, Stamp
<1>3. /\ answered \in Row(Stamp) /\ answered.guest = 0 /\ answered.alerted = None
      /\ answered.staff = 0 /\ answered.due = None
  BY <1>1 DEF Row, Fresh, Stamp
<1>4. now \in Time /\ \A a \in Actors : txn[a] = None
  BY DEF Time
<1>5. conv \in {asked, answered}
  OBVIOUS
<1> HIDE DEF asked, answered
<1> QED BY <1>2, <1>3, <1>4, <1>5 DEF InboxTypeOK, Stamp

\* Types: whatever the transactions that overlap, the row's columns stay within
\* the table's, every open transaction's too.
THEOREM InboxTyped == InboxSpec => []InboxTypeOK
BY InboxStarts, InboxTypeNext, PTL DEF InboxSpec

(***************************************************************************)
(* The clock, when no reply overlaps a text; the alert, when no sweep      *)
(* overlaps a text or a reply.  Every other pair may overlap.              *)
(***************************************************************************)

\* Two transactions are open at once only if their operations may overlap.
Paired ==
    \A a, b \in Actors :
        a # b /\ txn[a] # None /\ txn[b] # None => {txn[a].op, txn[b].op} \in Overlap

LEMMA PairedNext == InboxTypeOK /\ Paired /\ [InboxNext]_inboxVars => Paired'
<1> SUFFICES ASSUME InboxTypeOK, Paired, [InboxNext]_inboxVars PROVE Paired'
  OBVIOUS
<1>1. ASSUME NEW a \in Actors, NEW op \in InboxOps, NEW d \in Row(Stamp), Opening(a, op, d)
      PROVE  Paired'
  <2>1. /\ txn' = [txn EXCEPT ![a] = [op |-> op, old |-> conv, new |-> d]]
        /\ \A b \in Actors : txn[b] # None => {op, txn[b].op} \in Overlap
    BY <1>1 DEF Opening, Begin
  <2>2. txn'[a].op = op /\ \A b \in Actors \ {a} : txn'[b] = txn[b]
    BY <2>1 DEF InboxTypeOK
  <2>3. \A b \in Actors : {op, txn[b].op} = {txn[b].op, op}
    OBVIOUS
  <2> QED BY <2>1, <2>2, <2>3 DEF Paired
<1>2. ASSUME NEW a \in Actors, Commit(a) \/ Rollback(a) PROVE Paired'
  <2>1. txn'[a] = None /\ \A b \in Actors \ {a} : txn'[b] = txn[b]
    BY <1>2 DEF Commit, Rollback, InboxTypeOK
  <2> QED BY <2>1 DEF Paired
<1> QED BY <1>1, <1>2, InboxSteps DEF Paired

\* What a commit leaves of the columns the clock is about.
LEMMA FlushColumns ==
    ASSUME InboxTypeOK, NEW a \in Actors, Commit(a)
    PROVE  /\ txn[a] # None /\ now' = now /\ txn[a].op \in InboxOps
           /\ txn'[a] = None /\ \A b \in Actors \ {a} : txn'[b] = txn[b]
           /\ conv'.guest = IF txn[a].new.guest = txn[a].old.guest THEN conv.guest
                            ELSE txn[a].new.guest
           /\ conv'.staff = IF txn[a].new.staff = txn[a].old.staff THEN conv.staff
                            ELSE txn[a].new.staff
           /\ conv'.due = IF txn[a].new.due = txn[a].old.due THEN conv.due ELSE txn[a].new.due
           /\ conv'.alerted = IF txn[a].new.alerted = txn[a].old.alerted THEN conv.alerted
                              ELSE txn[a].new.alerted
<1>1. /\ txn[a] # None /\ conv' = Flushed(conv, txn[a]) /\ now' = now
      /\ txn' = [txn EXCEPT ![a] = None]
  BY DEF Commit
<1>2. DOMAIN conv = {"status", "until", "closed", "due", "alerted", "guest", "staff"}
  BY DEF InboxTypeOK, Row
<1>3. conv' = [f \in DOMAIN conv |-> IF txn[a].new[f] = txn[a].old[f] THEN conv[f]
                                     ELSE txn[a].new[f]]
  BY <1>1 DEF Flushed
<1>4. txn[a].op \in InboxOps /\ txn'[a] = None /\ \A b \in Actors \ {a} : txn'[b] = txn[b]
  BY <1>1 DEF InboxTypeOK
<1> QED BY <1>1, <1>2, <1>3, <1>4

----------------------------------------------------------------------------
\* No stamp of c is as late as n.
PastDue(c, n) ==
    /\ c.guest # None => c.guest < n
    /\ c.staff # None => c.staff < n
    /\ c.due # None => c.due < n + SLA

\* What an open transaction x will write: a text the clock it started, a keyword its own
\* answer, a reply an answer to what the guest has asked, the others nothing of the clock.
WillKeep(x) ==
    /\ x.op = "text" => /\ x.new.guest # x.old.guest /\ x.new.guest \in Nat
                        /\ x.new.due # x.old.due /\ x.new.due = x.new.guest + SLA
                        /\ x.new.staff = x.old.staff
    /\ x.op = "keyword" => /\ x.new.guest # x.old.guest /\ x.new.guest \in Nat
                           /\ x.new.staff # x.old.staff /\ x.new.staff = x.new.guest
                           /\ x.new.due = x.old.due
    /\ x.op = "reply" => /\ x.new.guest = x.old.guest /\ x.new.due = None
                         /\ x.new.staff # x.old.staff /\ x.new.staff \in Nat
                         /\ conv.guest # None => conv.guest < x.new.staff
                         /\ x.old.due = None => conv.due = None
    /\ x.op \in {"patch", "sweep", "wake"} =>
          x.new.guest = x.old.guest /\ x.new.staff = x.old.staff /\ x.new.due = x.old.due

\* What UnansweredHasClock needs to be inductive.
ClockInv ==
    /\ InboxTypeOK /\ Paired
    /\ UnansweredHasClock
    /\ PastDue(conv, now)
    /\ \A a \in Actors : txn[a] # None => WillKeep(txn[a]) /\ PastDue(txn[a].new, now)

AnswersApart == {"text", "reply"} \notin Overlap /\ {"keyword", "reply"} \notin Overlap

LEMMA ClockInit == InboxInit => ClockInv
<1> SUFFICES ASSUME InboxInit PROVE ClockInv
  OBVIOUS
<1> QED BY InboxStarts, InboxConstants
        DEF ClockInv, Paired, UnansweredHasClock, Unanswered, PastDue

LEMMA ClockNext == AnswersApart /\ ClockInv /\ [InboxNext]_inboxVars => ClockInv'
<1> SUFFICES ASSUME AnswersApart, ClockInv, [InboxNext]_inboxVars PROVE ClockInv'
  OBVIOUS
<1> USE InboxConstants
<1>0. /\ InboxTypeOK /\ InboxTypeOK' /\ Paired' /\ now \in Nat /\ now' \in Nat
      /\ conv \in Row(Stamp) /\ conv' \in Row(Stamp)
      /\ conv.guest \in Stamp /\ conv.staff \in Stamp /\ conv.due \in Stamp
  <2>1. InboxTypeOK' /\ Paired'
    BY InboxTypeNext, PairedNext DEF ClockInv
  <2>2. /\ now \in Nat /\ now' \in Nat
        /\ conv \in Row(Stamp) /\ conv' \in Row(Stamp)
    BY <2>1 DEF ClockInv, InboxTypeOK, Stamp, Time
  <2> QED BY <2>1, <2>2, ConvFields DEF ClockInv
<1>1. ASSUME NEW a \in Actors, txn[a] # None
      PROVE  /\ txn[a].new.guest \in Stamp /\ txn[a].new.staff \in Stamp
             /\ txn[a].new.due \in Stamp
  BY <1>0, <1>1, ConvFields DEF InboxTypeOK, Stamp
<1>2. ASSUME NEW n \in Nat, NEW m \in Nat, n <= m, NEW c,
             c.guest \in Stamp, c.staff \in Stamp, c.due \in Stamp, PastDue(c, n)
      PROVE  PastDue(c, m)
  BY <1>2 DEF PastDue, Stamp
<1>3. ASSUME NEW a \in Actors, NEW op \in InboxOps, NEW d \in Row(Stamp), Opening(a, op, d)
      PROVE  ClockInv'
  <2>1. /\ txn' = [txn EXCEPT ![a] = [op |-> op, old |-> conv, new |-> d]]
        /\ conv' = conv /\ Effect(op, conv, d, now)
        /\ now' = IF op \in {"text", "keyword", "reply"} THEN now + 1 ELSE now
        /\ \A b \in Actors : txn[b] # None => {op, txn[b].op} \in Overlap
    BY <1>3 DEF Opening, Begin
  <2>2. /\ txn'[a] = [op |-> op, old |-> conv, new |-> d]
        /\ \A b \in Actors \ {a} : txn'[b] = txn[b]
    BY <1>0, <2>1 DEF InboxTypeOK
  <2>3. d.guest \in Stamp /\ d.staff \in Stamp /\ d.due \in Stamp
    BY ConvFields
  <2>4. PastDue(conv, now)
    BY DEF ClockInv
  <2>5. PastDue(d, now')
    BY <1>0, <2>1, <2>3, <2>4 DEF Effect, PastDue, InboxOps, Stamp
  <2>6. WillKeep([op |-> op, old |-> conv, new |-> d])'
    BY <1>0, <2>1, <2>3, <2>4 DEF Effect, PastDue, InboxOps, Stamp, WillKeep
  <2>7. (\A b \in Actors \ {a} : txn[b] # None => WillKeep(txn[b]) /\ PastDue(txn[b].new, now))'
    BY <1>0, <1>1, <1>2, <2>1, <2>2 DEF ClockInv, WillKeep
  <2>8. PastDue(conv', now')
    <3>1. now <= now'
      BY <1>0, <2>1
    <3>2. PastDue(conv, now')
      BY <1>0, <1>2, <2>4, <3>1
    <3> QED BY <2>1, <3>2 DEF PastDue
  <2>9. UnansweredHasClock'
    BY <2>1 DEF ClockInv, UnansweredHasClock, Unanswered
  <2>10. (\A b \in Actors : txn[b] # None => WillKeep(txn[b]) /\ PastDue(txn[b].new, now))'
    <3>1. WillKeep(txn[a])'
      BY <2>1, <2>2, <2>6 DEF WillKeep
    <3>2. PastDue(txn[a].new, now)'
      BY <2>2, <2>5 DEF PastDue
    <3> QED BY <2>7, <3>1, <3>2
  <2> QED BY <1>0, <2>8, <2>9, <2>10 DEF ClockInv
<1>4. ASSUME NEW a \in Actors, Commit(a) PROVE ClockInv'
  <2> DEFINE x == txn[a]
  <2>1. /\ x # None /\ now' = now /\ x.op \in InboxOps
        /\ txn'[a] = None /\ \A b \in Actors \ {a} : txn'[b] = txn[b]
        /\ conv'.guest = IF x.new.guest = x.old.guest THEN conv.guest ELSE x.new.guest
        /\ conv'.staff = IF x.new.staff = x.old.staff THEN conv.staff ELSE x.new.staff
        /\ conv'.due = IF x.new.due = x.old.due THEN conv.due ELSE x.new.due
    BY <1>0, <1>4, FlushColumns
  <2>2. WillKeep(x) /\ PastDue(x.new, now) /\ PastDue(conv, now) /\ UnansweredHasClock
    BY <2>1 DEF ClockInv
  <2>3. /\ x.new.guest \in Stamp /\ x.new.staff \in Stamp /\ x.new.due \in Stamp
    BY <1>1, <2>1
  <2> HIDE DEF x
  <2>4. PastDue(conv', now')
    BY <2>1, <2>2 DEF PastDue
  <2>5. UnansweredHasClock'
    BY <1>0, <2>1, <2>2, <2>3 DEF WillKeep, UnansweredHasClock, Unanswered, InboxOps, Stamp
  <2>6. ASSUME NEW b \in Actors, txn'[b] # None
        PROVE  (WillKeep(txn[b]) /\ PastDue(txn[b].new, now))'
    <3>1. b # a /\ txn'[b] = txn[b] /\ WillKeep(txn[b]) /\ PastDue(txn[b].new, now)
      BY <2>1, <2>6 DEF ClockInv
    <3>2. {x.op, txn[b].op} \in Overlap
      BY <2>1, <2>6, <3>1 DEF ClockInv, Paired, x
    <3>3. txn[b].op = "reply" => x.op \notin {"text", "keyword"}
      BY <3>2 DEF AnswersApart
    <3>4. txn[b].op = "reply" => conv'.guest = conv.guest /\ conv'.due \in {conv.due, None}
      BY <2>1, <2>2, <3>3 DEF WillKeep, InboxOps
    <3> QED BY <2>1, <3>1, <3>4 DEF WillKeep
  <2> QED BY <1>0, <2>4, <2>5, <2>6 DEF ClockInv
<1>5. ASSUME NEW a \in Actors, Rollback(a) PROVE ClockInv'
  <2>1. /\ txn'[a] = None /\ \A b \in Actors \ {a} : txn'[b] = txn[b]
        /\ conv' = conv /\ now' = now
    BY <1>0, <1>5 DEF Rollback, InboxTypeOK
  <2> QED BY <1>0, <2>1 DEF ClockInv, UnansweredHasClock, Unanswered, WillKeep
<1>6. CASE UNCHANGED <<conv, txn>> /\ now' \in Time /\ now <= now'
  <2>1. PastDue(conv', now')
    BY <1>0, <1>2, <1>6 DEF ClockInv
  <2>2. (\A a \in Actors : txn[a] # None => WillKeep(txn[a]) /\ PastDue(txn[a].new, now))'
    BY <1>0, <1>1, <1>2, <1>6 DEF ClockInv, WillKeep
  <2>3. UnansweredHasClock'
    BY <1>6 DEF ClockInv, UnansweredHasClock, Unanswered
  <2> QED BY <1>0, <2>1, <2>2, <2>3 DEF ClockInv
<1> QED BY <1>0, <1>3, <1>4, <1>5, <1>6, InboxSteps

\* Where no reply is written while a text is, a guest who waits for an answer has a running
\* clock, started by the last text, whatever else overlaps (messages.py:116, 152-168).
THEOREM WaitersHaveClocks ==
    ASSUME {"text", "reply"} \notin Overlap, {"keyword", "reply"} \notin Overlap
    PROVE  InboxSpec => []UnansweredHasClock
<1>1. AnswersApart
  BY DEF AnswersApart
<1>2. ClockInv => UnansweredHasClock
  BY DEF ClockInv
<1> QED BY <1>1, <1>2, ClockInit, ClockNext, PTL DEF InboxSpec

----------------------------------------------------------------------------
\* What an open transaction x will write of the alert: a text and a reply clear it, also
\* where there was none when they began; a sweep's is of the clock that still runs.
WillAlert(x) ==
    /\ x.op \in {"text", "reply"} => /\ x.new.alerted = None
                                     /\ x.old.alerted = None => conv.alerted = None
    /\ x.op = "sweep" => /\ x.old.alerted = None /\ x.new.alerted # None
                         /\ x.new.due = x.old.due
                         /\ conv.due # None /\ conv.due < x.new.alerted
    /\ x.op \in {"keyword", "patch", "wake"} =>
          x.new.alerted = x.old.alerted /\ x.new.due = x.old.due

\* What AlertIsOurs needs to be inductive.
AlertInv ==
    /\ InboxTypeOK /\ Paired
    /\ AlertIsOurs
    /\ \A a \in Actors : txn[a] # None => WillAlert(txn[a])

SweepsApart == {"text", "sweep"} \notin Overlap /\ {"reply", "sweep"} \notin Overlap

LEMMA AlertInit == InboxInit => AlertInv
BY InboxStarts DEF AlertInv, Paired, AlertIsOurs

LEMMA AlertNext == SweepsApart /\ AlertInv /\ [InboxNext]_inboxVars => AlertInv'
<1> SUFFICES ASSUME SweepsApart, AlertInv, [InboxNext]_inboxVars PROVE AlertInv'
  OBVIOUS
<1> USE InboxConstants
<1>0. InboxTypeOK /\ InboxTypeOK' /\ Paired' /\ now \in Nat
  <2>1. InboxTypeOK' /\ Paired'
    BY InboxTypeNext, PairedNext DEF AlertInv
  <2>2. now \in Nat
    BY DEF AlertInv, InboxTypeOK, Time
  <2> QED BY <2>1, <2>2 DEF AlertInv
<1>1. ASSUME NEW a \in Actors, NEW op \in InboxOps, NEW d \in Row(Stamp), Opening(a, op, d)
      PROVE  AlertInv'
  <2>1. /\ txn' = [txn EXCEPT ![a] = [op |-> op, old |-> conv, new |-> d]]
        /\ conv' = conv /\ Effect(op, conv, d, now)
        /\ op = "sweep" => conv.due # None /\ conv.due < now /\ conv.alerted = None
    BY <1>1 DEF Opening, Begin
  <2>2. /\ txn'[a] = [op |-> op, old |-> conv, new |-> d]
        /\ \A b \in Actors \ {a} : txn'[b] = txn[b]
    BY <1>0, <2>1 DEF InboxTypeOK
  <2>3. WillAlert([op |-> op, old |-> conv, new |-> d])'
    BY <1>0, <2>1 DEF Effect, InboxOps, WillAlert
  <2>4. (\A b \in Actors \ {a} : txn[b] # None => WillAlert(txn[b]))'
    BY <2>1, <2>2 DEF AlertInv, WillAlert
  <2> QED BY <1>0, <2>1, <2>2, <2>3, <2>4 DEF AlertInv, AlertIsOurs
<1>2. ASSUME NEW a \in Actors, Commit(a) PROVE AlertInv'
  <2> DEFINE x == txn[a]
  <2>1. /\ x # None /\ x.op \in InboxOps
        /\ txn'[a] = None /\ \A b \in Actors \ {a} : txn'[b] = txn[b]
        /\ conv'.due = IF x.new.due = x.old.due THEN conv.due ELSE x.new.due
        /\ conv'.alerted = IF x.new.alerted = x.old.alerted THEN conv.alerted
                           ELSE x.new.alerted
    BY <1>0, <1>2, FlushColumns
  <2>2. WillAlert(x) /\ AlertIsOurs
    BY <2>1 DEF AlertInv
  <2> HIDE DEF x
  <2>3. AlertIsOurs'
    BY <2>1, <2>2 DEF WillAlert, AlertIsOurs, InboxOps
  <2>4. ASSUME NEW b \in Actors, txn'[b] # None PROVE WillAlert(txn[b])'
    <3>1. b # a /\ txn'[b] = txn[b] /\ WillAlert(txn[b])
      BY <2>1, <2>4 DEF AlertInv
    <3>2. {x.op, txn[b].op} \in Overlap
      BY <2>1, <2>4, <3>1 DEF AlertInv, Paired, x
    <3>3. /\ txn[b].op = "sweep" => x.op \notin {"text", "reply"}
          /\ txn[b].op \in {"text", "reply"} => x.op # "sweep"
      <4>1. {x.op, txn[b].op} = {txn[b].op, x.op}
        OBVIOUS
      <4> QED BY <3>2, <4>1 DEF SweepsApart
    <3>4. /\ txn[b].op = "sweep" => conv'.due = conv.due
          /\ txn[b].op \in {"text", "reply"} => conv'.alerted \in {conv.alerted, None}
      BY <2>1, <2>2, <3>3 DEF WillAlert, InboxOps
    <3> QED BY <3>1, <3>4 DEF WillAlert
  <2> QED BY <1>0, <2>3, <2>4 DEF AlertInv
<1>3. ASSUME NEW a \in Actors, Rollback(a) PROVE AlertInv'
  <2>1. /\ txn'[a] = None /\ conv' = conv
        /\ \A b \in Actors \ {a} : txn'[b] = txn[b]
    BY <1>0, <1>3 DEF Rollback, InboxTypeOK
  <2>2. (\A b \in Actors : txn[b] # None => WillAlert(txn[b]))'
    BY <2>1 DEF AlertInv, WillAlert
  <2>3. AlertIsOurs'
    BY <2>1 DEF AlertInv, AlertIsOurs
  <2> QED BY <1>0, <2>2, <2>3 DEF AlertInv
<1>4. CASE UNCHANGED <<conv, txn>>
  BY <1>0, <1>4 DEF AlertInv, AlertIsOurs, WillAlert
<1> QED BY <1>0, <1>1, <1>2, <1>3, <1>4, InboxSteps

\* Where sla.sweep writes no alert while a text or a reply is written, an alert is about the
\* clock it stands beside, whatever else overlaps (sla.py:14-35).
THEOREM AlertsAreOurs ==
    ASSUME {"text", "sweep"} \notin Overlap, {"reply", "sweep"} \notin Overlap
    PROVE  InboxSpec => []AlertIsOurs
<1>1. SweepsApart
  BY DEF SweepsApart
<1>2. AlertInv => AlertIsOurs
  BY DEF AlertInv
<1> QED BY <1>1, <1>2, AlertInit, AlertNext, PTL DEF InboxSpec

\* Both: after any sequence of texts, keywords, replies, patches, sweeps and snoozes' ends,
\* any of which may be rolled back, and though all but four pairs of them may overlap, every
\* waiting guest has a clock and every alert is about it (test_sla.py:45).
THEOREM ClockNeverLost ==
    ASSUME {"text", "reply"} \notin Overlap, {"keyword", "reply"} \notin Overlap,
           {"text", "sweep"} \notin Overlap, {"reply", "sweep"} \notin Overlap
    PROVE  InboxSpec => []ClockSound
<1>1. UnansweredHasClock /\ AlertIsOurs => ClockSound
  BY DEF ClockSound
<1> QED BY <1>1, WaitersHaveClocks, AlertsAreOurs, PTL
=============================================================================
