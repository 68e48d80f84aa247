---------------------------- MODULE FirstContact ----------------------------
(***************************************************************************)
(* Texts from one phone number that arrive at once: the sms_inbound hook,  *)
(* channels/inbound.py, domain/guests.py, domain/conversations.py and the  *)
(* PMS check-in that may create the same guest (pms/handle_event.py).      *)
(*                                                                         *)
(* Every request is a READ COMMITTED transaction, one statement at a time: *)
(* a SELECT sees what is committed, a row another transaction has written  *)
(* and not yet committed makes a second writer wait, and so does a unique  *)
(* key.  (SQLite's single write lock allows fewer interleavings.)  Nothing *)
(* makes a conversation unique per guest but the order of the statements.  *)
(***************************************************************************)
EXTENDS Naturals, FiniteSets, Table

CONSTANTS
    Texts,    \* the guest's texts, by provider SID; the hook may get one again
    Keyword,  \* the ones that change consent when recorded: STOP, START
    Threads   \* request threads

ASSUME FirstContactAssumption ==
    /\ Keyword \subseteq Texts
    /\ None \notin Threads \cup Texts

VARIABLES
    guest,    \* the committed guest row: "absent", or its consent
    convs,    \* committed conversations, named by the text that opened them
    recorded, \* how many committed messages each text has
    req       \* the transaction each thread has open

contactVars == <<guest, convs, recorded, req>>

\* What a lookup of the guest may find.
Consent == {"absent", "unknown", "known"}
Steps == {"idle", "guest", "consent", "find", "record", "reply", "commit"}

\* locked: the transaction has written the guest row;  conv: the conversation it
\* uses;  noted: it has inserted its message.
ContactRequest == [pc : Steps, text : Texts \cup {None}, saw : Consent,
            locked : BOOLEAN, conv : Texts \cup {None}, noted : BOOLEAN]

Idle == [pc |-> "idle", text |-> None, saw |-> "absent",
         locked |-> FALSE, conv |-> None, noted |-> FALSE]

\* The guest row, or the unique key (property, phone), is free for t to write.
GuestFree(t) == \A u \in Threads \ {t} : ~req[u].locked

\* The definitions named ..Slip are mistakes one could make in the next one: the
\* checks are tried on them, and the specification does not use them.
SidSlip(t, x) == TRUE

\* The unique key (property, provider_message_id) is free for t to insert.
SidFree(t, x) == \A u \in Threads \ {t} : ~(req[u].noted /\ req[u].text = x)

Recorded == {x \in Texts : recorded[x] > 0}

----------------------------------------------------------------------------
ContactInit ==
    /\ guest = "absent"
    /\ convs = {}
    /\ recorded = [x \in Texts |-> 0]
    /\ req = [t \in Threads |-> Idle]

Go(t, r) == req' = [req EXCEPT ![t] = r]

\* The hook is called with a text.  A text already recorded is answered at once.
Receive(t, x) ==
    /\ req[t] = Idle
    /\ x \notin Recorded
    /\ Go(t, [Idle EXCEPT !.pc = "guest", !.text = x])
    /\ UNCHANGED <<guest, convs, recorded>>

\* A check-in or a reservation for the same phone: only the guest is created.
CheckIn(t) ==
    /\ req[t] = Idle
    /\ guest = "absent"
    /\ Go(t, [Idle EXCEPT !.pc = "guest"])
    /\ UNCHANGED <<guest, convs, recorded>>

\* find_or_create_by_phone, the first SELECT: the guest is there.
AfterGuest(t) == IF req[t].text = None THEN "commit" ELSE "consent"

FindGuest(t) ==
    /\ req[t].pc = "guest"
    /\ guest # "absent"
    /\ Go(t, [req[t] EXCEPT !.pc = AfterGuest(t), !.saw = guest])
    /\ UNCHANGED <<guest, convs, recorded>>

\* No guest: INSERT, which waits for another writer of that phone.  (If the other
\* commits, IntegrityError rolls the savepoint back and the SELECT is repeated,
\* which is FindGuest.)
InsertGuest(t) ==
    /\ req[t].pc = "guest"
    /\ guest = "absent"
    /\ GuestFree(t)
    /\ Go(t, [req[t] EXCEPT !.pc = AfterGuest(t), !.saw = "unknown", !.locked = TRUE])
    /\ UNCHANGED <<guest, convs, recorded>>

\* Slip: consent is not written before the conversation is looked for.
OptInSlip(t) ==
    /\ req[t].pc = "consent"
    /\ req[t].saw = "unknown"
    /\ Go(t, [req[t] EXCEPT !.pc = "find"])
    /\ UNCHANGED <<guest, convs, recorded>>

\* The implied consent of a first text: an UPDATE of the guest row.
OptIn(t) ==
    /\ req[t].pc = "consent"
    /\ req[t].saw = "unknown"
    /\ GuestFree(t)
    /\ Go(t, [req[t] EXCEPT !.pc = "find", !.locked = TRUE])
    /\ UNCHANGED <<guest, convs, recorded>>

KnownAlready(t) ==
    /\ req[t].pc = "consent"
    /\ req[t].saw = "known"
    /\ Go(t, [req[t] EXCEPT !.pc = "find"])
    /\ UNCHANGED <<guest, convs, recorded>>

\* find_or_create_for_guest: any conversation of the guest, or a new one.
FindConversation(t) ==
    /\ req[t].pc = "find"
    /\ \E c \in IF convs = {} THEN {req[t].text} ELSE convs :
         Go(t, [req[t] EXCEPT !.pc = "record", !.conv = c])
    /\ UNCHANGED <<guest, convs, recorded>>

\* record_inbound: the INSERT of the message.
Record(t) ==
    /\ req[t].pc = "record"
    /\ req[t].text \notin Recorded
    /\ SidFree(t, req[t].text)
    /\ Go(t, [req[t] EXCEPT !.noted = TRUE,
                            !.pc = IF req[t].text \in Keyword THEN "reply" ELSE "commit"])
    /\ UNCHANGED <<guest, convs, recorded>>

\* STOP and START update the guest row, after the message is inserted.
ChangeConsent(t) ==
    /\ req[t].pc = "reply"
    /\ GuestFree(t)
    /\ Go(t, [req[t] EXCEPT !.pc = "commit", !.locked = TRUE])
    /\ UNCHANGED <<guest, convs, recorded>>

\* Slip: a check-in, too, leaves a conversation.
CommitSlip(t) ==
    /\ req[t].pc = "commit"
    /\ guest' = IF req[t].locked THEN "known" ELSE guest
    /\ convs' = convs \cup {req[t].conv}
    /\ recorded' = [x \in Texts |-> recorded[x] + (IF x = req[t].text THEN 1 ELSE 0)]
    /\ Go(t, Idle)

\* The transaction is committed: its writes are seen, its locks are free.
ContactCommit(t) ==
    /\ req[t].pc = "commit"
    /\ guest' = IF ~req[t].locked THEN guest
                ELSE IF req[t].text = None THEN "unknown" ELSE "known"
    /\ convs' = convs \cup ({req[t].conv} \ {None})
    /\ recorded' = [x \in Texts |-> recorded[x] + (IF x = req[t].text THEN 1 ELSE 0)]
    /\ Go(t, Idle)

\* The transaction is rolled back: the SID is taken, the database breaks a
\* deadlock, the client goes away.  The hook answers 500 and is called again.
ContactRollback(t) ==
    /\ req[t] # Idle
    /\ Go(t, Idle)
    /\ UNCHANGED <<guest, convs, recorded>>

----------------------------------------------------------------------------
Statement(t) ==
    \/ FindGuest(t)
    \/ InsertGuest(t)
    \/ OptIn(t)
    \/ KnownAlready(t)
    \/ FindConversation(t)
    \/ Record(t)
    \/ ChangeConsent(t)
    \/ ContactCommit(t)

ContactNext ==
    \E t \in Threads :
        \/ \E x \in Texts : Receive(t, x)
        \/ CheckIn(t)
        \/ Statement(t)
        \/ ContactRollback(t)

ContactSpec == ContactInit /\ [][ContactNext]_contactVars

----------------------------------------------------------------------------
ContactTypeOK ==
    /\ guest \in Consent
    /\ convs \in SUBSET Texts
    /\ recorded \in [Texts -> Nat]
    /\ req \in [Threads -> ContactRequest]

\* A guest has one conversation, however many first texts and check-ins arrive
\* together: find_or_create_for_guest's "the guest's single live conversation"
\* (conversations.py:60-86).  No constraint says so; what does is that a first
\* text writes the guest row before it looks for a conversation.
SingleConversation == \A c, d \in convs : c = d

\* A text the provider posts twice, even at once, is one message (inbound.py:30-35,
\* uq_message_property_provider).
TextsOnce == INSTANCE Intake WITH Sent <- Texts, taken <- recorded
TextsTakenOnce == TextsOnce!Spec
=============================================================================
