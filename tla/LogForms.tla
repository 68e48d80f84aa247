------------------------------ MODULE LogForms ------------------------------
(***************************************************************************)
(* A log template as a form, and the posts made with it: the fields of     *)
(* domain/log_templates.py, the body domain/log.py makes of the answers,   *)
(* and what is made of the two when a post is read.  With whom a template  *)
(* is shared, and what a post does, is in HotelLog.                        *)
(*                                                                         *)
(* One save or post after another.  Texts are tokens, and a body is a      *)
(* sequence of lines; a number comes in thousandths and is kept in         *)
(* hundredths.  A body past MAX_BODY is refused, as if it were not sent.   *)
(***************************************************************************)
EXTENDS Integers, FiniteSets, Sequences, Table

CONSTANTS
    Boxes,    \* fields, those not yet created included
    Labels,
    FormTypes, \* types of field, of those of LogFieldType; bounds the states
    Words,    \* texts that may be answered
    Lengthy,  \* those over MAX_SHORT_TEXT
    Numbers,  \* numbers that may be answered, in thousandths
    Notes,    \* notes of an author, each a sequence of lines
    Reports,  \* posts with the template
    Limit,    \* NUMBER_LIMIT, in hundredths
    Shelf     \* where the positions of retired fields begin

Numeric == {"integer", "decimal", "percent"}
Textual == {"short_text", "long_text"}

Box == [state : {"none", "active", "retired"}, position : Nat, label : Labels \cup {None},
        type : FormTypes \cup {None}, required : BOOLEAN]
Blank == [state |-> "none", position |-> 0, label |-> None, type |-> None, required |-> FALSE]

\* LogTemplateFieldIn: id, label, field_type, required.
BoxIn == [id : Boxes, label : Labels, type : FormTypes, required : BOOLEAN]

Rounded(n) == (n + 5) \div 10

\* _coerce: why an answer is refused, and what is stored of one that is not.
Refused(type, raw) ==
    \/ type = "short_text" /\ raw \in Lengthy
    \/ type \in Numeric /\ raw \in Words
    \/ type = "integer" /\ raw \in Numbers /\ raw % 1000 # 0
    \/ type = "percent" /\ raw \in Numbers /\ raw \notin 0 .. 100000
    \/ type \in Numeric /\ raw \in Numbers /\ (Rounded(raw) >= Limit \/ Rounded(raw) <= -Limit)
Stored(type, raw) == IF type \in Numeric /\ raw \in Numbers THEN Rounded(raw) ELSE raw

\* LogEntryFieldValue: an answer, under the label and the type its field has now; and a line
\* of a body.
Answers == {Stored(t, raw) : t \in FormTypes, raw \in Words \cup Numbers}
ValueRow == [field : Boxes, label : Labels, type : FormTypes, value : Answers]
BodyLine == (Labels \X BOOLEAN \X Answers) \cup UNION {{n[i] : i \in DOMAIN n} : n \in Notes}

\* A number that rounds to zero from below is left out: its body line says -0, and the row
\* that is read back 0.  So is one half way between two hundredths.
ASSUME FormsAssumption ==
    /\ FormTypes \subseteq Numeric \cup Textual
    /\ Numbers \subseteq Int /\ \A n \in Numbers : (n < -5 \/ n >= 0) /\ n % 10 # 5
    /\ IsFiniteSet(Boxes) /\ Cardinality(Boxes) < Shelf
    /\ Limit \in Nat /\ Shelf \in Nat
    /\ Notes \subseteq Seq(BodyLine) /\ <<>> \in Notes /\ Lengthy \subseteq Words

VARIABLES
    box,     \* each field's row
    inUse,   \* the template is active
    report,  \* per post, its row and the rows of its values
    meant    \* history: per post, what its author answered and noted, labels as they were

formsVars == <<box, inUse, report, meant>>

BoxMade == {b \in Boxes : box[b].state # "none"}
Fillable == {b \in Boxes : box[b].state = "active"}
InOrder(bs) == Listing(bs, {p \in bs \X bs : box[p[1]].position < box[p[2]].position})

\* Slip: a retired field may come back as another type.
KeepsTypeSlip(x) == box[x.id].state = "active" => x.type = box[x.id].type
KeepsType(x) == box[x.id].state # "none" => x.type = box[x.id].type

\* _sync_fields: those listed are made or kept, in their places; the rest is retired.
SyncedBoxes(listed) ==
    LET kept == {listed[i].id : i \in DOMAIN listed}
        gone == InOrder(BoxMade \ kept)
        at(b) == CHOOSE i \in DOMAIN listed : listed[i].id = b
    IN  [b \in Boxes |->
            CASE b \in kept ->
                   [state |-> "active", position |-> at(b) - 1, label |-> listed[at(b)].label,
                    type |-> listed[at(b)].type, required |-> listed[at(b)].required]
              [] b \in BoxMade \ kept ->
                   [box[b] EXCEPT !.state = "retired",
                                  !.position = Shelf + PlaceIn(gone, b) - 1]
              [] OTHER -> box[b]]

\* summary: a line per value.
Summary(values) ==
    [i \in DOMAIN values |-> <<values[i].label, values[i].type = "percent", values[i].value>>]

\* notes_of
NotesOf(body, values) ==
    LET n == Len(values)
    IN  IF n <= Len(body) /\ SubSeq(body, 1, n) = Summary(values)
        THEN SubSeq(body, n + 1, Len(body)) ELSE body

\* Slip: a value is shown under the label its field has now.
ReadSlip(r) ==
    LET vs == [i \in DOMAIN report[r].values |->
                  [report[r].values[i] EXCEPT !.label = box[report[r].values[i].field].label]]
    IN  [values |-> vs, notes |-> NotesOf(report[r].body, vs)]

\* _to_out, of a templated post.
ReadOut(r) == [values |-> report[r].values, notes |-> NotesOf(report[r].body, report[r].values)]

----------------------------------------------------------------------------
FormsInit ==
    /\ box = [b \in Boxes |-> Blank]
    /\ inUse = FALSE
    /\ report = [r \in Reports |-> None]
    /\ meant = [r \in Reports |-> None]

\* create and patch, with fields.
SaveForm(active, listed) ==
    /\ \A i \in DOMAIN listed : KeepsType(listed[i])
    /\ inUse' = active
    /\ box' = SyncedBoxes(listed)
    /\ UNCHANGED <<report, meant>>

\* patch, without.
SwitchForm(active) ==
    /\ BoxMade # {}
    /\ inUse' = active
    /\ UNCHANGED <<box, report, meant>>

\* log.create with a template: check_values, then the body.
FileReport(r, raw, notes) ==
    LET answered == InOrder({b \in Fillable : raw[b] # None})
        values == [i \in DOMAIN answered |->
                      LET b == answered[i]
                      IN  [field |-> b, label |-> box[b].label, type |-> box[b].type,
                           value |-> Stored(box[b].type, raw[b])]]
        body == Summary(values) \o notes
    IN  /\ report[r] = None
        /\ inUse
        /\ \A b \in Boxes : raw[b] # None => b \in Fillable /\ ~Refused(box[b].type, raw[b])
        /\ \A b \in Fillable : box[b].required => raw[b] # None
        /\ body # <<>>
        /\ report' = [report EXCEPT ![r] = [values |-> values, body |-> body]]
        /\ meant' = [meant EXCEPT ![r] = [values |-> values, notes |-> notes]]
        /\ UNCHANGED <<box, inUse>>

FormsNext ==
    \/ \E active \in BOOLEAN :
        \/ SwitchForm(active)
        \/ \E n \in 1 .. Cardinality(Boxes) : \E listed \in [1 .. n -> BoxIn] :
            /\ \A i, j \in 1 .. n : listed[i].id = listed[j].id => i = j
            /\ SaveForm(active, listed)
    \/ \E r \in Reports, raw \in [Boxes -> Words \cup Numbers \cup {None}], notes \in Notes :
        FileReport(r, raw, notes)

FormsSpec == FormsInit /\ [][FormsNext]_formsVars

----------------------------------------------------------------------------
FormsTypeOK ==
    /\ box \in [Boxes -> Box]
    /\ inUse \in BOOLEAN
    /\ report \in [Reports -> {None} \cup [values : Seq(ValueRow), body : Seq(BodyLine)]]

\* A post reads for ever as it was written, whatever becomes of its template: its answers
\* under the labels they were given to, and of its body the notes of the author and nothing
\* else ("editing the template never changes a past post", models/log.py:152-153; "the read
\* side rebuilds exactly the text the write side stored", log_templates.py:334-336); and a
\* field that was answered keeps the type of its answers, retired and brought back too (a
\* change "would mean something else", log_templates.py:3-6).
PostsReadBack ==
    \A r \in Reports : report[r] # None =>
        /\ ReadOut(r) = meant[r]
        /\ \A i \in DOMAIN report[r].values :
            box[report[r].values[i].field].type = report[r].values[i].type
=============================================================================
