# message_app: models, checks and proofs

message_app is the guest-messaging and operations server of a hotel: guests text
a property's number, staff answer from a shared inbox, and around it live
housekeeping, work orders, maintenance, checklists, a log and a staff chat. These
TLA+ modules model the parts of `src/server/app` (and the cache of the web client)
in which the order of events decides whether the program is right. TLC checks
them on small instances, and TLAPS proves the most important properties for every
value of the constants. `PROJECT.json` says which lines each definition stands
for, which run checks what, and which hazard each property is for.

## The program

One process, as deployed: gunicorn with one worker and sixteen request threads,
plus two threads the application starts itself, the job worker
(`queue/worker.py`) and the presence sweeper. A request, or a job, is one
database transaction: a session per call, committed at its end; events queued in
it are delivered to the sockets after the commit. The database is SQLite in WAL
mode, with one writing transaction at a time (development), or PostgreSQL at READ
COMMITTED (production, on Railway).
Hardly any row is locked (the exceptions are checklist instances, and the rows a
statement writes) and none is versioned, so what a handler has read may be stale
when it writes. SQLAlchemy updates the columns that changed and no others. A
process may die at any point; a job it was running is taken back once its lock
is stale.

### Inventory

| Component (`server/app/...`) | State | Operations | What is hard | What makes it right |
|---|---|---|---|---|
| Job queue: `queue/jobs.py`, `queue/worker.py` | the `job` table; a worker's batch | enqueue, ensure_recurring, claim_due, complete, fail, reclaim_stale, schedule_next_recurrence | crash with jobs claimed; a handler that outlives its lock; two workers; a sweep that exists only because its predecessor enqueued it | every job is settled, once; each recurring chain has one live job, always; one job, one worker |
| Outbound messages: `domain/messages.py`, `queue/handlers/outbound.py`, `channels/twilio_sms.py`, `api/hooks.py` | `message.delivery_status`, its SID, the `outbound.send` jobs | send, retry, job, status callback | the provider is outside the transaction; callbacks late, repeated, concurrent; a retry | nothing is stranded; nobody is texted twice without cause; status moves forward; an old callback is harmless |
| SMS consent: `domain/consent.py`, `channels/inbound.py` | `guest.sms_consent_status` | opt-out, opt-in, assert_can_send, keywords | a send that has read the consent a STOP then changes | nothing but the confirmation is sent after STOP |
| Inbound messages and guests: `channels/inbound.py`, `domain/guests.py` | guests, messages, conversations | the hook, find_or_create (guest, conversation), record_inbound | two first texts at once; a webhook delivered twice; a check-in beside them | one guest, one conversation, each text once |
| Conversations, SLA, snooze: `domain/conversations.py`, `queue/handlers/sla.py`, `snooze.py` | a conversation's status, clock, alert, stamps, assignee | text, reply, patch, sweep, wake, list | sweep and reply at once; keywords that answer by themselves; lists that are conditions over NULLs | whoever waits has a clock; an alert is about the clock it is on; every conversation is in one list |
| Housekeeping: `domain/hk_*.py` | a room's status and service, its assignments and their places, occupancy | assign, reorder, unassign, start, complete, inspect, rush, out of order, mark dirty, check-out, tick | midnight; a check-out during a clean; rows of an earlier day | no room is stuck, none is shown ready that was left, one assignment a day; a list in the order it was given |
| Work orders, draft prompts: `domain/work_orders.py`, `domain/draft_prompts.py` | status, assignee, stamps, event log; a pending draft text | create, assign, transition, priority, notify; dismiss, send | check-then-act on the status; completed twice at once; several changes in one request | one pending prompt an order, and always one after a completion; no way back from a run that was begun; row, timeline and figures agree |
| Preventive maintenance: `domain/pm_*.py`, `queue/handlers/pm.py` | templates, cycles, runs and their answers, units, the work order of a scheduled run | open and close a cycle, edit the scope, the cadence or the schedule, fire, start, answer, complete, inspect | a tick beside requests that start, pass and edit; months without a tick; items edited under way | a unit is done once a cycle; a closed cycle accounts for everyone and stays as it is; each occurrence has its runs once; a run can always be settled |
| Checklists: `domain/ck_*.py`, `domain/typed_items.py`, `domain/shifts.py` | templates, categories, items, instances, answers | patch, generate, start, answer, complete, miss | the tick beside a completion; whole lists replaced, and retired rows brought back | generated once; completed or missed as its shift's window says; a template stays whole |
| PMS events: `pms/*.py`, `domain/stays.py` | the event ledger, stays | handle_event | an event sent again, at once or out of order | an event has its effects once; a stay's stamps follow its status |
| Realtime and the client: `db.py`, `realtime/*.py`, `web/src/api/ws.ts` | queued events, the sockets, the client's queries | commit, deliver, subscribe, refetch, reconnect | an event lost with its socket; a refetch that fails or is cancelled | what a reconnected page shows is what is committed |
| Presence: `realtime/presence.py`, `ws.py` | who views what, and since when | join, leave, sweep, broadcast | two tabs of one user; lists taken and sent by several threads | who is listed is there; pages show the list |
| Staff messages: `domain/staff_messages.py` | rooms, participants, read marks | open, send, read, add, remove | look-ups and writes of several requests | a dm is of two; what one has not seen shows as unread |
| Hotel log: `domain/log.py`, `log_templates.py` | entries, their values, mentions and acknowledgements; templates, fields, audiences | post, acknowledge, pin, page, share, save | members and departments that go; fields renamed and retired; pages cut while others post | told once; a post reads as it was written; no entry skipped |
| Users, auth, rate limiter: `domain/users.py`, `auth/*.py`, `ratelimit.py` | memberships, departments; sessions; the attempts | add, change, remove; sign in, touch, sign out | two administrators at once; a sign-out beside a request | an administrator is left; a session that has ended stays ended |
| Notifications: `domain/notifications.py` | notification rows | notify, mark read, mark all | an empty department; a mark-all beside an arrival | somebody is told; nothing is marked read that came later |
| Assets: `domain/assets.py` | assets and their codes | create, patch, delete, open | a code drawn twice; a deleted asset | a link opens the asset it was sent for, or nothing |
| Quick replies, categories, photos, most reports, analytics, views | rows edited by one request at a time, reads | | little that a unit test does not reach | |

How they meet: a request writes rows and enqueues jobs in the same transaction
(messages and `outbound.send`); the worker runs handlers that write the same rows
(`sla.sweep`, `snooze.wake`, `housekeeping.tick`, `pm.tick`, `checklist.tick`); the
provider and the PMS call back into requests; a PMS event creates guests, moves
stays and dirties rooms; every commit may send events to the open pages.

### Hard behaviours

`PROJECT.json` lists the hazards by line, and for each the properties that would
catch it. A note says how far they reach: several hold only while certain
transactions do not overlap, because the code locks nothing there, and the note
then says what happens when they do.

## The modules

A state of a module is what is committed in the database plus what each thread
carries from a read to its commit. An action is a whole handler, or the part of
it up to the next point where another transaction can be seen. A handler that
another cannot interleave with (or whose interleaving is modelled elsewhere) is
one action. Definitions named `..Slip` are deliberate mistakes, each the one a
programmer could have made in the definition that follows it; no specification
uses them. They are what the properties are tried on: with the slip in place of
the real definition, TLC must report the property violated.

`Table` has what the modules of the database share: `None` (NULL); `Flushed`, the
UPDATE of the columns in which an object differs from the row it was loaded from;
`Listing`, an ORDER BY; and `ListsOf` and `PlaceIn`, the lists a request may send and
the places in them.

### Messaging

**JobQueue** (`queue/jobs.py`, `queue/worker.py`, start-up in `__init__.py`).
`job` is the table; `pc`, `seen`, `stale`, `batch`, `cur`, `outcome`, `plan` are a
worker's locals between its statements; `writer` is SQLite's write lock. `tick` is
`TickBegin` (the SELECTs of `reclaim_stale` and `claim_due`) and `ClaimCommit`
(their UPDATEs, commit); a handler is `RunHandler`, which ends in one of three
ways; settling is `SettleRead` (`complete` or `fail` flushed, look for a successor)
and `SettleCommit`. `Crash` loses the memory and keeps the table; `TickCrash` is an
exception out of the loop, which leaves the rest of a batch running.
Time is relative (how long until `run_at`, how old the lock), so `Elapse` needs no
bound.

**JobPromise** is what the queue is for, without workers, locks or time: a job is
tried, again if it failed and has attempts left, and finished once; one that is no
sweep is finished in the end. `JobsKept` says that JobQueue implements it, under
`job[r].status` for the state and, while a row is live, its `attempts`.

**Delivery** (`domain/messages.py`, `domain/consent.py`, `outbound.py`, `hooks.py`).
`msg` is the table, `sends` counts the unfinished `outbound.send` jobs of each,
`reg` is what a request has read, `accepted` and `reported` are the provider: which
message each call was for, and what it has sent out about it. A callback may be
handled any number of times, at any later moment. A crash between the provider's
answer and the commit forgets the SID and keeps the job. Of the queue Delivery
uses what `JobPromise` states: a job is run until a transaction that completes it
commits.

**FirstContact** (the inbound hook, `find_or_create_by_phone`,
`find_or_create_for_guest`, `record_inbound`, `implied_consent`, a check-in). One
phone number, READ COMMITTED, one statement per action. `guest`, `convs`,
`recorded` are what is committed; `req` is each open transaction, with the locks
it holds. This is where "the guest's single live conversation", which no constraint
of the schema states, is shown to follow from the order of the statements: a
first text writes the guest row (which locks it) before it looks for a
conversation. A text may be posted again while it is being handled, and two
transactions that wait for one another are a deadlock the database ends.

**Intake** is the promise to another system that repeats itself: what is sent any
number of times is taken once. FirstContact implements it for texts
(`TextsTakenOnce`) and Stays for PMS events (`EventsTakenOnce`).

**Inbox** (one conversation: `conversations.patch`, `messages.send`,
`record_inbound`, `sweep_once`, `wake_once`, the resolved listing). Each operation
is a function from the row it loaded to the row it leaves; `Commit` writes only the
columns that differ (`Flushed`). `Overlap` names the pairs of operations whose
transactions may run at once. That there is one conversation is FirstContact's result.

**Desk** (the lists of the inbox, their badge, and the assignment of `patch`). The
lists are WHERE clauses over columns that may be NULL, so a condition is "true",
"false" or neither, as SQL has it. One request follows another.

**ShortLinks** (`domain/assets.py`, `api/short_links.py`). A code is looked up, then
the asset is inserted; the unique key is all that stands between two that draw the
same. `texted` is history: which asset each sent link was for.

### Operations

**Housekeeping** (one room, `hk_transitions.py`, `hk_assignments.py`, `hk_rooms.py`,
`hk_tick.py`, the check-out event). A row keeps whether its date is today's, so
`Midnight` needs no calendar. `Orderly` restricts staff to the assignment the board
shows and to the time after the day's first tick; without it, any request comes at
any time. Transactions come one after another. A check-out acts whoever is in the room: late,
with the next guest or a room mate already in it, or of a stay that never came (`Leaving`).
`soiled` is history, for the properties: the room was told that its last guest has left.

**Rounds** (the lists of several housekeepers). Whose each room is and in which place,
through assign, reorder, handing on, the transitions that move a row along, and the
tick that carries rows over. `given` is history: the order each list was asked for, as
a set of pairs, of which a room that goes takes its own with it and a room that comes adds
those of the last place.

**Sweep** (one sweep template: `pm_cycles.py`, `pm_runs.py`, `pm_inspection.py`,
`pm_templates.patch`, `pm_units.py`, `roll_cycles` of `queue/handlers/pm.py`, the
counts of `pm_reports.py`). `cycles` is keyed by the month a window starts in, which
is the schema's unique key; `rows` counts a unit's runs by status. `pm.tick` is
one transaction over every template of every property, so it is split: `TickReads`
(the open cycle, who is in scope, who has passed), any number of requests,
`TickCommits` (the missed rows, the closed cycle, the new one) or `TickFails`.
Requests come one after another. `recast` and `due` are history: whether the
cadence was ever changed, and who was in scope when a cycle closed. A unit the
tick recorded missed may still pass afterwards, when its run was under way; the
reports then count it as passed, and so does `MissedIn`.

**PmPlans** (several templates beside one another, and phase B of `pm.tick`). Rules are
sets of instants. `runs` counts what was made of each occurrence; `since`, `visited`
and `bare` are history: since when a template is on under its rule, the last instant
a tick went past, and occurrences that had no unit. `Overrun` lets a tick still be
under way at the next instant.

**RunSheet** (the answers of one run). Items are saved and retired, limits edited,
inspectors come and go, while a run is begun, answered, completed and inspected.

**WorkOrders** (`work_orders.py`, `draft_prompts.py`, and what `pm_runs.py`,
`pm_inspection.py` and `_create_scheduled_run` do to the order of a scheduled run).
A PATCH is three steps: it reads the order and checks the transition against what it
read; its flush takes the row's lock, and only after that is a pending prompt looked
for; its commit shows both. `Overlapping` names the operations on the same order that may
come between them: `"patch"` itself, the maintenance run's, a prompt's. What is done to
another order comes at any time. A run
completed with answers out of range raises orders of its own (`raised`).

**OrderLedger** (the same orders as records). The row with its assignee, department,
acknowledgement and stamps, the timeline of `work_order_event`, and what
`analytics.overview` counts of them. A request does what a PATCH may: an assignment, a
priority, a transition, a comment, in the handler's order, one request after another.

**Checklists** (the instances of one template: `ck_instances.py`, `ck_tick.py`,
`shifts.py`). The clock counts quarters of a day, cut at the shifts. The tick and a
completion are two steps each, what they read and what they commit; `Beside` names the
requests that may commit during a completion of the same instance; those on another
instance may come at any time. Only `start` locks the row (`_load_for_update`); an answer and a
completion load it without.

**ChecklistTemplates** (`ck_templates.py`, `typed_items.py`, `ck_library.py`). Two lists,
each replaced as a whole, in which nothing is deleted. The SELECT of what is retired has
no order, so `gone` is any list of it.

**Stays** (`pms/handle_event.py`). A transaction registers the event in the ledger,
finds or makes the stay, and writes. What it has inserted makes another that inserts
the same key wait.

### Staff and pages

**Members** (`domain/users.py`) and **HotelLog**, which extends it. A change of a
membership checks that an administrator is left and writes later. A post works out
whom it mentions and asks, from the members of that moment; `told` counts the
notifications of each.

**LogForms** (a log template as a form, and its posts). A body is a sequence of lines:
generated ones, then the author's notes, and the read side has to tell them apart.
`meant` is history: what the author answered and noted.

**LogFeed** (the feed by pages). An entry is stamped when it is flushed and seen when
it commits. `reader` is one reader with a cursor, and what they were shown.

**StaffChat** (`staff_messages.py`). What a request looks up and what it writes are two
steps. No time is kept: `fresh` says how the two stamps of a room compare for each
member. `Crossing` lets others look or send in a room while one sends there.

**LiveView** (`db.py`, `broadcast.py`, `registry.py`, `ws.py`, `web/src/api/ws.ts`). One
page with one query: commits owe events, a socket is dialled, added, open or down, an
event makes the query refetch, and requests fail or are cancelled.

**Presence** (`presence.py`, `ws.py`). Changing the store, taking the list of it and
sending that list are three steps of a thread. `Overtake` lets a list be sent after a
newer one.

**Alerts** (`notifications.py`, `notes.py`, `hk_supervisors`). Whom a notification
reaches, and marking one or all as read, which selects first and writes later.

**SignIn** (`auth/sessions.py`, `require_auth`, `api/auth.py`, `ratelimit.py`).
`require_auth` is a transaction of its own before the handler's; the limiter's queue is
in memory and gone after a restart. `born`, `signedOut` and `tries`, the list of every attempt
that was let through, are history.

### Composition

Parts that share no variable are checked together, since every behaviour of one is a
behaviour in which the others stand still: `part` says which one moves. **MCHotel**
has JobQueue, FirstContact, Inbox, Housekeeping, Checklists, ChecklistTemplates, Stays,
LiveView, Presence, StaffChat and HotelLog; **MCFrontDesk** Delivery, Desk, ShortLinks,
LogForms, LogFeed, Alerts and SignIn; **MCUpkeep** Sweep, WorkOrders, PmPlans,
RunSheet, OrderLedger and Rounds. **MCJobQueue** and **MCChecklists** hold constants a cfg
cannot write. Where components do interact, one module has both sides: HotelLog the
members, WorkOrders the runs and prompts, Delivery the consent and the jobs, Inbox the
sweep and the requests, Stays and Housekeeping the two sides of an event.

The proofs follow the compositions. **JobQueueProofs**, **InboxProofs** (FirstContact and
Inbox), **HousekeepingProofs** and **SweepProofs** (Sweep, RunSheet, PmPlans) are each
about their components. **FrontDeskProofs**, **UpkeepProofs** and **HotelProofs** have the other
parts of their composition and end with the composition itself; they extend its MC
module and the proofs of the parts they do not hold. **TableProofs** has what several need:
counting, least elements, and that what is finite and strictly ordered can be listed.

## The runs

| Run | Instance | Distinct states | Asks |
|---|---|---|---|
| JobQueueOne | 1 worker, PostgreSQL, 2 rows of a sweep and 2 of a one-shot type, Stale 1, 2 faults, handlers may outlive their lock | 207k | chains never break or double; the queue keeps the promise of `JobPromise`; every sweep goes on |
| FrontDesk | the seven parts of MCFrontDesk, one behaviour of each | 380k | texts: nothing stranded or sent twice, all handed over; lists, links, posts, pages, notifications, sessions |
| Hotel | the eleven parts of MCHotel | 1.03M | two workers; first contact; a conversation's clock; a room's days; checklists; stays; pages that follow; rooms of the chat; who is told |
| Upkeep | the six parts of MCUpkeep | 2.17M | cycles and their evidence; orders, prompts and runs; schedules; sheets; the ledger; the housekeepers' lists |
| DeliveryRace, DeliveryStop, InboxIgnored, HousekeepingMidnight, SweepPercent, EditsSpareStarted, LastAdmin, TemplateShared | one part, with the overlap or the bound the disagreement needs | stops at the first | each finds one of the findings below |

A run of several parts asks the properties of all of them. A property of one part
is trivially kept by the behaviours of the others; `part` never changes, so what is
found of a part is what a run of its own would find. Where a part does not move it
starts in one state (`Settled` in MCHotel; in MCFrontDesk and MCUpkeep the conjuncts `part # ... =>`), which
bounds nothing, since it is not looked at there.

The bounds, and why they are enough for what is asked (the comments of each `.cfg`
give them by part):

- *JobQueue, one worker.* Two rows of the recurring type are a running job and its
  successor, or the job and the duplicate that `ChainIsSingle` must exclude. Two one-shot
  jobs, with two attempts each, are claimed together and settled one after the
  other, with their retry, their last failure and their reclaim. Two faults let a
  worker crash while it recovers from a crash. `Stale = 1` lets a lock be fresh, at
  its limit and past it. *Two workers:* three rows of the sweep, since each may hold one
  while a third is enqueued. A tick claims one: both may still have read the same one,
  which is all the compare-and-swap is about.
- *Delivery.* One message meets everything that can happen to one: two retries, at
  once or one after the other, with the three calls they make, a crash between a
  call and its commit, and callbacks about a call that was superseded. Messages
  share the worker and the guest's consent and nothing else; that a SID is never
  taken for another message's is proved (`SidsBelong`), and the runs that find the
  disagreements have two. `Overlapping = {"retry"}`: no other request about the message
  runs beside a status callback. With two at once `ForwardOnly` fails, which is finding 1.
- *FirstContact.* Three transactions are two texts, and a repeat or a check-in. A
  third text would repeat the second's role, since only "some conversation exists"
  is read.
- *Inbox.* Stamps are compared with one another, with `now` and with the two
  delays, all shorter than the clock: a text, its breach, a keyword, a reply and another text
  fit in 5, and the end of a silence too in the 7 of InboxIgnored. A request thread and the
  worker's: `Overlap` lets a keyword or a PATCH run beside a sweep, and a text or a reply beside
  the end of a snooze. Two request threads, and the pairs no run has, are in the proofs.
  *Desk:* a snooze, a reply and the silence that resolves a conversation fit in four hours.
- *Housekeeping.* Three rows are today's, one left done or assigned from before, and
  one more from before that. Days are unbounded. *Rounds:* three rooms can be in an order
  that two cannot, for instance one passed between two that stay.
- *Sweep.* One unit, since no operation on a unit reads another's runs and each
  property is of one unit or of none. Four months: a monthly cadence has several
  windows and a quarterly one closes, with a month left for what follows it, and a
  tick may sleep through any of them.
- *WorkOrders.* Orders meet in one place: the run of one raises another. So one of the two
  may come from anywhere, and the other is neither of a conversation nor scheduled
  (`Plain`). Two PATCHes: more than two meet at the same lock, two at a time.
  `Overlapping = {"patch"}`: a run's step beside a PATCH can put its order back among
  the assigned ones, and a prompt resolved while a completion has already seen it leaves
  none; both are listed as hazards, and assumed away by name in the theorems.
- *PmPlans.* Two templates of one kind, so that a tick serves both; three instants are an
  occurrence that is served, one that is late and one that an edit moves. *RunSheet:* an
  item of each kind that completion asks for, and two members, so that the one
  inspector may stop being one. *OrderLedger:* five lines of a timeline are a start, a completion, what
  undoes it, and a second completion, whose stamp must replace the first; two days tell what
  closed today from what closed before.
- *Checklists.* One item that is a reading, through two nights: the shift that crosses
  midnight, the tick that comes late and an instance on demand; two clerks, who complete two
  instances at a time. *ChecklistTemplates:* three
  items can be reordered while one is retired, and of two categories one goes while it has items.
- *Stays.* Four events: a booking, the arrival, a change, the departure. *LiveView:* three
  changes let one be shown, one be on its way and one be missed. *Presence:* two tabs of one
  user in two conversations is what the store's two dictionaries can disagree about.
- *StaffChat.* Two members and two rooms are a dm and a group of the same two, or two dms
  begun at once. *HotelLog:* a member, an administrator, and a department that may be
  deleted while a post asks it. *LogFeed:* three entries at two instants, so that two tie, on
  pages of one, so that every boundary is a page's.
- *ShortLinks.* Two codes for three assets: a draw must collide. *LogForms:* two fields, of a
  textual and a numeric type, that may be renamed, swapped, retired and brought back.
  *Alerts:* two members of one first name, so that a mention is ambiguous. *SignIn:* one
  cookie, two requests at a time and a session that ends by time or by sign-out.

Deadlock is checked in JobQueueOne, whose queue never stops. The other runs have parts
that end, where all texts are used up, all events taken or a bounded clock stops:
there `CHECK_DEADLOCK FALSE`.

### Fairness

`JobQueue!FairSpec`: time passes (`WF_vars(Elapse)`), and each worker thread that can
go on does (`WF_vars(WorkerStep(w))`), which includes that a handler ends and that a
process that died is started again: `.railway/railway.ts:14` allows three restarts,
and the run has at most two faults.
`_loop` catches what a tick raises and goes on. Nothing obliges anyone to enqueue,
to crash, or to stop crashing other than the bound `MaxFaults`.
`FrontSpec` (and `Delivery!FairSpec`): the worker thread goes on. Requests, guests and
the provider owe nothing: no callback is assumed to arrive. No other module states
liveness: what they promise is owed at once, in a transaction, or when "nothing is on its
way" (`NothingMissed`, `PagesSettle`), which is a state and needs no fairness.

### Refinements

`JobsKept`: JobQueue's `FairSpec` implements `JobPromise!FairSpec`. A row's state is the
promise's, `attempts` counts while the row is live, and claims, locks, reclaims and crashes
are stutters. `TextsTakenOnce` and `EventsTakenOnce`: FirstContact and Stays implement `Intake`,
under the count of what each text or event has had for its effect. The last two are
also proved, and of the first, for one worker or for any number that end in time and stay up,
that every step is one the promise allows (`PromiseSafe`); that a one-shot job is settled in
the end is liveness, and TLC's.

### Findings

Eight runs show the code doing other than a comment, a docstring, the design or a
test says; `PROJECT.json` quotes each.

1. *DeliveryRace.* Two callbacks of one message handled at once: both read
   `queued`, `delivered` commits, then `sent` does. The comment in `messages.py:28`
   says a status only moves forward.
2. *DeliveryStop.* `messages.retry` asks nobody's consent: a message that failed
   before the guest texted STOP is sent when staff press retry after it.
3. *InboxIgnored.* The automatic answer to a keyword counts as a staff reply, so a
   guest who asks something and then texts "yes" (an opt-in word) is listed as
   resolved after `auto_resolve_hours`, unanswered.
4. *HousekeepingMidnight.* Between midnight and the next tick a room in progress can
   be given a second assignment; the tick then makes both today's.
5. *SweepPercent.* An open cycle is measured against the scope of today, and counts
   as passed every unit that passed, also those since made inactive: its percentage
   can be above the 100 that `compliance` documents.
6. *EditsSpareStarted.* A checklist under way asks its items, as the template has them
   now, whether they are required: editing the template alters what a started
   instance needs, which the design says it never does.
7. *LastAdmin.* Two administrators demote or remove one another at once; each check sees
   the other, and a property is left with none.
8. *TemplateShared.* A log template shared with a department that is deleted loses its only
   reference at the next save, and an empty audience means everyone.

Only DeliveryRace and LastAdmin need transactions that overlap. What TLC finds with the overlaps
that the passing runs exclude is under "Not modelled".

## The proofs

Every theorem is of the module's own specification, for any constants that satisfy the
module's assumptions and those named in the theorem.

| Theorem | Says | Assumes | Inductive invariant |
|---|---|---|---|
| `TypeCorrect` | JobQueue `TypeOK` | | `TypeOK` |
| `ChainNeverDies` | `ChainAlive`: any number of workers, crashes, stale locks | one worker, or `SingleWriter` | `ChainInv` |
| `ClaimsDisjoint` | `NeverBothClaim`, any number of workers | `InTime`, `MaxFaults = 0` | `ClaimInv` |
| `ChainsSingle` | `ChainIsSingle`: any timing, crashes and failed ticks | one worker | `SoleInv`, `SingleInv` |
| `PromiseSafe` | every step is one of `JobPromise` | one worker, or `InTime` and `MaxFaults = 0` | `SoleInv`; `ClaimInv`, `HeldRuns` |
| `DeliveryTyped`, `NoMessageStranded` | `TypeOK`, `NeverStranded` | | `Inv` |
| `SidsBelong` | a stored SID was accepted for its message, and for no other | | `Inv` |
| `TextsCounted` | `TextedOnce`: any threads, retries and crashes | | `Inv`, `Unsent`, `Budget` |
| `StatusesForward`, `SupersededIgnored` | `ForwardOnly`, `StaleCallbackHarmless` | no callback overlaps a request on its message | `Inv`, `Unsent`, `CallbackAlone` |
| `LinksOpenTheirOwn` | ShortLinks' `LinkOpensOne` | | `LinksInv` |
| `ContactTyped`, `OneConversation`, `TextsAreTakenOnce` | FirstContact's `ContactTypeOK`, `SingleConversation`, and that it implements `Intake` | | `ContactInv` |
| `DoorIsKept` | SignIn's `DoorKept`: any requests, restarts, limit and window | | `DoorInv`, `LimiterInv` |
| `InboxTyped` | Inbox `InboxTypeOK` | | `InboxTypeOK` |
| `WaitersHaveClocks` | `UnansweredHasClock`: whoever waits has a clock | no text or keyword overlaps a reply | `ClockInv` |
| `AlertsAreOurs` | `AlertIsOurs`: an alert is of the clock it is on | no text or reply overlaps a sweep | `AlertInv` |
| `ClockNeverLost` | `ClockSound`: both, whatever else overlaps, for any number of threads | the four pairs apart | both |
| `AlwaysListedOnce` | Desk's `ListedOnce` | | `DeskTypeOK` |
| `AlertsAlwaysLand` | Alerts' `AlertsLand` | | `AlertsInv` |
| `HousekeepingTyped`, `NoRoomStuck`, `NoDirtyRoomShownReady`, `BoardStaysTrue`, `TickRollsOnce` | at any hour; `BoardIsTrue` | | `RoomInv` |
| `OneAssignmentADay`, `DirtyRoomsStart`, `DeparturesAreCleaned`, `CleansAreRight` | on orderly days; `OneRightClean` | `Orderly` | `OrderlyInv` |
| `RoundsStayAsGiven` | `RoundsAsGiven`: any rooms and housekeepers | | `RoundsInv` |
| `SweepTyped` | Sweep `SweepTypeOK` | | `SweepTypeOK` |
| `UnitsDoneOnce` | `UnitDoneOnce`: any number of units, cadences and months | | `UnitDoneOnce` |
| `ClosedCyclesAccount`, `EvidenceStays` | `ClosedAccounts`, `EvidenceFrozen` | | `AccountsInv` |
| `OneCycleOpen`, `TickCovers`, `CycleIsTheMonths` | `OneOpenCycle`, `TickedMeansCovered`, `CycleOfTheMonth` | | `CadenceInv` |
| `SheetAlwaysSettles` | RunSheet's `SheetSettles` | | `SheetInv` |
| `SchedulesKept` | PmPlans' `ScheduleKept`: any templates, rules and edits | `~Overrun` | `PlansInv` |
| `OrdersTyped` | WorkOrders `OrdersTypeOK` | | `OrdersTypeOK` |
| `OnePrompt` | `OnePendingPrompt`, any number of requests at once | | `PromptInv` |
| `RunsMoveOrders` | `RunMovesOrder`, PATCHes overlapping | no run's step within a PATCH of its order | `RunInv` |
| `CompletionsPropose` | `CompletionProposes`, PATCHes overlapping | no prompt resolved within a PATCH of its order | `ProposeInv` |
| `LedgerAlwaysAgrees` | OrderLedger's `LedgerAgrees` | | `LedgerInv` |
| `StaysTyped`, `StampsGoWithStatus`, `EventsAreTakenOnce` | Stays' `StaysTypeOK`, `StatusStamped`, and that it implements `Intake` | | `StaysInv` |
| `PresenceTyped`, `UsersAreInOnePlace` | `PresenceTypeOK`, `OnePlace` | | `PresenceInv` |
| `PagesAreRight`, `PresenceIsShown` | `PagesSettle`, `PresenceShown` | `~Overtake` | `PresenceInv`, `PagesHold` |
| `ChatTyped`, `DmsAreOfTwo` | StaffChat's `ChatTypeOK`, `DmOfTwo` | | `ChatInv` |
| `UnreadIsTold`, `RoomsAreRight` | `UnreadTold`, `RoomsRight` | `~Crossing` | `ChatInv`, `OneByOne` |
| `ViewTyped`, `NothingIsMissed` | LiveView's `ViewTypeOK`, `NothingMissed` | | `ViewInv` |
| `ChecklistsTyped`, `TheWindowDecides` | `CkTypeOK`, `WindowDecides`: any shifts, any edits beside a tick | | `CkInv` |
| `ReadingsAreReported`, `ShiftsAreAccounted`, `CompletesStay` | `ReadingsReported`, `ShiftsAccounted`, `CompleteIsFinal` | `Beside = {}` | `CkInv`, `ClosingHolds` |
| `AnAdminIsLeft` | Members' `Administered`: whoever demotes or removes whom, at any number of desks at once | `OneLowered`, of every state of the behaviour: the demotions and removals under way are of one person | `AdminInv` |
| `AllAreToldOnce`, `LogTyped` | HotelLog's `ToldOnce`: any members and departments; `LogTypeOK` | | `PostInv` |
| `PagesShowAllOnce` | LogFeed's `SeenOnce`: any entries, instants and page length | | `FeedInv` |
| `PostsAlwaysReadBack` | LogForms' `PostsReadBack`: any fields, saves and notes | | `FormsInv` |
| `TemplatesStayWhole` | ChecklistTemplates' `StaysWhole`: any items and categories | | `TemplatesInv` |
| `FrontTyped`, `HotelTyped`, `UpkeepTyped` | `FrontTypeOK`, `HotelTypeOK`, `UpkeepTypeOK`: the types of all parts, in the compositions | | those of the parts |
| `FrontHolds`, `HotelHolds`, `UpkeepHolds` | what the parts' theorems say, of the compositions | each part's own, as the antecedent of its conjunct; in `UpkeepHolds` `~Overrun` and PATCHes alone overlapping | those of the parts |

The modules' own assumptions are finiteness and shape: the fields of a log template, the
items of a checklist template and the rooms are finitely many, `None` is none of the
rows it stands beside, the places after `Shelf` are beyond every list of fields.
Those in the third column are about the deployment or about what overlaps, and where
the property fails without one, the run or the hazard that shows it is named below.

Why each needs its strengthening:

- `ChainAlive` says nothing of what a worker read in the transaction that settles a
  job. `ChainInv` adds that on SQLite whoever is about to commit holds the lock, that a worker
  which found the chain alive at start-up was right and still is, and that one
  which plans no successor has seen another live row. Its lemma
  `OthersKeepLiveRows` says why: only the settling transaction takes a row out of
  the queue. With several workers and no single writer the argument fails, where one
  worker settles a row that another has just counted as the live one.
- `ClaimInv` adds that a held row is running under a fresh lock and that every
  running row is held, so that no lock is ever found stale. This is false as soon
  as a handler outlives `STALE_SECONDS` or a worker dies, which is why the theorem
  assumes neither.
- `SoleInv`: what a lone worker has in hand is running in the table, since nobody else
  takes it back and it takes nothing back while it works. So a settling commit always
  finds the row it claimed, which is all `PromiseSafe` needs. Several workers have the same
  (`HeldRuns`) from `ClaimInv`. Otherwise a row is taken back while a late handler
  settles it, and a job that was finished is tried once more.
  `SingleInv` adds that a
  successor that is about to be written has at most the job being settled beside
  it, which leaves the queue in the same commit (`SweepsEnd`: a sweep has one attempt).
- Delivery's `InFlight` is what holds between the provider's answer and the commit:
  the job is still counted, the SID was accepted for its message, and no callback
  says "queued".
- `Budget` makes `TextedOnce` inductive by counting what may still become a call: the
  calls made, the jobs that may make one and the retries under way that will queue one
  are together no more than one, the retries, the crashes and the job whose call is made
  and not committed. `Unsent` says that a message that is not there yet has none of them.
- `CallbackAlone`: with no other request beside it, a callback still applies to the
  status it read when it writes. Without that `ForwardOnly` fails (finding 1), and so does
  the claim that a superseded callback is harmless, whose look-up a retry could follow.
- `LinksInv`: the unique key keeps codes apart, deleted assets included, and a row whose
  link was texted keeps its code.
- `DoorInv` says what a request that is past `require_auth` has read: a session that was
  born, had not ended, and was not signed out when it asked. `LimiterInv` has the queue be
  the end of the list of all attempts, and what is not in it be out of the window; that
  a window never exceeds the limit follows from where the window's first attempt is.
- FirstContact's `Covered` and `Progress` say, for each open transaction, that past
  the consent step it holds the guest row or the guest was known already, and
  that a known guest has a conversation. With them every step that records a text takes one that
  `Intake` could take, and every other step is a stutter.
- Inbox's `ClockInv` and `AlertInv` say, of each open transaction, what its commit will find:
  the columns it does not write have moved only as the operations that may overlap it
  (`Paired`) move them, and the columns it does write make its half of the property true. That is
  why the two halves exclude two pairs each, and why the four are exactly those that the
  counterexamples TLC finds without them need.
- Desk needs its types and no more: `ListedOnce` is a statement about every row, NULLs
  and all. `AlertsInv`: rows are told apart by the call that made them, and who is about
  to mark rows has been shown each of them.
- `RoomInv` adds that a room cleaned today changed status today. `DayInv` matches the
  status of today's assignment to the room's, keeps a clean under way on today's
  row once the tick has run, and has none left before it; `StayInv` carries the
  departure a check-out asked for across midnight.
- `RoundsInv` adds that no two rooms of one list share a place (`PlacesApart`), for which
  `NextIsLast` shows `next_sequence` to be past every place there is. Otherwise a
  tie would be broken by the board and not as it was asked.
- `AccountsInv` is about what a tick under way has read: the cycle it will close is
  still open when it commits (requests only ever open cycles), and whoever it read
  as passed still is, since nothing leaves `passed`. So a cycle is closed once, by
  one tick, and every row it adds is the unit's first.
- `CadenceInv` says that while the cadence stays as it was, windows do not overlap:
  a closed one lies before this month, an active template always has an open one,
  and a tick under way either found today's window or is about to replace the one it
  found by today's. That is why a tick and a request cannot both open one. `CoverInv` adds
  that a tick which has counted for this month leaves no older read behind it. With
  a changed cadence windows do overlap, and the theorem does not hold.
- `SheetInv` says that `far` and the value are written together, and that the orders
  of a completed run are its readings' from then on. `PlansInv` says that a
  template's `last` is the last tick that went through it or its last change (`PlanKept`), and that
  what a tick under way has read of it is still so, unless it was changed at this very
  instant, and what is due to it then comes later (`TickKept`). So `last` is never before the last
  change, and nothing from before it is due. With `Overrun` the instant of
  the tick and that of the change may differ, and `last` goes back.
- `AdminInv`: what a change is about to write leaves an administrator in the table as it is
  now, or takes nothing from anybody. Promotions, changes of department and new members may come between
  a check and its write, and so may a second demotion of the same person; one of
  another person may not, which is finding 7. `OneLowered` is about everybody and not
  administrators alone: an agent who is promoted while a demotion that has read them as an
  agent is under way would be a second administrator to every check, and then none.
- `LockInv`: two PATCHes of one order do not both hold its row, and one that is about
  to add a prompt has looked since it got the lock.
- `RunInv` extends `RunMovesOrder` to the status each PATCH has read, from which the
  transition table and `assign` know no way back (`NoWayBack`). `ProposeInv` says that
  a request about to complete an order brings a prompt or has seen one that is still there.
- `LedgerInv` is the property with the types of the lines: each stamp is the first or the
  last line that moved the order there, and the lemmas say what a line added at the end
  does to that.
- `StaysInv` says that what was applied is what the ledger holds, and of each open
  transaction (`IntakeHolds`) that the key it has inserted is nobody else's: the insert makes a
  second one wait, so the count of effects cannot pass one.
- `PagesHold` needs a list to be either the store's of now or about to be told of: a
  thread that changed the store will take the list, one that took it will send it, and nobody
  has changed the store between (`~Overtake`).
- `ChatInv` has `DeskHolds`, which says of each request what it has looked up and that it is
  still so, for a kind never changes and a dm gains and loses nobody. `UnreadTold` needs that
  requests to a room with somebody sending in it are one by one (`OneByOne`).
- `ViewInv`: a page that is back from a break has a socket that is open, and what it lacks is
  coming (`Coming`): an event on the wire, a fetch that was asked for after the change, or an answer that brings it.
- `CkInv` has `SweepHolds`: what a tick under way has read is no later than its own instant, so
  that whoever it will miss has had its shift end, and whom it will make has not.
  `ClosingHolds` says the same of a completion: the row it read is still live or was
  missed meanwhile, and holds the readings it has read.
- `FeedInv`: a reader has been shown exactly those of the entries that were there which
  their cursor is past, for (stamp, id) orders all entries strictly. An entry that commits
  late is shown or not, but never twice.
- `FormsInv` has `BoxesHold` (no two fields that were ever made share a place, so that
  ordering by it lists them) and `PostHolds` (a body is the lines of its values and then
  the notes, and an answered field has the type of its answers). `NotesAreRead` cuts the
  lines off again, and rests on a line being a function of the stored value alone. TableProofs'
  `ListingIs` says that what is finite and strictly ordered can be listed: each row at the place its
  number of predecessors gives, without induction.
- The compositions share no variable between parts, so each part's formula has a lemma
  (`FrontParts`, `HotelParts`, `UpkeepParts`) that a behaviour of the whole is one of the part:
  where another part moves, it stutters. In MCUpkeep the type of a plan needs `FiringThere`, that a
  tick under way fires only templates that exist.
- `TemplatesInv` is the property with the types. `LinesAre` says what a list of a finite
  set is, from which the positions of those kept and those retired never meet.

Only model-checked, for these reasons:

- Liveness under fairness and ENABLED are out of the prover's reach: `SweepsForever`, and
  what `JobsKept` and `SendingsSettle` say of the end. The safety half of the first is
  `PromiseSafe`, that of the second `SupersededIgnored` and `NoMessageStranded`.
- The runs of the findings are counterexamples, and nothing is to be proved of them. What the
  code does keep there is: `AnAdminIsLeft` beside LastAdmin, `StatusesForward` beside DeliveryRace.

## Not modelled

- *Overlaps that are named but not explored in a passing run.* Each is a value of a constant, the
  code locks nothing there, and TLC, run on the module alone with the value below, finds the
  property broken in a few steps. The theorems exclude the value by name.
  - `Overlap` with `{"text", "sweep"}` (Inbox): the sweep stamps its alert on the clock that a text
    has just begun, and the breach of that question is notified to nobody. Also `{"reply", "sweep"}`
    (the stamp lands on a cleared clock), and `{"text", "reply"}` and `{"keyword", "reply"}` (a reply
    begun before a text clears its clock). Every other pair is in the proofs, and four in the run.
  - `Beside = {"save", "complete"}` (MCChecklists): a reading saved, or the checklist completed
    again, during a completion: an order is missing, or there are two.
  - `Overlapping = {"patch", "run"}` (WorkOrders): a PATCH commits over the status that the run's
    step gave the order. With `"prompt"`: a completion counts on a prompt being resolved.
  - `Overrun = TRUE` (PmPlans): a tick puts `last_fired_at` back to before a patch, and the next
    makes up for an occurrence from before the change.
  - `Overtake = TRUE` (Presence): a list sent after a newer one stays on the pages.
  - `Crossing = TRUE` (StaffChat): a message stamped before somebody looked, and committed after, is
    not unread for them.
- *Overlaps that are not modelled*: saves of a checklist template or a log template, two requests on one
  maintenance run or one room (so two POSTs that start one unit at once, between whose look-ups
  and inserts nothing stands, pm_runs.py:68-80), and more than one property.
- *Batches of PMS events*: `pms.tick` takes several in one transaction. Stays takes each in one of
  its own, so that a failure undoes one event where it would undo the batch; the ledger key is
  what keeps an event from its second effect in either.
- *Inside the modelled parts*: phone normalization, message bodies, audit rows, photos, the
  pages and filters of most lists, names and avatars, recurrence rules themselves (a rule is a
  set of instants), numbers half way between two hundredths or rounding to minus zero, the first
  load of a page before it has subscribed, `first_response_seconds`.
- *Rows that one request at a time edits and nothing depends on*: settings, quick replies,
  resolution categories, redaction, preferences.
- *Who may call what* and how a password is checked; accounts set inactive by hand.
- *Reads*: analytics, most reports, the views, exports. They change nothing; the two
  whose figures are compared with their source are in Sweep and OrderLedger.
- The migrations, the seed data and the mock adapters, which are not the program's own behaviour.

## Plan

What is left, the most important first:

1. `PromiseSafe` where several workers do lose their locks: a promise that lets a job be tried
   once more by whoever took it back, which the queue keeps then.
2. Wider overlaps: two requests on one room or one run, two saves of one template, two
   workers without a single writer.
3. Compositions of parts that meet through rows: Stays with Housekeeping's check-out and
   FirstContact's guest; WorkOrders with OrderLedger, which show the same orders.
4. An order as a path in `TRANSITIONS`, whose chain two overlapping PATCHes can break, and the
   refinement from WorkOrders where they do not.
