# Verification of PopEngine

PopEngine turns an organizer's answers about a New York City event into a permit
plan, a compliance checklist with deadline alerts, and a public page with RSVPs
and check-in. It is a TypeScript system: an Express API over Postgres
(`apps/api`), a pure rules engine (`packages/engine`), a Next.js front end
(`apps/web`), an S3 bucket for documents and an email provider (Resend) for
alerts. SMS is simulated.

This directory models the parts of it whose correctness depends on order,
concurrency, failure or time, checks the models with TLC on small instances, and
proves the most important results with TLAPS for every value of the constants.

## 1. The system

| Component | State it keeps | Operations | Talks to |
| --- | --- | --- | --- |
| Events (`events.ts`) | `events` row: intake answers, `revision_counter`, the create key and body | keyed create with replay, edit under `FOR UPDATE`, read | everything else reads the event row and locks it |
| Plan service (`planning/plan.ts`) | `permit_plans`, `permit_plan_items`, immutable; `generated_at` is a total order | generate (evaluate first, lock later), keyed first plan, ruleset downgrade refusal, latest | engine, events |
| Engine (`packages/engine`) | none | scope of questions, three-valued trigger conditions, deadlines, findings, sequencing, verdict | called by the plan service |
| Checklist (`planning/checklist.ts`) | `checklist_items`, `checklist_acknowledgements`, status and notes | review (materialize, re-point, acknowledge, schedule alerts in one transaction), view, item edit | plans, alerts |
| Documents (`planning/checklist.ts`, `storage.ts`) | `documents` rows and S3 objects | upload (put, then insert, then clean up), signed download | S3 |
| Alert scheduling (`alerts/alerts.ts`) | `alerts` rows, `event_alert_contacts` | upsert, revive, supersede, cancel | called by a review |
| Alert delivery (`alerts/alerts.ts`, `alert-delivery.ts`) | `alerts.status`, `failure_count`, `next_attempt_at`, `alert_send_attempts` | claim, expire, record intent, ask the send boundary, send, record the outcome | email provider |
| Alert poller (`alerts/alerts.ts`, `index.ts`) | timer, running tick, follow-up timer | tick, start, stop, drain | alert delivery |
| Public page and RSVPs (`attendance/`) | `public_page_published`, `rsvps` | publish gate, RSVP under capacity, cancel, reactivate | events, latest plan |
| Check-in and statistics (`attendance/`) | `checkins` | match and upsert, counts | RSVPs |
| Web pages (`apps/web`) | pending create in session storage, screen state, re-read epochs | save, generate, review, upload, poll | the API |

What is hard in it, and what the properties are about:

* the email provider and the database cannot commit together: crashes, timeouts
  and lost answers leave a send whose outcome nobody knows, and the provider
  forgets a key after 24 hours;
* several workers and processes, the organizer's edits and reviews, and the
  clock (deadlines, hold limits, retry times) interleave with every send;
* plans are evaluated from an event read before the lock, stay immutable, and
  their order decides what the checklist, the alerts and the public page follow;
* uploads write two stores one after the other;
* guests, organizers and new plans race for capacity and for the publish gate;
* the browser retries what it has no answer for.

The full list, with the line where each bites, is `hazards` in `PROJECT.json`.

## 2. Modules

| Module | What it is |
| --- | --- |
| `AlertDelivery` | the delivery protocol of one event's alerts |
| `AlertOutbox` | what `AlertDelivery` promises: alerts called for, withdrawn, delivered and recorded |
| `AlertDelivery_proofs` | its inductive invariant, its theorems and the refinement of `AlertOutbox` |
| `AlertPoller` | timer, ticks, scan, worker pool, start and stop, the test endpoint |
| `AlertPoller_proofs` | one tick at a time, a stop that stops, a chase that goes on |
| `RulesetVersion` | the order of ruleset versions (`packages/engine/src/ruleset-version.ts`) |
| `EventPlan` | creating and editing events and generating their plans, over `RulesetVersion` |
| `EventLedger` | what `EventPlan` promises: revisions and plans in single steps |
| `EventPlan_proofs` | its inductive invariant, its theorems and the refinement of `EventLedger` |
| `Attendance` | the public page, the guest list and the door of one event |
| `GuestList` | what `Attendance` promises: every call at one instant |
| `Attendance_proofs` | its inductive invariant, its theorems and the refinement of `GuestList` |
| `PlanItems` | a stored plan item: its window, its order, the notice of a moved date |
| `AlertPlanning` | which alerts a reviewed plan calls for, over `PlanItems` |
| `Checklist` | reviews, tasks, alert rows, stale tabs, over `AlertPlanning` |
| `DocumentUpload` | one object and one row in two stores |
| `Compliance_proofs` | the inductive invariants of these two; what reviews leave alone, cover and leave waiting, and what an upload promises |
| `Calendar` | dates, weekends, holidays, business days |
| `Scope` | which questions an event is asked, as the intake screen and as the engine find them |
| `Conditions`, `Deadlines`, `Findings`, `Verdict` | the engine, each over the one before |
| `Intake` | the intake contract: one submission read, merged and validated, over `Scope` |
| `EventIntake` | the intake row of one event: created, edited, while days pass |
| `RulesetLoad` | what a ruleset must satisfy between its parts |
| `Engine_proofs` | the questions, the calendar and the deadlines of the engine |
| `PlanReader` | a plan stored, read back, and checked by the plan page |
| `PlanEngine` | one event under one published ruleset, over all of these |
| `CreateRecovery`, `StaleNotice`, `ChecklistPage` | three pages of the web application |
| `CreateRecovery_proofs`, `Pages_proofs` | invariants and theorems of the first, and of the other two |
| `MC...` | instances for TLC |

Two instances put independent modules beside each other in one run:
`MCCompliance` (`Checklist` and `DocumentUpload`) and `MCWebPages` (the three pages)
choose in the initial state whose behaviour it is (`part`, `page`); the others
stay as they began.

### 2.1 `AlertDelivery`

A worker is one concurrent call of `sendOne`, in any API process. `job[w].pc` is
where it stands:

| `pc` | In the code | Steps |
| --- | --- | --- |
| `idle` | between calls | `Claim`: locks event and alert, re-asks whether it is due, current and not held; `Expire`: cancels a row whose window has shut |
| `claimed` | `deliverClaimed` entered | `RecordIntent`, `RefuseIntent`, `LoseIntent`; `SendLocally` for a sender that reaches no provider |
| `intended` | attempt committed on the second connection | `AskBoundary`, `FailAtBoundary` |
| `asked` | the boundary's answer is in | `RefuseAtBoundary` (crossed a day, shut, held, margin spent, edge of the window) or `HandOff` |
| `sending` | the request is on its way | `RecordSent`, `RecordRefusal`, `RecordUnknown`, `LoseOutcome` |

`Crash` can hit a worker at every place, `LoseConnection` drops its claim while
it runs on, and the organizer (`EditEvent`, `Review`) may act whenever no claim
holds the event. `job[w].live` says that the worker's transaction is open: the
event row `FOR SHARE` and the alert row `FOR NO KEY UPDATE` are held exactly
while it is.

State that mirrors tables: `revision` is `events.revision_counter`; `row[a]` the
alert row (`slot` is the intended sending time in the payload, `closes` the
midnight that ends its last filing day, `planRevision` what the staleness check
joins to); `attempts` the attempts that are neither resolved nor superseded.
`owner` of an attempt or a request is the worker that still knows its id.

The provider is external and modelled from how the code uses it: it delivers a
key it does not remember, answers with success to one that it does, remembers for
`DedupWindow` from the first acceptance, may refuse, and a request that is not
decided by the timeout never lands. With `AnswersGetLost` the client may miss
the answer, or the request may vanish.

Abstractions, each of them deliberate:

* One event. The alerts of two events share nothing but the scan's capacity.
* One discrete clock, read alike by the processes, the database and the
  provider. The code compares instants of three clocks and assumes that they
  agree to well within its margins; a skew larger than the margins is outside.
* Days have a fixed length; daylight saving changes are not modelled.
* `providerKey` presents the first unresolved attempt's key. A key is
  identified with its alert, since every attempt of an alert carries the same
  key until it is sent.
* Which alerts a plan calls for, and their dates, are chosen freely from
  `Schedules` in each review, subject to the code's own filter that the window
  must not have passed.
* A contact change makes new alert rows and cancels the old ones; here that is
  a review that wants another set of alerts.
* The dropped connection of a local send has the effect of a crash there, so
  `LoseConnection` is for alerts that reach the provider.
* The demo endpoint for a test alert is in `AlertPoller`.

`AlertOutbox` is what all of this is for. An alert is absent, waiting, sent or
cancelled (`stage`, from the row's status); its recipient got so many copies of it
(`copies`); and its unresolved attempts may have been given up (`waived`). A review calls
for alerts and withdraws the others; a copy is delivered when there is none or the
earlier attempts were given up; and what is recorded as sent was waiting until then,
was delivered, and stays recorded. `ImplementsOutbox` says that the workers, the
organizer, the provider and the faults do nothing else.

### 2.2 `EventPlan`

A request is one HTTP call, in any API process; a retry is another request with
the same key. `req[r].pc` is where it stands, and `req[r].intent` what it asks for
(`create`, `edit`, `generate`, or `first`: a generation that presents the create
key) and which ruleset its process runs.

| Call | Steps | In the code |
| --- | --- | --- |
| `POST /events` | `LockKey`, `CheckCreate`, `CommitCreate` | advisory lock on the key; replay lookup, then validation; insert and commit |
| `PATCH /events/:id` | `LockForEdit`, `CommitEdit` | `FOR UPDATE`; merge, validate, update unless nothing changed, commit |
| `POST /events/:id/plan` | `LoadEvent`, `EvaluateIntake`, `LockForGeneration`, `CheckUnderLock`, `StorePlan` | unlocked read; first look for an existing plan and evaluation; `FOR UPDATE`; second look and `refuseRulesetDowngrade`; clamped insert and commit |

`Submit` is a client's call, `Abort` a failed statement, a failed evaluation or a
dead process before the commit, and every committing step may also end as
`failed`: the commit's acknowledgement was lost. `Midnight` moves the day that
`validateIntake` compares the event date with.

State that mirrors tables: `event[k]` is the row of `events` whose create key is `k`
(revision 0: no row), `plans[k]` the rows of `permit_plans` of that event in the order
of their commits. `written` is history: the answers of every revision.

Abstractions:

* An event is named by its create key, which a unique index makes sound. Events
  from before the key existed behave like events whose key nobody presents.
* A plan is what it pins: revision, answers, ruleset version and stamp. What the
  engine finds in the answers is not represented.
* A request text is opaque; `IntakeOf` gives its answers, since two texts may
  carry the same ones and the replay compares texts. An edit's merged answers
  are chosen freely.
* `LastDay` is the last day on which validation accepts the answers (0: never).
  All processes read one calendar day, and it only moves forward.
* The database clock is any reading at every insert, also an earlier one.
* Writes become visible at the commit, which is a request's last step. The
  advisory lock is on the key; two keys with one hash would only wait more.
* The read routes change nothing and are left out, as is the losing branch of
  `ON CONFLICT`: the model keeps it, the key lock makes it unreachable.

`EventLedger` knows no request: an event is opened once, revised to different
answers, and issued plans, each naming an existing revision and a ruleset that
may supersede the one before. `ImplementsLedger` maps `written` and the projection
of `plans` to it. A plan that pins its revision's answers (`PlanPinsItsIntake`) and a
ruleset that never goes back (`RulesetNeverGoesBack`) are parts of that promise: they
are defined and proved on their own, and checked through it.

### 2.3 `Attendance`

| Call | Steps | In the code |
| --- | --- | --- |
| `POST /events/:id/rsvps` | `Begin`, `lockEvent`, `CheckRsvp`, `CommitRsvp` | `BEGIN`; `FOR UPDATE`; published, plan, date, capacity; insert or update, count, commit |
| `PATCH /events/:id/guests/:rsvpId` | `Begin`, `lockEvent`, `CommitCancel` | the same lock; update, count, commit |
| `PATCH /events/:id/public-page` | publish: `Begin`, `lockEvent`, `CheckPublish`, `CommitPublish`; unpublish: `Unpublish` | publishing checks the latest plan under the lock; unpublishing is one `UPDATE` that waits for the row |
| `POST /events/:id/checkins` | `readCheckinEvent`, `Match`, `Upsert` | three statements on the pool, no transaction |

`Submit` is the call's arrival, where `today()` is read; it may be served after
midnight. `Begin` is a step of its own because `rsvps.created_at` defaults to the
start of the transaction: the oldest of two RSVPs that share a phone number need
not be the one that committed first. `Abort` is a failure before the commit, and
every commit may also end as `failed`. `EditEvent`, `GeneratePlan` and `Midnight` are
the environment; edits and generations are the calls of `EventPlan`, reduced to
what this module reads, and like there they commit while they hold the lock.

`event` is the row's capacity, date and `public_page_published`; `plan` is what the
latest stored plan says of publication (`none`, `clear`, or `blocked` by a
prohibition or ineligibility; a plan that only misses a deadline is clear);
`rsvp[g]` the row of an email address and `checkin[c]` the `rsvp_id` of a contact.
Guest list, organizer page, public page and statistics only read and are left
out, as are names, descriptions and the answers for an unknown event.

`GuestList` knows no request, lock or date: a seat is taken or given back, the page
published or withdrawn, the event resized or replanned, a contact checked in, each in
one step that is judged by the capacity, the publication, the plan and the list of
that instant. `ImplementsGuestList` maps the tables to it, the phones, stamps and
requests left out. The locked transactions have their instant at the commit; an
unlocked check-in has it at the upsert, although it was matched earlier. That a page
becomes public only over a clear plan (`PublishedOverAClearPlan`, proved on its own)
is part of it.

### 2.4 `Checklist`, `PlanItems`, `AlertPlanning`

`generatePlan`, the event edit and `POST /checklist` hold the event row's lock, so in
`Checklist` each is one step: `Generate`, `EditEvent`, `Review`. A review names the plan
its tab displays, is refused when another is newer or the event has moved on,
materializes the tasks (follow the same requirement, create what is new, leave
the rest struck), acknowledges the plan and schedules its alerts: upsert by
identity, channel and destination, revival of a row whose text or date changed,
cancellation of what is not called for any more. Reading is outside every
transaction: `OpenPlan`, `BeginRead`, `EndRead` let generations and reviews come
between the statements, and `EndRead` fails where the code answers 500: a task that is
not struck follows an item that the plan read before does not have. `SetStatus` is the organizer's item edit, `Deliver` a tick
that sends what is due, reduced to one step (its steps are `AlertDelivery`'s).

A plan is a set of items with routes, as `permit_plan_items` and the plan's
rendering keep it. Text is a token, so two wordings are equal or they differ; days
are naturals and a day's send hour is not told from the day. A contact is absent,
cleared, or a value whose canonical form is compared. Plans from releases that did
not record whose window a merged line shows are among the initial states. What the proofs
need to know of a stored line is `IsLine`, assumed of all plans (`RulesAreOfOneLine`).

### 2.5 `DocumentUpload`

An attempt is one request, with or without an upload key: `Arrive`, `Put`, `Insert`,
`Reread`, `ReadOutcome`, `RemoveOrphan`, each with its failures: the put may have stored
the bytes all the same, the insert may be refused, lost before or after it ran, or
run on after its connection was lost (`RunningInsertEnds`, with `LateInserts`), the
re-read and the deletion may fail, and the process may die anywhere.

### 2.6 `AlertPoller`

`start` and `stop` with their two timers and the immediate run, the capped scan in the
code's order, the pool of `SEND_CONCURRENCY` workers over one queue, the retry of rows
that a writer's lock skipped, the follow-up, and the deadline of the chase. A send is
four steps here (`BeginIntent`, `RecordIntent`, `Delivered` or `Refused` or `Threw`), so that
the two connection pools can run dry: a worker holds a connection and needs a
second one for its intent. Time is relative: ages and waits grow together and stop
where nothing in the code tells them apart. Two ticks exist because a stop that does
not wait and a start can overlap. The test endpoint's row is one the poller may also
claim, as in the code. `Dead` alerts are refused by the provider every time.

### 2.7 The engine

`Calendar` to `Verdict` are the pure functions of `packages/engine`: a date is a day
number, a holiday list a set of days. `Scope` has the scope of questions twice, as the
code has it: in passes over the answers (`visibility.ts`, the intake screen and the
validation) and question by question through what each depends on (`conditions.ts`,
the engine). `Conditions` has the three-valued conditions and trigger trees; `Deadlines`
every published deadline type, and what the reader checks of a window by level;
`Findings` the build, the merge by dedupe key with its routes, the binding route, the
narrowing by dependency; `Verdict` the window verdict, the branches over missing
facts, the blocker and the rescope suggestions. `Intake` reads one submission,
merges an edit and validates; `RulesetLoad` is what a ruleset must satisfy between
its parts. Fees, sources and wording are left out.

`EventIntake` makes a state machine of the intake alone: a ruleset whose questions can be
read, a form that is accepted, edits (of one answer, or by another form), and passing
days. `PlanEngine` is that machine with a whole ruleset that parses, a calendar, and plans
generated from the stored row: each of its actions is one of `EventIntake` or leaves the
intake as it was. `PlanReader` stores what the engine answered in
rows and a rendering, reads it back as `plan.ts` does, and applies the plan page's
own checks (`plan-api.ts`), which restate much of the engine's logic independently.

### 2.8 The web pages

`CreateRecovery`: the intake form, the plan page and the record in the tab's session
storage. A visit to a page saves, leaves, comes back; its calls are messages on
`wire` that the API may serve late or whose answer may be lost. The API is what
`EventPlan` promises. `StaleNotice`: the notice on an event's page, which is handed one
event after another; a regeneration goes on while it describes another, and a lost
POST may be handled late (`ServePin` and `ServeStore` are the two ends of a
generation). `ChecklistPage`: writes on several rows at a time, each followed by a re-read
with an epoch, the delayed re-read after a network failure, and the change of page.

### 2.9 Properties

| Property | Kind | What could break it |
| --- | --- | --- |
| `NoUnaccountedDuplicate` | invariant | a retry after the provider's memory, two workers, an intent lost with its transaction |
| `UnrecordedDeliveryIsCovered` | invariant | an attempt closed although its outcome is unknown, a hold measured from the wrong attempt |
| `NothingLandsAfterShut` | invariant | a boundary that does not reserve the handoff and the timeout |
| `ImplementsOutbox` | refinement | a failure that records what was not delivered, a withdrawn alert that is sent, a record that a later review or worker takes back |
| `HandoffIsCurrent` | action | an edit or a review that does not wait for claims, a claim without its lock |
| `GivesUpOnlyOnRelease` | action | a path that drops or overtakes an unresolved attempt for no stated reason, also one recorded by another worker after the check |
| `EveryAlertSettles` | liveness | a hold or a retry that outlives the filing window |
| `RejectedStaysOut` | invariant | validation before the key lock: a rejected create that the browser has forgotten is inserted by a slower copy of itself |
| `CreateHappensOnce` | invariant | two copies of a create, or a replay of another text |
| `FreshPlanAnswersTheEvent` | invariant | a slow generation of an old revision that overtakes a newer one unnoticed |
| `PlansAreInOrder` | invariant | a clock that stands still or goes back |
| `OneFirstPlan` | invariant | a retried first generation that stores a second plan |
| `ImplementsLedger` | refinement | an edit between a generation's read and its insert, two processes with different rulesets that generate at once, a plan on an unrelated ruleset, an edit that rewrites history |
| `NeverOverbooked` | action | two guests at the last seat, a return after cancelling, a capacity lowered between check and commit |
| `SeatsOnlyWhileOpen` | action | a page that is withdrawn or prohibited, or an event moved, while calls wait for the row |
| `ReportedCountsAreTrue` | action | a count taken before the change, or beside another transaction |
| `ImplementsGuestList` | refinement | a generation between the check of the plan and a publication, a write that is judged by what an earlier moment allowed, a failure that leaves half a call behind |
| `LinksAreGuests` | invariant | a match that has changed when the check-in is written, shared phone numbers |
| `EveryCallIsAnswered` | liveness | a transaction that returns early and keeps the row |
| `ReviewedPlanIsCovered` | invariant | a requirement that leaves and returns, a line merged from two of the old one, an alert the upsert leaves cancelled |
| `WaitingAlertsAreOfTheReview` | invariant | a cancellation that misses a destination, a reworded alert that keeps its old text |
| `MovedDateIsTold` | invariant | a date that moves twice between reviews, a notice measured from the wrong plan |
| `ChecklistCanBeRead` | invariant | a task left live that the newest plan does not raise, so that every later read fails; a read that fails with no review beside it |
| `StruckIsTerminal` | action | a task revived when its requirement returns |
| `ReviewIsOfTheShownPlan` | action | a review from a stale tab while another plan is generated or the event edited |
| `RowsHaveObjects` | invariant | a retry's clean-up that deletes the bytes the row names |
| `AnswersAreTrue` | invariant | a key taken for a document, an outcome read before it is settled |
| `StopMeansStopped` | invariant | a stop that returns before its tick, a timer armed by a tick that was stopped |
| `TheChaseNeverStalls` | invariant | a tick that skipped rows and arms nothing |
| `EveryTestIsAnswered` | liveness | a send that waits for a second connection all of which are held |
| `DeliverableIsDelivered` | liveness | a failing row at the head of a capped scan |
| `StoredAnswersAreAskedAlike` | invariant | two implementations of a question's scope that differ on a chain of answers |
| `AcceptedWindowsCanBeDated` | invariant | a by-level deadline that keys on a question the event is never asked |
| `ThePlanPageReadsEveryPlan` | invariant | the page's idea of a merged line, its leading route or a blocker differing from the engine's |
| `DaysOnlyWorsenTheVerdict` | action | a merged line that moves to another route, a window that opens after another closed |
| `AnnouncedVerdictsComeTrue` | action | a branch or a rescope evaluated under other answers than the edit would store |
| `NoCreateIsForgotten` | invariant | a recovery record cleared by another event's answer, storage that fails between two steps |
| `OpensOverWhatWasTyped` | action | answers typed while a save is on its way |
| `ClearedPlanExists` | invariant | an outcome of one event shown on another, a read that answers for an earlier one |
| `WhatWasSavedIsShown` | invariant | re-reads that land out of order |

The type invariants of `AlertDelivery`, `EventPlan` and `Attendance` are theorems and are not checked
again in a run; so is `SentWasTaken` (a row says sent only after an acceptance), part of
the inductive invariant that the refinement of `AlertOutbox` rests on.

### 2.10 Where code and documents disagree

`waived` in `AlertDelivery` is a history variable: it becomes true for an alert when the
code supersedes, overtakes or ignores an attempt whose outcome was never observed. A
second copy is then a decision the code takes and logs, not an accident. The field
`released` of a job, the other history variable, remembers whether the hold had run
out or the last filing day had come when the send asked its boundary: the attempt it
overtakes may be closed, lost or recorded by another worker before the message goes.

* Run `alert_crash` shows that the decision is real. `specs/F-203-deadline-alerts.md`
  (criterion 2) and AD-13 in `docs/ARCHITECTURE.md` say without condition that a
  crash between send and mark-sent cannot double-send. The hold is released after
  48 hours or on the last filing day, when the provider has long forgotten the
  key; TLC finds the second copy. A later passage of `ARCHITECTURE.md` accepts
  this copy explicitly, so the two documents disagree with each other and the
  code follows the later one.
* Run `checkin_link` shows a race at the door. Two submissions of one contact
  straddle the guest's RSVP: the first matches nothing, the RSVP commits, the second
  matches it and writes the link, then the first writes its null over it. The guest
  is on the list and was checked in as registered, and ends as a walk-in, although
  F-401 (criterion 4) and F-302 (criterion 4) say that a matching contact links.
  Another submission would repair it.
* Run `upload_late` is the invariant `RowsHaveObjects` with `LateInserts`: when the
  connection of the insert is lost while the database goes on with it, the re-read
  finds no row, the object is deleted, and then the row commits. The comment at
  `checklist.ts:1059` says that nothing references the object and nothing will. With
  the insert settled before the re-read (`LateInserts = FALSE`), the invariant holds.

Smaller ones, met while modelling and held apart by a constant or not represented:

* `ChecklistPage`, `Revisits`: `checklist-view.tsx:163-165` and 249 reset the epochs when
  the page changes event, so a re-read of a first visit is taken for one of the
  second after A, B, A. A failed re-read takes its epoch too (line 250), which
  `WhatWasSavedIsShown` excuses, and a delayed re-read that fails says nothing (236).
* `CreateRecovery`, `LateAnswers`: `intake-form.tsx` clears or writes the recovery
  record at 447-449, 485-488 and 525-527 also when the form is not mounted any more,
  so that the late answer of an abandoned form can drop the record of a later
  create. With `LateAnswers = FALSE` a form
  starts no create while the save of an earlier visit is outstanding.
* `plan-stale-notice.tsx:158-161` offers the button again when the event is still out of
  date after a lost POST; that POST may yet be handled, and then a second plan is
  stored. `ClearedPlanExists` is about what is claimed, which stays true.
* `plan-api.ts` restates two facts of the engine that hold for the published rules
  only: which agency a promoted blocker names (799), and that a merged line has one
  verification (`RulesetLoad` enforces the second in `DedupeKeysAgree`).
* `conditions.ts:125-146` and `visibility.ts:26` read a bare token that names an enum
  option differently. No published rule uses one; it is not modelled.
* A tick that fails leaves the poller's `chasingSince` from before, and a test alert
  all of whose attempts were skipped is not retired; neither breaks a property.

### 2.11 Fairness

`FairSpec` of `Attendance` is weak fairness of what the process serving a request
does next: handlers await each statement and every transaction ends in a commit
or a rollback. Weak fairness suffices for the lock because the requests are
finitely many; no fairness is given to arrivals, failures or the environment.

`FairSpec` of `AlertDelivery` assumes:

* `WF(Tick)`: time passes.
* `WF` of each worker's next step, its observation of a failed query and of a
  lost claim included: the code awaits every call with a bounded timeout and
  has no wait without one. No fairness is given to crashes, dropped connections
  or edits.
* `WF` that a request at its timeout is decided.
* `SF(Serve(a))` for each alert: an alert that is claimable again and again is
  served. The scan lists every due row up to its cap, orders by failure count
  and date, and the tick works through the whole list; rows it did not reach
  are chased by the next tick. Weak fairness would not do, since each claim by
  another worker disables the claim of the event's alerts for a while.

`FairSpec` of `AlertPoller`: the timers that are armed fire, a tick and its sends go on
(the code awaits bounded calls), time passes, a test call goes on, and a writer that
holds an event commits. Nobody is obliged to start the poller, so
`DeliverableIsDelivered` is about a poller that is left running. The other modules
state safety only: their calls may be lost for ever, as a browser's may.

### 2.12 Instances and bounds

One instant is the provider's timeout, a day and the provider's memory are two
instants, the hold limit is four: the code's order
`BoundaryMargin <= ClaimMargin <= DedupWindow <= HoldLimit` and its ratio of hold
to memory are kept, and a day is not shorter than the memory (24 hours each).

| Run | Actors and objects | Horizon | Why it is enough |
| --- | --- | --- | --- |
| `alert_review` | 1 worker, 1 alert | `MaxTime` 5, 2 revisions, 1 fault | past the deadline at 4 and past the hold limit for an attempt made at 0 |
| `alert_race` | 2 workers, 1 alert | `MaxTime` 4, 1 fault | the hold limit is three here and the deadline late, so that an attempt passes the limit between two workers' checks; a second run of the same code with the ratio kept is `alert_review`; workers are interchangeable and the run uses that symmetry |
| `alert_settles` | 1 worker, 1 email and 1 local alert | `MaxTime` 4, 1 fault | the deadline itself; no symmetry, as liveness is checked |
| `alert_crash` | 1 worker, 1 alert | `MaxTime` 6 | past the hold limit |
| `plan` | 3 requests, 2 keys, 3 texts | 2 days, clock 0 or 1 | two copies of a create and one of another text, an edit or a generation; two generations around an edit; one intake is in the past from the second day; four rulesets (older, newer, equal numbers under another label, unparsable); clock readings may repeat or decrease |
| `attendance` | 2 requests, 2 guests, 1 phone number | 2 days, capacity 1 or none | starts from guest lists with the seat taken and cancelled, so two racing calls meet the last seat and a return; a check-in by each kind of contact against an RSVP, also when the phone is shared; no symmetry, as liveness is checked |
| `checkin_link` | 3 requests, 1 guest | 1 day | two submissions and the RSVP between them |
| `compliance` | 1 tab, up to 3 plans (2 with contacts), 2 revisions, days 0 and 1; 3 uploads | 2 faults | a requirement that leaves and returns needs three plans; a tab is stale as soon as a plan is generated behind it; two lines merge and part; one key sent with two documents, a retry after either fault |
| `upload_late` | 2 uploads | 2 faults | one attempt whose insert outlives its connection |
| `poller` | 1 sender a tick, cap 1, 2 scheduled alerts (one is always refused) and 1 test | 1 fault, 1 writer, 1 restart, 2 failures | the refused row is the head of the scan and fills the cap; the pool has exactly the connections the code gives it; a restart beside a tick that drains |
| `engine` | excerpts of the published rulesets on structures, alcohol, sound, parks and street closures | days 14 to 17 | lead times are shrunk to a week's runway so that every window passes from open to approaching to missed; calendars with and without a holiday list; every accepted form over the excerpt's answers, edits by another form and by one answer alone, also a blank or a malformed one; two broken rulesets that must be refused |
| `web` | create: 2 visits, 3 keys, 2 changes, 2 faults; notice: 2 events, 2 clicks, 2 moves, 1 lost call, 3 revisions; checklist page: 3 calls on 2 rows and the button, 2 turns, 2 plans, 1 failure | - | a late answer after the next visit began; two regenerations around a move; two re-reads that overtake each other beside a third |

Requests, workers and calls are interchangeable, and `alert_race`, `plan`, `checkin_link`
and `web` use that symmetry. Deadlock is not checked: when all requests are answered,
or the clock and the organizer have reached their bounds and all alerts are sent,
nothing is left to do. `Max...` constants bound clocks, edits, plans and faults; in the
proofs they have no upper limit.

## 3. What is proved

`AlertDelivery_proofs` proves, from `ConstantsAssumption` alone and so for any
sets of alerts and workers, any backoff and any timing constants in that order:

| Theorem | States |
| --- | --- |
| `TypeCorrect` | `Spec => []TypeOK` |
| `AtMostOneCopy` | `Spec => []NoUnaccountedDuplicate` |
| `DeliveriesAreCovered` | `Spec => []UnrecordedDeliveryIsCovered` |
| `LandsInsideTheWindow` | `Spec => []NothingLandsAfterShut` |
| `SentMeansTaken` | `Spec => []SentWasTaken` |
| `LocksKeepTheHandoffCurrent` | `Spec => HandoffIsCurrent` |
| `GivingUpIsDeliberate` | `Spec => GivesUpOnlyOnRelease` |
| `DeliveryImplementsTheOutbox` | `Spec => ImplementsOutbox` |

None of these is inductive by itself. The inductive invariant `IInv` is the
conjunction of

* `LockInv`: two live claims never hold the same alert, and the row under a live
  claim is waiting and not stale;
* `AttemptInv`: an attempt that belongs to a worker is for the alert in its
  hands, and a worker past its intent finds its attempt open unless its alert
  was waived;
* `WireInv`: every undecided request belongs to a recorded attempt or to an
  alert that was waived, and its timeout has not passed;
* `AskInv`: after a clear answer of the boundary, a send that ends within the
  reserved margin ends within the provider's memory of a message that landed
  before, or else an older attempt is still open that will make it refuse;
* `CoverInv`: a message of an alert that was not waived landed once, and its row
  says sent or an attempt made no later than the delivery is still open;
* `ShutInv`, `SentInv`: the two remaining invariants with the windows and answers
  that workers carry;
* `ReleaseInv`: a send whose boundary answered while nothing released the hold found
  no attempt past the cutoff, and what is recorded afterwards is younger still.

Each conjunct has a step lemma with one case per action. The heart is
`WitnessStep` with `ProviderStep`: the attempt that covers a delivery survives every
step that does not waive the alert, and an acceptance more than `DedupWindow`
after the first would need a request that no boundary could have let through.

The refinement of `AlertOutbox` takes each step to one of its actions or to none, from the
same `IInv`: a delivery is the provider's first or follows a give-up
(`TakingIsPromised`, from `WireInv`: no undecided request outlives the provider's memory
of what it landed), a record is made under
the claim of a row that waits, of a message that landed or of a local alert
(`RecordingIsPromised`, from `LockInv` and `SentInv`), a withdrawal is of a row that waits
(`WithdrawingIsPromised`), what a send supersedes or overtakes is a give-up
(`GivingUpIsPromised`), and a review is one step whatever attempts it revives
(`ReviewIsPromised`). All other steps leave what the outbox speaks of alone.

`EventPlan_proofs` proves, from `RequestsAssumption` and `VersionsAssumption` and so
for any requests, keys, texts, answers, rulesets, calendar and clock:

| Theorem | States |
| --- | --- |
| `TypesHold` | `Spec => []TypeOK` |
| `RejectionIsFinal` | `Spec => []RejectedStaysOut` |
| `CreatedOnce` | `Spec => []CreateHappensOnce` |
| `PlansPinTheirIntake` | `Spec => []PlanPinsItsIntake` |
| `FreshPlansAreCurrent` | `Spec => []FreshPlanAnswersTheEvent` |
| `PlansAreTotallyOrdered` | `Spec => []PlansAreInOrder` |
| `RulesetsGoForward` | `Spec => []RulesetNeverGoesBack` |
| `FirstPlanIsShared` | `Spec => []OneFirstPlan` |
| `RequestsImplementTheLedger` | `Spec => ImplementsLedger` |

Its `IInv` adds to the properties: `LockInv` (a key and an event each have at most
one transaction), `StageInv` (which statements a kind of request can have
reached), `HistoryInv` (the row is the last entry of its history), `ReadInv` (a
generation holds some revision of the event), `CreateInv` and `CheckedInv` (what was
found under the lock still holds at the insert) and `RejectInv` (a rejected text
stays invalid and no other call is about to insert it). `PlansPinTheirIntake` and
`RulesetsGoForward` are about two invariants that no run checks by name, since
`ImplementsLedger` includes them. `StepCases` reduces every
step to one that touches no table or to one of the three commits, and each
conjunct is proved over those. `RulesetNeverGoesBack` needs `SupersedesIsAnOrder`,
the transitivity of the code's comparison; the latest and the first plan, read
with `ORDER BY generated_at`, are the ends of the list by `OrderedEnds`.

`Attendance_proofs` proves, from `AttendanceAssumption` and so for any guests, phones,
capacities, requests and calendar:

| Theorem | States |
| --- | --- |
| `TypesHold` | `Spec => []TypeOK` |
| `SeatsStayWithinCapacity` | `Spec => NeverOverbooked` |
| `SeatsNeedAnOpenPage` | `Spec => SeatsOnlyWhileOpen` |
| `CountsHold` | `Spec => ReportedCountsAreTrue` |
| `PublicationNeedsAClearPlan` | `Spec => PublishedOverAClearPlan` |
| `LinksHold` | `Spec => []LinksAreGuests` |
| `AttendanceIsAGuestList` | `Spec => ImplementsGuestList` |

Its `IInv` adds `LockInv` (one transaction holds the row), `Granted` (what an RSVP or
a publication found under the lock still holds when it writes, the count
included) and `Matched` (what a check-in matched is still on the guest list,
because rows are never deleted). Every step either moves one request and leaves
the tables alone (`RequestStep`) or writes and leaves the row unlocked
(`TableStep`). The seats theorems rest on `SeatsComeFromRsvps` (no other step adds
a confirmed guest) and `RsvpTakesItsSeat` (the count grows by one exactly when the
guest had no seat, from the cardinality of finite sets).

The refinement of `GuestList` uses the same two facts where they matter: what `Granted`
says of a transaction is the guard of the abstract step its commit takes, and what
`Matched` says of a check-in is the guard of `CheckIn` at the upsert, statements after the
match. A commit whose acknowledgement was lost is the step all the same; a refusal, a
rollback and a read are none.

`AlertPoller_proofs` proves, from `PollerAssumption` and so for any alerts, events,
pool sizes, budgets and bounds:

| Theorem | States |
| --- | --- |
| `OneTickAtATime` | `Spec => []OneTick` |
| `StopStops` | `Spec => []StopMeansStopped` |
| `ChasesGoOn` | `Spec => []TheChaseNeverStalls` |

The model has room for two ticks; `OneTick` says that the second is never used.
Its `IInv` ties the closure's variables to the ticks and workers: `RunningInv`
(without the flag every tick is idle), `WorkInv` (a worker is up only while its tick
drains), `StopInv` (a stopped poller has no timer, and none of its ticks is under
way once the stop has returned) and `ChaseInv`. `RanStep` covers the four callbacks
that may run a tick: each leaves one running, or finds one running or no timer.

`Compliance_proofs` proves of `Checklist`, from `ChecklistAssumption`, `PlansAreFinite` and
`RulesAreOfOneLine` and so for any plans, histories, bindings, tabs, updates and days:

| Theorem | States |
| --- | --- |
| `StruckStaysStruck` | `Spec => StruckIsTerminal` |
| `ReviewsAreOfTheShownPlan` | `Spec => ReviewIsOfTheShownPlan` |
| `MovedDatesAreTold` | `Spec => []MovedDateIsTold` |
| `WaitingAlertsMatchTheReview` | `Spec => []WaitingAlertsAreOfTheReview` |
| `ReviewsAreCovered` | `Spec => []ReviewedPlanIsCovered` |
| `ReadsFailOnlyBesideReviews` | `Spec => []ChecklistCanBeRead` |

`RulesAreOfOneLine` says of stored plans what the engine makes of them: a rule fires once
and is merged into one line (`findings.ts` `mergeGroup`), and the row that leads a merged
line is recorded together with its routes (`plan.ts` `renderingOf`). TLC evaluates it on
the plans of `compliance`. `ReviewsAreCovered` needs it: two lines that share a rule
share an idempotency key, and so one row, which the first window to shut would cancel
for both.

The inductive invariant has four parts. `TypeInv` includes `ack <= Latest`. `TaskInv`
(`TasksFollow`) says that the tasks of the reviewed plan are its trackable items, one each,
and that every other task is struck by that plan. `AlertInv` (`RowIsOf`) says of a waiting
row what the property says and, which the property does not need, that the window the
poller will judge it by is that of the subject it is keyed by. `RemindInv` says that the
reminders exist. The parts need each other: a tick cancels a waiting reminder only when
its window has shut, and that this is the window of the requirement, and not of another
one that shares the row, is `AlertInv` (`ReminderStaysOpen`).

A review establishes all four at once. `MaterializeKeepsTheStruck` shows that it re-points
a task only when it is the greatest index of a set of live tasks (`MaxIsAMember`, by
well-foundedness), `WhoFollows` that this set has one member, `FilingOrderLists` that the
new tasks list each remaining item once (the order by date and rule is total on the lines
of a plan), and `ScheduledRows` that the upserts and the cancelling leave exactly the
planned rows waiting. Between reviews, plans are only appended (`PlansOnlyGrow`), so what
is struck stays so (`StaysStruck`) and the reviewed plan does not change. A live task
follows an item of the plan last reviewed, so any plan that is not older can be shown with
it (`ReviewedTasksAreShown`); with `TabInv`, that a tab reads a plan that exists, the only
reads that fail are those a review of a newer plan overtakes.

Of `DocumentUpload` the same module proves, for any requests, items, intents and faults, as
long as no insert outlives its connection (`LateInserts = FALSE`):

| Theorem | States |
| --- | --- |
| `RowsKeepTheirBytes` | `UploadSpec => []RowsHaveObjects` |
| `AnswersStayTrue` | `UploadSpec => []AnswersAreTrue` |

Without the hypothesis the first is false: that is the run `upload_late` and the
third finding. `RowInv` says that a row is the one its own attempt inserted and that
this attempt has put its bytes, is past its insert and was not told that it failed;
`AnswerInv` what an attempt that still removes its bytes is going to answer.

`CreateRecovery_proofs` proves, from `RecoveryAssumption` and so for any visits, keys,
texts, changes and faults:

| Theorem | States |
| --- | --- |
| `NoCreateGetsLost` | `RecoverySpec => []NoCreateIsForgotten`, with `LateAnswers = FALSE` |
| `NothingTypedIsOverwritten` | `RecoverySpec => OpensOverWhatWasTyped` |

Two invariants carry them. `IInv` holds whatever `LateAnswers` is: a call is waited for by
one visit, in a step that waits for it (`CallInv`); what an answer said is still true when
it is used (`AnswerInv`); what a form knows of its create agrees in all its fields
(`FormInv`); and a key goes with one text in storage, in forms and in calls (`TextInv`).
`OneCreate` needs the hypothesis: running saves, the recovery record and the form on
screen are about one key (`OneKeyInv`), an event that is there or may still be made is in
storage unless planned or discarded (`OwedInv`), and a form that may mint a key stands
where nothing is owed (`FreshInv`). With `LateAnswers` the answer of an abandoned form
breaks `OneKeyInv`, and then `NoCreateIsForgotten` (section 2.10). The second theorem adds
`TypedInv`: while a save runs, what is on the screen is what was typed, or the stored
answers over exactly what was submitted; it needs no hypothesis. The step lemmas have one
shape lemma for each way a page reacts to an answer (`CreatedShape`, `SaveLostShape`, ...)
and one proof (`ResponseKeeps`) over all of them.

`Pages_proofs` proves of `StaleNotice` `ClaimsAreBacked` (`NoticeSpec => []ClearedPlanExists`) for any
events, clicks and bounds: no plan is of a revision its event has not had
(`LedgerInv`), and a read that confirms a revision was of an event with a plan for it
(`ReadInv`, from `CurrentMeansPlanned`).

Of `ChecklistPage` it proves `SavedIsShown` (`PageSpec => []WhatWasSavedIsShown`) for any
pages, calls, rows and bounds, as long as no page is opened again while calls of its
first visit run (`Revisits = FALSE`; otherwise the epochs of two visits mix and the
property fails). Its `IInv` says that a call is of the page on screen exactly when it
was begun in its turn (`TurnInv`), that epochs are distinct and none is beyond the
counter (`EpochInv`), and that a re-read, and so the screen it becomes, has seen
every write whose own re-read has no later epoch (`ReadInv`, `ScreenInv`).

`Engine_proofs` proves of the engine:

| Theorem | States |
| --- | --- |
| `ScreenAndEngineAskAlike` | `IntakeSpec => []StoredAnswersAreAskedAlike`, for any questions, forms and edits |
| `BusinessDaysAreCountedBack` | counting back ends on the latest day that leaves exactly the published number of business days, for any date and list of holidays |
| `LaterDaysNeverHelp` | for every published kind of deadline, a later day moves no last filing day, changes nothing of what is missing, and gives no better status |
| `AcceptedLevelsAskTheirBlocks` | a window by level that the reader accepted is never undated for want of an answer about blocks |

The first is about `EventIntake`, whose actions are all that `PlanEngine` does to the
intake. The screen repeats passes until one asks nothing new; the engine resolves each
question through those its clauses name, and a ruleset with a cycle among them is refused
at boot. Both sets settle: a question is in it exactly when each of its clauses holds of
an asked question (`AskedFieldsSettle`, `ScopeSettles`), and without a cycle only one set
does (`OneSettlement`, by well-foundedness). The definitions are recursive functions, so
that there is something to show before they may be unfolded: that the passes exist as a
function (`PassesExist`), and that it may be built from what they reach.
`QuestionsAssumption` says of clauses what every published expression satisfies and the
parser does not enforce: a bare token names an option of a list, and `in` names a question
with one answer. Where that fails the two implementations differ (section 2.10).

The second goes from the day with exactly n business days left (`SomeDayLeavesExactly`,
from `ABusinessDayBefore`) to the code's loop (`CountedBackIsTheDay`). It needs
that the list of holidays begins on some day (`HolidaysAreListed`), as a list does. The third has one lemma for each
deadline type; `IsPublished` says that a deadline has the fields its type has and a
calendar its holidays. It is the reason why days only worsen a verdict
(`DaysOnlyWorsenTheVerdict`), for one deadline: the merge, the leading route and the branches over it are model-checked. The
fourth is the reader's half of `AcceptedWindowsCanBeDated`. `HangsOnTheLevel` says that the
block question hangs on the level question and otherwise only on what that hangs on, as
in the published rulesets; the reader does not require it.

Only model-checked are

* liveness (`EveryCallIsAnswered`, `EveryAlertSettles`, `EveryTestIsAnswered`,
  `DeliverableIsDelivered`), which is outside the prover's reach;
* of the engine `AcceptedWindowsCanBeDated`, `ThePlanPageReadsEveryPlan`,
  `DaysOnlyWorsenTheVerdict` and `AnnouncedVerdictsComeTrue`. They are about whole plans, and
  plans are evaluated by RECURSIVE operators (trigger trees, conditional findings): tlapm cannot
  use a module that declares one, and what they compute for every tree needs
  induction over data, which its provers cannot instantiate.

## 4. What the project is built on, and what is left

The order was: delivery, planning and attendance with their proofs; the
checklist and its alerts, the uploads, the poller, the engine from dates to verdict
with the intake and the ruleset it depends on, the stored plan as the page reads
it, and the three web pages that keep state across calls. What would come next:

* `AlertOutbox` as the promise of `AlertPoller` too, so that the poller's four-step send is
  shown to be the same send as `AlertDelivery`'s;
* the trigger trees as functions on a finite set of nodes in place of RECURSIVE operators, which
  would open plan evaluation to proofs about a given ruleset;
* larger ruleset excerpts, beyond the five areas of `engine`.

## 5. What is not modelled

`PROJECT.json` lists every part with its reason. In short:

* session and access tokens, and the parks search: stateless calls of external
  services;
* the guests, promotion, door and check-in pages, which render what the API answers
  (their calls are `Attendance`'s);
* the repository's scripts, which analyse the rules file offline;
* of the ruleset reader, shape checks of single fields; of the plan page, rendering;
  of the poller, its health report and the kept simulated deliveries;
* database migrations, except for the plans that older releases left behind.
