# Antabay in TLA+

Antabay is a travel agent that books, watches and repairs one journey: it
searches flights at a supplier (Atlas), verifies a price, orders, pays and
waits for tickets, then monitors the journey, notices when the traveller's
objective is violated, proposes a replacement, asks the traveller, and swaps
the booking. This directory specifies the part of it where a mistake costs the
traveller money or the trip: choosing, consent, buying, replacing a booking,
finding out what became of it, and showing all that to the traveller.

## The system

All state is in one SQLite database behind `JourneyRepository`; each
repository method is one transaction, and a service method is a sequence of
them and of HTTP calls to Atlas. There are no locks, so two callers (the API's
event loop, its thread pool, the reconciliation sweep, the capture script) can
interleave between any two of those. Services are called directly; the only
messages are Atlas's webhooks and the server-sent event stream.

| Component | State it keeps | Operations | What must be right |
|---|---|---|---|
| Authorisation policy engine (`services/authorisation_policy_engine.py`) | none: reads and appends to `journey_events` | `evaluate`, `request_if_required`, `enforce_authorised` | nothing is permitted without an approval of that action at that price |
| Event service (`services/event_service.py`) | `journey_events` | `append`, `record_auth_outcome`, `stream_events`, `replay_events` | one answer per request and process; no event lost or reordered on the stream |
| State service (`services/state_service.py`, `models/journey.py`) | `journeys.state`, `audit_entries`, `held_identifiers` | `transition`, `add_held_identifier`, `append_audit_entry`, freshness | only documented edges; the audit agrees |
| Verification (`services/verification_service.py`) | `verifications`, a session identifier | `verify`, `needs_reverification` | a session and a price for the option asked about |
| Booking (`services/booking_service.py`) | `orders`, `payments`, `ticketing_queries` | `create_order`, `submit_payment`, `confirm_ticketing` | nothing bought twice or lost sight of; only tickets confirm |
| Recovery (`services/recovery_execution_service.py`) | `recovery_executions`, `cancellation_attempts`, `journeys.current_order_no` | `execute` | never without a ticketed booking; one purchase per approval |
| Verification gate (`services/verification_gate.py`) | `verification_attempts` | `verify`, `reconcile_unresolved`, `reportable_outcome` | newest observation wins; bounds respected |
| Webhook (`services/webhook_service.py`, `api/main.py`) | `webhook_notifications` | `receive`, `confirm`, `reconcile_active_journeys` | confirmations per window bounded; no change missed |
| Impact evaluation (`services/impact_evaluation_service.py`) | `impact_evaluations`, `recommendations` | `evaluate_wake` | the newest wake decides; every evaluation concludes |
| Search (`services/flight_search.py`) | `search_records`, `flight_options`, call budget | `search` | the budget is never overspent |
| Scoring (`services/scoring_service.py`) | none (pure) | `score` | ranking is a total order that respects hard constraints |
| Console (`frontend/src`) | reducer state | the event actions | a pending question is outstanding, the newest one if it is |
| Parser, journey creation, injector, auth headers, wiring, migrations, capture export | - | - | no behaviour over time |

What is hard here: reads that are stale when used (price, session, last order,
event log), check-then-act across transactions, Atlas answers that are lost
after the call took effect, exceptions that leave a row half-way, a crash
between a purchase and its record, and money at every one of those points.
`PROJECT.json` lists each such hazard at its line.

## Modules

| Module | Models |
|---|---|
| `TravellerConsent` | abstract: what the authorisation feature promises, without log or concurrency |
| `Authorisation` | the policy engine and `record_auth_outcome` over the event log; implements `TravellerConsent` |
| `AuthorisationProofs` | five theorems about `Authorisation`, one of them that it implements `TravellerConsent` |
| `Booking` | verification, ordering, payment, ticketing and the journey state, driven by callers, against Atlas |
| `BookingProofs` | seven theorems about it |
| `Recovery` | extends `Booking`: `execute`, its table, the current order and the cancellation |
| `RecoveryProofs` | eight theorems about it |
| `VerificationGate` | `PostActionVerifier`: overlapping verifications of records, their attempts, bounds and order of observation |
| `VerificationGateProofs` | three theorems about it |
| `Webhook` | extends `VerificationGate`: notifications, background confirmations, the reconciliation loop, restarts and time |
| `WebhookProofs` | seven theorems about it, one of them that each of its steps is one the gate allows |
| `ImpactEvaluation` | overlapping calls of `evaluate_wake` for one journey, the looks at the log, the shared call budget |
| `ImpactEvaluationProofs` | four theorems about it |
| `EventFeed` | abstract: what a watcher of a journey is promised: every event once, in order, and in the end |
| `EventStream` | the log's appends, the polling generator and the replay, the connection, and the console's hook and reducer; implements `EventFeed` |
| `EventStreamProofs` | five theorems about `EventStream`, one of them the refinement of `EventFeed` but for its fairness |
| `Scoring` | `ScoringService.score` as operators, and the second scoring with the budget relaxed |
| `ScoringProofs` | six theorems about it, over a theory of its sort |
| `MCAuthorisation`, `MCBooking`, `MCRecovery`, `MCVerificationGate`, `MCWebhook`, `MCImpactEvaluation`, `MCEventStream`, `MCScoring` | instances for TLC |

### Authorisation

`log` is the `journey_events` of one journey, restricted to the three event
types the engine reads; an event is named by its sequence number and so a
`request_id` is the position of its request. An engine call reads the log once
and decides; what it still owes to the log is held in `engine[a]`: a void, then
possibly a request. `recorder[r]` is the same for `record_auth_outcome` in
process `r`: the API's event loop, whose handler of
`POST /authorisation/{request_id}` is a coroutine that never awaits, and
`scripts/capture_runner.py`, which answers beside it (line 243). Each records one
answer at a time, and the two race on one request; `by` in an outcome is a
history field that says which process wrote it. Every append is a step of its
own, may fail (the unique sequence number was taken, the database was locked,
the process died), and other calls come in between. A request is written by the
engine, with its cost, or by something else (a seeded or replayed journey)
without the optional `cost_amount` (`AppendUnpriced`, `NoCost`): an approval of
that permits at any price. A request without an `action_id`, which the engine
never matches, is left out. `permit` is a history variable: the last TRUE that
`enforce_authorised` returned.
`Events`, `Requests`, `Outcomes`, `Voids` are the list comprehensions of the
code, `IsLast` its `matching[-1]`. One caller drives each action, as the code
does: the action id is a recommendation id, which one recovery executes.

### Booking

`job[j]` is a caller: the program counter and local variables of a process or
thread that runs the services' methods in order, as `scripts/capture_runner.py`
does (`"book"`) or as the impact evaluation does, which only verifies options
(`"verify"`). A caller reads the clock once and passes this `now` to all calls.
`state`, `audit`, `held` and `verified` are the journey's row and its dependent
rows, `orders`, `payments`, `queries` the tables of the same name. `atlas` is
the supplier: per order the option, the status and how often it was charged.
It is external and modelled as nondeterministically as the code allows for:
every call may be answered, answered with something unparseable, or lost before
or after it took effect; a repeated order may be recognised as a duplicate or
not; status 0 may come without an order number (`OrderUnnumbered`); a payment
answered with anything but status 0 is stored as DECLINED, and Atlas may have
charged all the same; a paid order is ticketed in part, in full or never; an
unpaid one lapses. An answer is a JSON object or cannot be parsed.

Correspondence worth knowing:

- `transition` is two steps, `CheckTransition` and `WriteTransition`, because it
  reads the state, checks the edge and writes blindly in a later transaction.
  The guard `journey.state is VERIFIED` before it is `MaybeTransition`.
- `_find_session_identifier` is `CurrentSession`: the identifier issued last, of
  any kind, so an order number held for its deadline can be sent as a session.
- the retry of an uncertain order is the `tries` of `OrderUncertain`; it does
  not check the session again.
- `create_order` accepts any stored verification of the option, whatever it
  said: `verified` is only the set of options that have one.
- `confirm_ticketing` past the deadline answers from the stored queries.

A few transactions that no other modelled caller can tell apart are one step:
the stored verification with its held identifier and the state read that
follows, the state write with its audit entry, an order row with its deadline
identifier, the answer of Atlas with the row that stores it (the loss of either
is `OrderUncertain`, `CrashOrdering`, `CrashPaying`).

### Recovery

`exec[j]` is the part of the `RecoveryExecution` object that the call keeps
beside `job[j]`. `CheckExecution` and `SaveExecution` are the existence test and
the insert under the unique `recommendation_id`; `ClearToBuy` is the
authorisation check with the reading of the order to supersede; the services'
steps are those of `Booking`, and an exception in one ends the call with the
row as it is; `SetCurrentOrder`, `VoidSuperseded`, `Reconcile`, `Conclude` follow.
The model starts in MONITORING with a ticketed, paid order, where recoveries
start. `granted` stands for `enforce_authorised` (see `Authorisation`): the
price of a stored option does not change, so an approval does not lapse. The
order number in an ABANDONED row is kept for the properties; the code leaves
that column empty.

### VerificationGate

`attempts[r]` is the `verification_attempts` of one record in insertion order,
reduced to when it was observed, what the condition said, how it was classified
and whether it was applied. `run[v]` is the frame of a call of `verify` by
thread `v`, with one program point per access: the query (`QueryAnswered`,
`QueryFails`), the history for an absence (`Judge`), the latest applied attempt
for a conclusion (`Apply`), the insert (`SaveAttempt`). Between them any other
thread runs, the clock moves, the call may raise (`VerifyRaises`), the process
may die (`CrashServer`). `now` is what the caller passed, `observed` the clock
when the answer had come. The registered condition is a set of `Results`; its
bound is `MaxAttempts` and `MaxDuration`, an empty set standing for `None`. An
inconclusive answer is unresolved whatever the bound says, so only an absence
reads the history. The discrepancy flag is stored and never read: left out.

### Webhook

`triggers[o]` holds `received_at` of the notifications of `o` that triggered a
confirmation; others change nothing a modelled step reads. `Receive` and
`SaveNotification` are the window test and the insert of `receive`, which runs
on the event loop: one request at a time, and neither the start nor the end of
a sweep in between, hence the guards on `receiving`; the thread of a sweep does
come in between. `backlog` is the background tasks, `Confirm` a thread that
takes one up. `BeginSweep`, `SweepOrder`, `EndSweep` are the loop and the thread
it awaits, which passes the clock of its beginning to every window test and
verification. `Wake` is what both do with a conclusion: `WAKE_REQUESTED` is
appended and the evaluation called, in the same thread; `woken[o]` is when that
was last done. `WorkerRaises` and `SweepRaises` are an exception anywhere in
`confirm` or in the sweep: before the append, which is lost then although the
attempt is stored, or after it, in the evaluation. `asked` and `failed` are history
variables: who decided to ask, and for when; and when an exception or a restart
last lost something.
The two reads of the window test are one step: both tables only grow, so a
window that is not open over the two was not open at the first either.

### ImpactEvaluation

`call[e]` is the frame of the call of `evaluate_wake` that wake `e` started;
calls run in the threads of background tasks and of the sweep, so those of one
journey overlap. `events` is the journey's log restricted to wakes and to what
evaluations append, `row` the status in `impact_evaluations`. `Superseded` is
`_superseded`; it is asked in `Check` before the search, in `Between` after a
candidate that was not verified, and in `Decide`. The conclusion is three
transactions (`SaveRecommendation`, the row in `Conclude`, the event in
`Announce`), and so is the judgement before it two. A search or a verification
is `ReadBudget`, `WriteBudget` and the request (`Search`, `Verify`): the SELECT
and the UPDATE of `decrement_call_budget` share a connection, but sqlite3 opens
a transaction only with the UPDATE, which sets the value without a condition.
What the objective says, what Atlas offers and how options rank are data: any
verdict, and up to `MaxCandidates` candidates, either satisfying ones or only
such as the budget constraint alone rules out (`relaxed`); the two never come
together, because the second kind is looked for when nothing survives.
`CallFails` is any other exception: an option that was not stored, a rate limit
raised before the request, a table access, or the death of the process.
`asked` and `late` are history variables.

### EventStream

`log` is the `journey_events` of one journey, by sequence number; an event is
reduced to what the stream and the console tell apart. `writer[w]` is a thread
or process inside `append_event`: `BeginAppend` reads the greatest number
(sqlite3 opens a transaction only with the INSERT), `Insert` inserts the next
one or fails on the unique constraint. What is appended is chosen at the insert,
except an answer, which names its request from the start: `Answer` is the test
of `record_auth_outcome`, made by the API or by the capture script for any
request that has no answer yet, received by this console or not, and
`AppendAnswer` the append that follows, whatever was answered in between.
`server` is the generator between two suspensions: `Read` one list, `Yield` its
events one by one, least first (`AfterYield` is the test of the last one),
`Test` the state of the journey, in a transaction of its own and only after an
empty read; the sleep is time before the next `Read`. A replay reads once and
yields all, between `replay_started` with id 0 and `replay_ended` with the
number after the last. `wire` is what has been sent and not received. `console`
is the hook and the reducer: `last` is the id the client keeps and sends as
`Last-Event-ID` when it connects again, `log` the capped log, `pending` the
panel.

`@microsoft/fetch-event-source` is a library outside `src/`: it notes the id of
each message as it delivers it, keeps it over retries, retries after an error
and not after a normal end. `onopen` replaces its test of the answer, so any HTTP
answer opens the stream and an error answer is one without events: `Refuse`.
Connections share nothing but the log, so one console is modelled, for one mount;
a change of pace or surface mounts a new one (`App.tsx`).

The journey becomes terminal by `FinishJourney`; that some writer then appends a
terminal `state_change` is possible and not assumed: no service in `src/` does.

### Scoring

Options and objectives are records of what a check or a preference looks at; the
legs are folded into the gaps between them and the worst seat count and risk
(`_scarcity_score`). `Checks` lists the eleven eliminations in the order of the
code, `Fails` is each of them, `Reason` the first that applies, named as the
report names it (`constraint_id or reason_code`). `SortKey` is `_full_sort_key`
as one list of pairs (a number is a pair with 0, what ranks nothing is the same
pair for all), `Sorted` Python's stable `sorted` of the elements at given
places: each goes to the place that counts those which precede it. `ById` is the
sort by `option_id`, `Ranks` the counter that goes up wherever the key of the
sorted list changes. `RelaxBudget` is `_has_budget_only_blocker` with the
scoring in `_try_relaxed_budget_recommendation`. The properties do not use the
keys: `Better` says what a preference means, directly on two options, and
`Ahead` which of the two the first preference that separates them is for,
scarcity settling only what is equally direct.

## Runs

| Run | Question | Bounds |
|---|---|---|
| `authorisation` | consent is honoured by racing engine and recorder calls; the log implements `TravellerConsent` | 2 actions, prices 0, 120 and none, logs of 4 events, 2 recorders, at most 2 calls between their read and their append |
| `booking` | monitoring means ticketed and paid; no double charge; every charge and order has a row that names or admits it; callers stop | 1 booking beside 1 verification of another option, 2 orders, 2 ticketing attempts, clock 0..1 |
| `booking_edges` | does the journey follow documented edges only? no | 1 order |
| `recovery` | never stranded, current and released orders are right | 2 recommendations at once, 3 orders, at most 1 fault |
| `recovery_repeat` | two calls for one recommendation: one purchase for the approval, neither repeats a phase nor rewrites the other's row | beside a verification, 3 orders, any number of faults, clock 0..1 |
| `gate` | is the reportable conclusion the newest, absence declared at the bound only? | 1 record, 2 threads, all 4 results, bound of 3 attempts or 2 ticks, 3 rows, clock 0..3 |
| `webhook` | confirmations per window are bounded; no accepted notification is forgotten; no order is left alone, nor news of it withheld, for longer than the deadlines add up to | 1 order, 1 background thread beside the sweep, window and interval of 2 ticks, 3 rows, clock 0..8, at most 1 exception or restart |
| `stream` | every event is shown once and in order over breaks and racing appends; the panel, the end of the stream; the stream implements `EventFeed` | 2 writers, 3 events, a log of 2 entries, 1 break, live and replay |
| `scoring` | options are judged, ranked and selected as the objective says, in whatever order they come; a relaxed budget lets through only what exceeds it | lists of up to 3 out of 11 options, 81 objectives |
| `evaluation` | superseded evaluations stop soon; none returns owing an answer; each step brings one nearer to its end; every newest wake is answered | 2 wakes, a budget of 4 calls, 2 candidates |
| `evaluation_stale` | does the newest wake have the last word? no | the same |
| `evaluation_budget` | are no more requests sent than the budget holds? no | the same, a budget of 2 |

The type invariants of `Booking` and `VerificationGate` are checked as parts of
those of `Recovery` and `Webhook`; the measure of `Booking`'s callers
(`CallersAdvance`) as a part of `RecoveriesAdvance`.

Why the bounds suffice. Four log events hold a request, its two answers by two
processes that raced, and a void, a newer request or an event of the other
action among them; or a request, its answer, a void and a new request. A
read-decide-append race is between two calls, and two may be under way at once.
The two recorders are interchangeable, so TLC explores the logs up to swapping
them; actions are not, and no property is temporal but the safety of
`ImplementsConsent`, which the swap leaves alone too. Two orders are what one
booking can create (an order and its retry); the third in `recovery` is the
booking being replaced. Two ticketing attempts have a first and a last. The
clock matters only for the order in which callers started; it moves between two
starts. The fault bound of `recovery` counts lost or garbled answers, answers
without a session or an order number, and crashes; `recovery_repeat` has no such
bound, and explores its two calls for one recommendation up to swapping them.
Three rows of attempts are what two overlapping calls and one before them
leave; the reconciliation bound of three is then reached by the last of them
only. A tick of the webhook run is half a window (150 seconds), and a
confirmation or a sweep takes one at most: httpx gives up on a call after
seconds, and an order is one call. `LatestAnswer` adds up the longest wait: a
window, a sweep under way, the sleep, the next sweep, and a confirmation that
holds that one back; it is tight (TLC finds an order that waits for one tick
less), and the clock bound leaves room for it after an exception at the first
tick. Three rows are an answer, one that comes to nothing and the one after. One
order is enough because window, notifications and attempts are kept per order;
what a second one changes is how long a sweep takes, which is `Patience`.

Three events are one shown, one on its way when the connection breaks, and one
appended in a race with that; they also hold a request, a newer one and the
answer to either, or two answers by two writers, and outgrow a log of two. One
break is enough because a connection leaves nothing behind but `Last-Event-ID`;
a second starts from a state like the one the first left. The catalogue of
`scoring` has, beside a plain option, one or two that differ in each thing a
check or a preference looks at, on and beside its boundary; three options make a
tie at the top with and without a third.

Two wakes are one that supersedes and one that is superseded; two candidates
leave one to verify after a look at the log, and four calls are enough for one
evaluation to search and verify both while the other spends as well, and few
enough for the budget to run out under them.

Deadlock is checked in `authorisation`, `gate` and `webhook`. In the gate a
thread can always crash; in the webhook run `TimePasses` must remain possible up
to `EndOfTime` (the last tick, or an order with all the rows the bound allows),
so the check shows that no combination of window, sweep and backlog stops the
clock of the model. It is off where the system really stops: callers of
`Booking` and `Recovery` finish, a log of bounded length fills up, a console
that ended stays so, an option list is scored at most twice, and when all wakes
have been evaluated nothing is left to do.

Fairness. Safety runs need none. `Booking!Spec` and `RecoverySpec` assume weak
fairness of each caller's own steps: a thread of a live process that is not
blocked keeps running, and nothing in the code blocks (there are no locks and
every HTTP call has a timeout, httpx's default where none is given). No fairness
is assumed of Atlas, of the clock or of crashes. `EveryCallerStops` then says
the retry of an order and the loop over ticketing queries end whatever Atlas
answers. `ImpactEvaluation!FairSpec` assumes the same of every thread inside
`evaluate_wake`, and neither that wakes come nor that calls fail:
`NewestIsAnswered` says overlapping evaluations never give way to one another in
a circle. `EventStream!FairSpec` assumes that a generator which is ready is
resumed and a browser reads and reconnects (`Service`, `Receive`): the event
loop and the client do so, and the sleep of a poll is timed. It does not assume
that anybody appends, answers or finishes, nor that connections break or stop
breaking (their number is bounded). `Webhook` states its deadlines as safety
over the clock.

### What the violated runs show

1. `booking_edges`: the booking pipeline checks VERIFIED -> MONITORING; an
   unavailable answer for another option writes SEARCHING; the pipeline writes
   MONITORING. FR-007 of specs/001 wants that edge rejected.
2. `evaluation_stale`: the earlier evaluation has looked at the log for the last
   time; a newer wake arrives and is answered; the earlier one then announces a
   recommendation for the outdated state (FR-002 of specs/009).
3. `evaluation_budget`: two evaluations read the same budget and both write it
   less one (FR-009 of specs/002, and the docstring of `decrement_call_budget`).

Seen while modelling and not stated as a run, being plain from a single step of
the code: a grant voided because the price changed permits again once the price
is back, because `enforce_authorised` reads the void only to avoid a second one
(FR-013 of specs/010); a payment whose answer is JSON without status 0, a
gateway's error for instance, is stored as DECLINED although Atlas may have
charged (`booking_service.py:224`; FR-013 of specs/005 takes a decline for "a
certain, known outcome"); an order answered with status 0 and no number is
stored as CREATED with none (`booking_service.py:90`); an UNCERTAIN payment, or
a first query before the tickets are out, ends a recovery as ABANDONED although
the traveller was charged (FR-007 of specs/005, NFR-002 of specs/011); an
unparseable reconciliation answer counts as a cancellation, so a booking may be
reported cancelled that is still ticketed (data model of specs/011); any
exception after the row of a recovery is inserted leaves it IN_PROGRESS, and the
row forbids another attempt, although specs/011 has every execution end "in a
recorded outcome"; an exception inside a sweep ends `_reconciliation_loop`,
which has no handler and is started once (FR-010 of specs/007); a sweep skips an
order whose confirmation window is open, so that an order need not be reconciled
"at least once within its defined reconciliation interval" (SC-008, specs/007
`spec.md:456`): `KeptInformed` is the longer bound that the code does keep; the
loop over candidates that exceed the budget never looks for a newer wake (task
T039 of specs/009 wants it between attempts). And from longer behaviours: one
request can be answered twice, approved by the API and refused by the capture
script or the other way round, and the last answer counts, although the
docstring of `record_auth_outcome` says it "refuses to resolve twice"
(`event_service.py:99`; `OneAnswerEach` is what remains); an order can be
created under the session of another option verified meanwhile (FR-001 of
specs/005); the capture loop goes on past a deadline and a terminal error
(FR-011 of specs/005); a ticketed journey whose state another verification moved
back stays unmonitored; two recommendations recovered at once can leave
`current_order_no` on an order that the other one released; the discrepancy flag
is computed from the error of a failed query as well (FR-012 of specs/007 wants
a claim and a confirmation that disagree); no registered condition ever answers
NOT_FOUND, and `reconcile_unresolved` has no caller outside the tests.

In the stream and the console: a second request hides the first, which stays
outstanding, cannot be answered from the panel, and does not come back when the
second is answered, so that the panel is empty with a request outstanding
(FR-008 of specs/006, `spec.md:202`, and the edge case at lines 152-154 want it
presented until it is resolved; `PendingIsOutstanding` claims nothing for it); a
replay whose connection breaks starts over in the same log; an HTTP error when
the console reconnects ends it for good; an event appended between the last,
empty read and the terminal state of the journey is never delivered; ten event
types, among them `authorisation_voided` and `alternative_recommended`, are
never shown; the contract (specs/006 `sse_stream.md`) closes the stream after
`journey_ended`, which no code emits.

In the scoring: a HARD `direct_only` excludes nothing while a HARD
`min_connection_N` does (`_evaluate_connections` looks at SOFT preferences only;
FR-007 of specs/003); with a tie at the top above a third option all tied ones
are SELECTED and `selected_option` is the last of them by id, whereas a tie of
all survivors is reported and selects none (specs/003 `spec.md:140-142` has
every tie reported and none "broken arbitrarily"; `SelectedIsBest` leaves the
first case open); a direct option and a connection that no stated preference
separates share a rank, or scarcity puts the connection first (US3 scenario 3 of
specs/003, `spec.md:121-123`, wants the direct one above;
`TestDirectVsConnectionRanking` tests a cheaper connection only; `Ahead` leaves
it open); the rejection of an option that ties on the first preference says that
a cheaper one exists; the report names only the first constraint each option
violates, so SC-006 of specs/003 holds for those alone.

## Proofs

`AuthorisationProofs` proves, for every set of actions, prices and recorders and
every bound on the log:

- `TypeCorrect`: `Spec => []TypeOK`.
- `VoidsOnlyGrants`: `Spec => []VoidsAreOfGrants`.
- `AnswersAreOnePerProcess`: `Spec => []OneAnswerEach`.
- `PermissionsAreConsented`: `Spec => []PermitsHonourAnswers`.
- `LogIsConsent`: `Spec => ImplementsConsent`, the refinement of
  `TravellerConsent`: an appended request is a question put to the traveller, an
  appended outcome a process (a voice) heard on it for the first time, a
  permission rests on the newest question and its last answer, and a void or
  anything owed is invisible.

They assume `ConstantsAssumption` (traits are traits, prices and the bound are
naturals), which TLC evaluates in every run, and nothing about the number of
processes that record answers: two that race may both answer one request, and
the properties say what holds all the same. That a process records one answer
at a time is the shape of `recorder[r]` (see above).

None of the properties is inductive. `VoidInv` adds what a call that still owes
a void knows: its request is approved, not voided, and no other call owes the
same one, because a request belongs to one action and each action has one
frame. `AnswerInv` adds that outcomes follow their requests and that an answer
still owed is the first of its process to that request (`AnswerIsFirst`):
others may have appended since it looked, it itself has not.
The proofs are per action, over lemmas about what an append does to `Events`,
`Requests`, `Outcomes` and `Voids` (`AppendFacts`, `ReadersAfterAppend`).

`BookingProofs` proves, from `BookingAssumption`, for any callers (booking or only
verifying), options, orders and ticketing attempts, with Atlas as free as
`Booking` leaves it and a crash at any point: `TypeCorrect` (`TypeOK`),
`Monitored` (`MonitoringIsTicketed`), `ChargedOnce` (`ChargedOnceForCreated`) and
`ChargesOnRecord` (`PaymentsAccounted`). None is inductive. `Sound` says what a
frame knows at each point: a caller about to pay (`Awaiting`) names an order that
Atlas has and has not charged, and no two callers name the same one (`OneEach`),
since each was told the number of the order it had just created; an attempt to
order holds a session; a caller that queries names an order Atlas has; one that
asks for monitoring has seen a ticketed order confirmed (`Confirmed`), which no
step takes back. `AtlasSound` ties status to charges, and a charge to a CREATED
row. Most steps charge nothing: they meet `Keeps`, under which `StepKeeps`
preserves the invariant, and only need what their own frame is afterwards.
`ChargeStep` is the one argument about money, shared by the answer that arrives
and the payer that dies. `OrdersOnRecord` (`OrdersAccounted`) compares
cardinalities: a step adds at most one order that no row names, and then it adds
an excuse as well, a row without a number or a dead caller, and rows and the
dead stay (`OrderAccounted`, `DeadStay`, `StillCovered`). Only finitely many
callers have died at any time, so `Jobs` need not be finite.
`CallersEnd` (`CallersAdvance`) is the measure behind `EveryCallerStops`: `Left`
bounds the steps a caller has before it, and each of its steps lowers it
(`CallerAdvances`). It counts four for every ticketing attempt that is left: the
query, the two steps of the transition it may ask for (`TransitionGoes`), and
the one that takes up what came of it. Stopping takes it to zero from anywhere
(`StopLowers`).

`RecoveryProofs` proves, from `RecoveryAssumption` and `BookingAssumption`
(finitely many recommendations, at least one order), for any callers of `execute`
and any grants: `RecoveryTypeCorrect` (`RecoveryTypeOK`), `TravellerIsTicketed`
(`NeverStranded`), `CurrentOrderIsConfirmed` (`CurrentIsConfirmed`),
`ReleasesAreSecured` (`ReleasedAfterSecured`), `RowsAreFinal` (`ConcludedIsFinal`)
and, when nobody but `execute` buys, `GrantsAreSpentOnce` (`EachGrantSpendsOnce`).
`RecoveryInv` contains the invariant of booking, since recovery's services are
booking's. Two recoveries may each release an order, so no single order can be
named that stays ticketed; the argument is about the last one that was confirmed
(`ConfirmedSound`: a confirmed order is ticketed unless a later one was confirmed
too). It holds because `execute` notes the order to supersede before it buys:
what it buys is newer (`Replacing`), so what it releases is older than an order
it knows to be confirmed. A recovery is told so by a query of its own (`Told`),
its row is IN_PROGRESS as long as it runs (`Owned`), and no two that run share a
row (`OneRunning`), since a row is inserted where there is none. `ServiceMoves`
states once what a step of the services does to a caller's frame (`Moves`) and to
Atlas (`Grown`); every action of recovery then needs to argue only about its own
part. For the grants, `Spent` are those whose row exists and for which no running
recovery has yet to pay: a charge is paid by a recovery that was cleared
(`AskedIsGranted`) and moves its grant into `Spent`, which never shrinks.
`RecoveriesEnd` (`RecoveriesAdvance`) adds `Stage` to the measure of booking: a
service call lowers `Left` and no step of it raises the stage; a step of
`execute` between two calls goes one stage on or lowers `Left` (`NearerEnd`,
`ExecuteAdvances`, `ServiceAdvances`).

`VerificationGateProofs` proves `GateTypeCorrect` (`GateTypeOK`) and
`NewestIsReportable` (`ReportableIsNewest`) from `GateAssumption`, for any number
of records and threads and any condition and bound. `ReportableIsNewest` is not
inductive: a call that has read the latest applied attempt decides now and stores
later. `HoldsBackForNewer` says what such a call still knows: if it decided not
to apply its observation, an applied attempt at least as new is already stored,
and rows are never removed; if it decided to apply, it is its own witness.
`AbsenceBounded` (`AbsenceIsBounded`) needs `AsksLater`, that an answer is observed
no earlier than its caller's `now`, and `JudgedAtBound`: a failure concluded from
absences and not yet stored has reached the bound among the rows before it. That
`FirstObserved` is the time of a stored row is the least-number principle,
taken from the library's `WFMin` for the order of the naturals (`FirstIsStored`).

`WebhookProofs` proves `TypeCorrect`, that every step of the service is a step
of the gate or leaves it alone (`UsesGate`: `Spec => GateSpec`), and from these
`ServiceReportsNewest` and `ServiceBoundsAbsence`, without going through the gate's
arguments again. `ConfirmationsAreBounded` (`ConfirmationsBounded`) assumes that the
loop sleeps at least as long as a window is open (`SweepsAreRare`; both are 300 s in
the code): the decisions of notifications lie a window apart because the trigger
of each is on record before the next is received (`NotificationsApart`,
`AboutToSave`), those of sweeps an interval (`SweepsApart`), a restart included.
With a shorter interval the property would rest on the attempts that sweeps
store, and a restart loses those under way.

`OrdersAreKeptInformed` (`KeptInformed`) and `NotificationsAreAnswered`
(`TriggersAnswered`) are deadlines over the clock, for any number of orders,
threads and faults. `TimeInv` says where the time has gone. `Punctual`: a sweep
that sleeps is not overdue, one that runs began at most `Patience` ago, and so
did every query. `Tracked` says of each order that what makes a sweep hold back
is known or still under way, so that it is not lost without a trace
(`Remembers`); that the next sweep begins within a cycle of some activity
(`Scheduled`); and that what was settled last is followed by a sweep or by a
verification that began early enough (`InTime`), from which the deadline follows
(`InTimeIsInformed`). That
confirmations and sweeps take no longer than `Patience`, a guard of `TimePasses`,
is the one assumption about speed; everything else is the code's. The theorems
give nothing once the loop is dead.

`ImpactEvaluationProofs` proves `TypeCorrect` (`TypeOK`),
`EvaluationsAbandonSoon` (`AbandonsSoon`), `ReturnedCallsAnswered`
(`ReturnsAnswered`) and `EvaluationsEnd` (`EvaluationsAdvance`) from
`EvaluationAssumption`, for any number of wakes and candidates and any budget.
`TypeOK` is not inductive: that the budget stays a natural number rests on what
each frame knows (`Sound`): a call about to write has read a value above zero,
whatever the others wrote since. `AbandonsSoon` needs `LateSoFar`: a late
request means that a newer wake is in the log, which never forgets one
(`SupersededStays`, `LogGrows`); so a call that looked and found none has sent
nothing late, and on the way from there to the next look it sends at most two.
`ReturnsAnswered` needs `AnswerInv`: a call that is about to report itself
superseded has a newer wake in the log (`GivesWay`), and the log never loses an
answer or a wake (`ExcusesStay`). `EvaluationsEnd` needs `TypeInv` alone: a
candidate is worth four steps, and verifying one uses it up.

`EventStreamProofs` proves, from `StreamAssumption`, for any number of writers,
events and broken connections and any length of the console's log: `TypeCorrect`
(`TypeOK`), `OnceInOrder` (`ShownOnceInOrder`), `ClosedAfterDelivery`
(`ClosesAfterDelivery`), `PanelShowsOutstanding` (`PendingIsOutstanding`), and
`StreamIsFeed`, the refinement of `EventFeed` but for its fairness. `TypeOK`
needs `WritersBehind` (an append that has read the greatest number is not ahead
of the log, so the log has no gaps) and `LiveNumbers` (the number past the end
is sent to a replay only). What was shown is a statement about the console; it
is preserved because of what is under way, which `DeliveryInv` says: the list
the generator still holds is what lies between its cursor and the end of the log
as it was read (`ReadsInOrder`); the messages on the wire are the events between
the one received last and the cursor, in order, framed by the markers of a
replay and the end of the answer (`WireCarries`, `WireFramed`, `Replaying`); and
without a connection there is neither a generator nor a message (`Linked`). So
the first message is the next event (`HeadEvent`), whatever broke before, and an
event inserted meanwhile has a number beyond all of them (`InsertFacts`).
`ClosesAfterDelivery` follows from `FinalIsLast`. For the panel, `AnswersFollow`
says that an answer comes after its request in the log, and `PanelShows` carries
the newest request as a witness rather than as the maximum of a set, whose
existence would be an induction.

`ScoringProofs` proves, from `ScoringAssumption`, for lists of any length and
objectives with any preferences, all six invariants of the run: `TypeCorrect`
(`TypeOK`), `OptionsAreJudged` (`EveryOptionIsJudged`), `RanksAreThePreferences`
(`RanksArePreferences`), `BestIsSelected` (`SelectedIsBest`),
`OrderMakesNoDifference` (`OrderIndependent`) and `RelaxedBreachesBudget`
(`RelaxedExceedsBudget`). The state invariant is short (`ScoringInv`: the run is
the scoring of the options against the objective as it stands); the work is in
the operators. Keys are totally ordered (`KeyTotal`, `KeyTransitive`), hence what
precedes what in a stable sort is a strict total order (`PrecedesOrder`), hence
no two elements have one place (`PlaceFacts`); an injection between finite sets
of one size is onto, so that every place is taken (`EveryPlaceIsTaken`), and the
result is a permutation in ascending order (`SortedFacts`, `SortedAscends`). None
of this is an induction over the list. Ranks count the changes of the key, and
those between two places are a set that grows (`RanksFollowKeys`,
`RanksAreDense`). `KeyIsPreference` is where the code's keys meet what the
traveller means: negated margins and scores, and the scarcity that comes last
unless it was asked for. For the order of the list, a permutation takes the
options that precede one onto those that precede its image (`PlaceIsKept`).

Every invariant and every action property of a passing run has a theorem.
Only model-checked: `EveryCallerStops`, `NewestIsAnswered`, `EndsWhenFinished` and
the fairness of `ImplementsFeed`. The first two are liveness properties of which
the safety half is proved. A caller or an evaluation cannot take infinitely many
steps (`CallersEnd`, `RecoveriesEnd`, `EvaluationsEnd`: each lowers a natural number
that nobody else raises), and an evaluation that has returned owes nothing
(`ReturnedCallsAnswered`). What stays with TLC is that under weak fairness a
caller that has not stopped does take its next step: this needs ENABLED, which
the provers do not handle.

## Abstractions

In `Booking` and `Recovery` the call budget is a verification that may raise
(`VerifyRaises`); it is modelled in `ImpactEvaluation`. Sessions
(two hours) do not expire within a run, since each caller's `now` is fixed.
Prices, passengers and raw responses are dropped; an event's description, rule
id and simulated flag too. `payments` is a set: no two rows differ only in
their identifiers in a way the code reads. The events
that recovery appends for the console are not modelled; an append that raises
ends the call as a crash at that point does.

## Plan

Done: consent, booking, recovery, the verification gate, the webhook service
with its wakes, the impact evaluation with the call budget, the event stream
with the console, the scoring. Next, most important first:

1. `Webhook` and `ImpactEvaluation` composed: the evaluation that runs inside
   the sweep's thread and what its failure costs other journeys.
2. The records of a search and its two transactions.
3. Held identifiers and their countdown in the console.

Not planned: the objective parser, authentication headers, wiring, migrations
and the capture export (conversions and I/O), and rendering in the console.
