# PunchClock Pro: TLA+ models and proofs

A verification development of PunchClock Pro: the API's time record and what
rewrites it afterwards, the transactions, connections and background sweeps it
runs on, the schedule, the payroll calendar and the sums made of the hours, the
phone that punches without a network, and the dashboard's pages with their
stale lists and forms. Paths below are relative to the repository; `api`,
`mobile`, `web` and `shared` stand for `packages/api/src`,
`packages/mobile/src`, `packages/web/src` and `packages/shared/src`.

## The system

| Part | State | Operations | Talks to |
| --- | --- | --- | --- |
| Time clock (`api/services/time-tracking.service.ts`, `break.service.ts`) | `time_entries`, `breaks` | punch-in, punch-out, start and end of a break | event log, gates (geofence, PIN, network, hour caps), phone and web clock |
| Auto clock-out (`api/services/auto-clock-out.service.ts`) | the same tables | the sweep that closes forgotten punches at the cap | scheduler, time clock |
| Event log (`api/events/publisher.ts`) | `time_entry_events`, unique per client id | append, once per client id | every writer of entries |
| Time corrections (`api/services/time-correction.service.ts`, `routes/corrections.ts`) | `time_correction_requests` | file, cancel, approve (with override), reject; a manager's direct create, edit, removal | time clock's tables, pay periods, e-mail |
| Pay periods (`api/services/pay-period.service.ts`, `routes/pay-periods.ts`) | `pay_periods`, the schedule in `organizations` | list, lock, unlock, change of schedule; the gate on retroactive writes | corrections, payroll |
| Request transactions (`api/middleware/tenant.ts`, `config/database.ts`) | a connection and a transaction for each router a request passes | begin, commit, roll back, release | every route |
| Scheduler and process (`api/jobs/scheduler.ts`, `index.ts`) | timers, an advisory lock, the pool | run a sweep on one machine; start, shut down | auto clock-out, pool |
| Sync endpoints (`api/routes/sync.ts`) | none | replay a batch of punches; changes since a cursor | time clock |
| Phone queue (`mobile/services/sync.service.ts` and around it) | `sync_queue` in SQLite, the running flushes | immediate attempt, enqueue, flush, park, try again, restart | time clock's routes |
| Scheduling (`api/routes/scheduling.ts` and its two rule services) | `shifts` | create with conflict and advance-notice checks, copy week, delete | time off, trades, audit log |
| Time off, shift trades (`api/routes/me.ts`, `admin.ts`, `services/time-off.service.ts`) | `time_off_requests`, `shift_trades`, `shifts` | request, post, accept, decide | scheduling |
| Hour caps, overtime, payroll export, timesheets (`api/services/caps.service.ts`, `overtime.service.ts`, `payroll-export.service.ts`, `routes/admin.ts`, `me.ts`) | none of their own | gate a punch-in, split hours, sum them, journal entries | time clock, pay periods |
| Accounts (`api/routes/auth.ts`, `admin.ts`, `services/password-reset.service.ts`) | `users`, `password_reset_tokens` | add, invite, reset, sign in, archive | e-mail |
| Dashboard (`web/app/dashboard`) | query cache and forms of each browser session | load, invalidate, click, type, save | every route |
| Meal-break reminders, geofence and verification, audit log, documents, e-mail, health, realtime, seeds | append-only rows, files, sockets | gates, reports and plumbing | the rest |

What makes it hard:

* **Requests overlap.** Every handler reads, decides and writes in separate
  statements of a READ COMMITTED transaction. Two punches, a punch and the
  sweep, a punch and a removal, two decisions about one request can interleave
  at each statement; what protects the data are a partial unique index, unique
  client ids, guarded UPDATEs and, in some handlers only, row locks.
* **Requests are repeated.** A phone that got no answer sends the same client
  id again: after the entry was closed, after the worker punched again, or
  while the first attempt still runs.
* **Clients are late or fast.** A punch carries the client's time.
* **The record is rewritten afterwards**, by workers' requests decided days
  later from a snapshot, by managers directly, and not at all once the period
  is locked; and the schedule by which periods are cut changes too.
* **Hours are summed in several places**, each with its own filters, weeks and
  rounding.
* **The phone loses its network and its process**, and its flushes overlap.
* **Pages are stale.** A decision is clicked on a list that may be minutes old,
  a form is filled by a fetch that comes late.
* **The process stops and starts**, its handlers outlive clients that went
  away, and everything shares one pool of connections.

What makes each part correct is stated as properties in its module and listed
under "Runs"; PROJECT.json lists the hazards, each at the line where it bites,
with the properties that guard it or the reason why none does.

## Modules

`TimeClock` is the abstract specification of the live clock: `running` shifts
and a `ledger` of settled ones, `ClockIn` and `ClockOut`. A worker is on one
shift at most, a shift begins once and ends once, after it began, and what is in
the ledger stays as it is. It knows nothing of tables, events, breaks, retries
or who ends a shift.

`TimeTracking` is the live time clock. `entry`, `breaks` and `events` are the
three tables as partial functions from row ids (a removed entry keeps its row,
like the soft delete in the code) and a set; `now` is the server's clock. One
action is one handler, because a handler commits as a whole or not at all:
`PunchIn`, `PunchOut`, `StartBreak`, `EndBreak` (`Request` collects them) and
the sweep `AutoClockOut`. A refused request is no step. `Publish` is
`publishTimeEvent`, `BreaksClosedAt` is `closeOpenBreaks`, `Deductible` is
`loadUnpaidBreakMinutes`. Minutes are kept as the gross minutes and the set of
breaks deducted from them, which says more than the sum.
At the end, `Clock == INSTANCE TimeClock WITH ...` reads open rows as the
running shifts and completed rows as the ledger; `ImplementsTimeClock` says
that every step is a step of `TimeClock` or none that it can see.

`TimeCorrections` extends it with the requests (`request`) and the locked
periods (`locked`): `RequestCorrection`, `RequestMissingShift`,
`CancelRequest`, `Approve`, `Reject`, `ManagerCreate`, `ManagerEdit`,
`ManagerRemove`, `LockPeriod`, `UnlockPeriod`. `RewriteEntry`, `AddEntry` and
`RemoveEntry` are the three appliers, shared by approvals and direct edits as
far as the code shares them. Its next-state relation includes the live clock's,
so corrections interleave with punches and sweeps.

`PunchTransactions` takes the same handlers apart. Each session of the pool
serves one request of one worker, statement by statement (`Lookup`,
`FindOpen`, `Insert`, `Update`, `PublishLookup`, `Append`, `Commit`, and `Lose`
for a connection that dies); `entry` and `events` are the committed tables, and
`tx[s]` is what session `s` has read, locked and not yet committed. PostgreSQL
is external: statements see what is committed, a row lock or an index entry in
doubt makes the next one wait, and a failed statement rolls its transaction
back. Times, minutes and breaks are left to the other two modules.

`AtomicRequests` is what that amounts to: the two tables alone, and requests of
one step, `PunchIn`, `PunchOut`, `Sweep`, `Remove` and `Edit`. Its guards are the
checks that index, row lock or guarded UPDATE keep true until the COMMIT; it says
which checks of the handlers are not among them, the lookup of the client id and
punch-out's search for an open entry. `PunchTransactions` implements it with the
tables as they are (`ImplementsAtomicRequests`): a `Commit` is the request, and
every other statement a stutter. One event per client id, a sweep that leaves
closed entries as they are, and an edit that does not bring back a removed one
(`OneEventPerClient`, `SweepLeavesClosedEntries`, `EditsLeaveRemovedEntries`)
follow from it, and are proved by themselves.

`ApiProcess` is one process around such handlers: `phase` (up, draining,
closing, down), the pool (`free`, `tx`, `pend`, and `done` for what is
committed), the requests (`req`), the scheduler's passes (`pass`) and the
advisory `lock`, which another machine may hold. The process is
single-threaded, so everything between two awaits is one action. `Enter` is
`withTenantDb`, which each router calls for itself: a path under
`/api/v1/admin` passes the corrections router first and so takes two
connections. `Execute`, `StatementFails`, `Refuse` and `Throw` are a handler's
statements; the batch of `routes/sync.ts` catches each error and goes on, also
in a transaction PostgreSQL has aborted. `Finalize` and `Answer` are the patched
`res.json`; `Disconnect` rolls back and releases under a handler that does not
know. `Tick`, `PassBegins`, `TryLock`, `PassCommits`, `PassFails` are
`runJobOnce`; `Shutdown`, `ClosePool`, `Exit`, `ForcedExit`, `Boot` are
`index.ts` and the supervisor.

`SyncQueue` is the phone and, reduced to what it answers, the server of one
worker. `row` is `sync_queue`; `work[s]` is a run of `flush` or the clock
screen's immediate attempt between two of its awaits; `service` says whether
there is a sync service yet, which `Bootstrap` installs once the database is
open; `wire` holds the requests on their way or being served, which may be lost,
served after their sender gave up, or answered too late. `StartFlush`, `Post`,
`FlushAnswered`, `Park` and `FlushTimeout` are flush; `PerformPunch`,
`ScreenAnswered` and `ScreenTimeout` are `performPunch`, which queues a failed
punch only if there is a service (`Keep`); `Requeue` is "Try again"; `Restart`
loses everything but the database. `Result` is what `makePoster` makes of an
answer. The server serves its requests side by side, each statement by
statement: `LookUp` or `Replay` is the lookup of the client id, `FindOpen`
punch-out's search for the open entry, `Take` the INSERT or UPDATE with the
event and the COMMIT; two requests inside that last step at once are left to
`PunchTransactions`. `early` and `raced` are history variables: the punches made
without a sync service, and those two of whose requests were past the lookup at
once. A backoff is
abstracted to "a retried item may be left out of a batch", and the screen's
toggle to "any punch may follow any other", since a restart and a refresh from
the server reset it.

`Scheduling` is the schedule with the two requests workers make about it.
`shifts`, `trades` and `leaves` are the tables, `overrides` the audit rows of
changes forced inside the notice window. No handler here locks what it reads, so
each is two actions: one that reads and decides (`ProposeShift`, `ReadShift`,
`ReadWeek`, `OfferShift`, `TakeTrade`, `JudgeTrade`, `JudgeLeave`) and puts what
it decided into `job[s]`, and one that writes and commits (`InsertShift`,
`DeleteShift`, `CopyWeek`, `PostTrade`, `AcceptTrade`, `DecideTrade`,
`SettleLeave`), with the actions of other sessions, or a `Rollback`, between
them. The writes of one handler are one step because its first write locks or
adds the rows it goes on with; that PostgreSQL aborts one of a decision and a
deletion which lock trade and shift in opposite order is a `Rollback`.
`Fits` is `evaluateScheduleConflict` with the queries that feed it,
`InNoticeWindow` is `evaluatePredictiveLock`. Dates count from a Monday, a day
has `DayLength` units, and the server's date stays the same while the model
runs, since every decision looks at the distance of a date from it only. Deleted
ids are kept in `gone`, because a UUID is not used twice.

`PayPeriods` is the payroll calendar: `schedule` (type and anchor), `periods`
(the rows of `pay_periods`, by start date) and `today`. A date is a day number,
day 0 a Monday; months are given by their first and last days. `PayPeriodFor`
and `RecentPayPeriods` are the functions of those names, `NotInLockedPeriod` is
`assertNotInLockedPeriod`, `ListedStatus` is what `listPayPeriods` shows;
`Lock`, `Unlock`, `UpdateSchedule` and `Midnight` are its steps. A change of the
schedule leaves the rows as they are.

`Payroll` extends it with the hours: `hours` per worker and local date of the
punch-in, `onClock`, `active` workers, the organization's cap `enforcement`.
`PunchIn` is gated by `EvaluateCaps`; `PunchOut`, `Correct`, `Archive` and
`SetEnforcement` change what the sums are made of. A punch-in bears the phone's
date, which may be any; `EvaluateCaps` sums up the server's day and week, as the
code does. `Federal` and `California`
are `calculateOvertime`, `Overtime` cuts a range into weeks, `ListedHours`,
`AdminTimesheet`, `OwnTimesheet` and `ExportLine` are the four places that add
up the same entries, `GrossPay`, `W2Breakdown` and `JournalEntry` count in
cents. `uncapped` is a history variable: the days with hours that the daily or
the weekly cap did not look at (`Unchecked`).

`CorrectionDesk` is the correction pages over the API: `list` is the query cache
of each browser session, with fetches that are sent, answered and shown, or
fail; `tx` is its mutation on the way, statement by statement; `told` what it
has answered. `Load`, `Serve`, `Show`, `FailFetch` and `Invalidated` are the
pages' queries. TanStack Query is external: an invalidation cancels a fetch on
its way and sends it again, but leaves the first load of a query to finish
(`FirstLoad`, `LeftAlone`) and then takes its older answer for fresh; `missed`
is history, the requests such an answer does not know of.
`SubmitRequest`, `Withdraw`, `ClickApprove`, `ClickReject` are the
buttons, which work on what is shown; the rest are the statements of
`createCorrectionRequest`, `cancelCorrectionRequest` and
`decideCorrectionRequest`. What the appliers write is left to
`TimeCorrections`; here a request's change of the record is one fact
(`changed`).

`Accounts` is the team page and the pages before sign-in: `account`, `link`
(the tokens), `held` (the links somebody has) and `call` (what each client has
on its way). Routes behind the sign-in run in the request's transaction, the
others in short ones of their own with bcrypt between them: `CheckToken` and
`ApplyReset`, `CheckPassword` and `SignIn` are apart for that reason. A password
is its hash.

`Settings` is the settings page: `org` is the row, `page` each owner's forms,
fetched organization and saves on their way. `ShowOrg` is the effect that copies
the fetched organization into all forms whenever it changes; `SaveSection`
writes the columns of one section; `Saved` fetches again, except that a first
load goes on, as on the correction pages (`Loading`, `missed`).

The theorems about a module `M` are in `M_proofs`; those about `PayPeriods` are in
`Payroll_proofs`, those about the three modules of the dashboard in
`Dashboard_proofs`. The `MC*` modules
add the constants' values, symmetry sets and the bounds of the instances.
`MCDashboard` puts `CorrectionDesk`, `Accounts` and `Settings` side by side:
they share no table, so in each behaviour one of them moves and the others rest
(`part`). A definition commented "Mutant of X" is a faulty form of `X` and is
used nowhere: with it in X's place the property it is meant for fails, which
shows that the property can.

## Runs

| Run | Properties | Shows |
| --- | --- | --- |
| `time_tracking` | `ProjectionMatchesLog`, `MinutesMatchBreaks`, `AutoClosedAtCap`, `ForgottenPunchIsClosed`, `ImplementsTimeClock` | the projection is the log's, payable minutes are right, an auto-closed entry ends at the cap, every forgotten punch is closed in the end although a sweep takes one row at a time, and rows and breaks implement the abstract clock |
| `corrections` | `OneOpenEntryPerUser`, `MinutesFollowTimes`, `RemovedStaysRemoved`, `LockedPeriodIsFrozen` | after any sequence of punches, requests, decisions, edits and locks: one open entry, gross minutes that follow the times and deduct finished unpaid breaks of the entry only, removed entries that stay removed, locked periods that keep their hours while pending requests show the times their entries have |
| `punch_transactions` | `OneOpenEntry`, `EndIsLogged`, `SomeStatementRuns`, `ImplementsAtomicRequests` | index, guards and locks hold under every interleaving of two requests: no close without its event, no deadlock, no real punch-out overwritten by the sweep; and each request acts as if it ran alone at its COMMIT |
| `sync_queue` | `ConfirmedPunchIsKept`, `OutageCostsNothing`, `PunchCountsOnce` | a punch confirmed with a sync service in place is on the server or in the queue, an outage parks nothing, and a punch is an end of two entries only if two of its requests were past the lookup at once |
| `queue_drains` | `PendingSettles` | every queued item settles over a network that fails but not always |
| `scheduling` | `UnforcedShiftFits`, `AcceptedOnce`, `ShiftsMoveByTrade`, `TimeOffIsApproved` | an unforced shift meets no other of its date and keeps the weekly cap, a trade is accepted once, shifts change hands by approved trades only, time off appears on the schedule by approval only, under every interleaving of two requests |
| `api_process` | `SweepsAreSerial`, `AnsweredMeansCommitted`, `PoolClosesAfterSweeps`, `ConnectionsHaveOneOwner`, `SweepsKeepRunning` | sweeps take turns across machines, a success was committed before it was told (a batch's results too, unless a statement of it failed), the pool closes under no sweep, no connection is released twice or lost however requests end, and the sweep goes on for ever whatever fails, hangs or restarts |
| `payroll` | `PeriodsTile`, `ListedLocksGuardTheirDays`, `CapsBoundDayAndWeek`, `PeriodsAddUp`, `SumsDifferByWorkersOnly`, `JournalsBalance`, `CaliforniaPaysNoLess`, `LockedHoursMoveByPunchOnly` | periods tile the calendar, the list an owner reads and the gate on changes agree day by day while the locks fit the schedule, a cap is passed by the crossing shift only (over days and weeks whose punch-ins reached the server in time), neighbouring exports pay every hour once, the sums of the hours differ by the workers left out and by nothing else, journals balance to the cent, California law pays no less than federal law, and locked hours move only by a punch-out of a shift begun in the period |
| `dashboard` | `OneAnswerStands`, `PagesKnowOwnActions`, `ApprovalsSeeThePast`, `LinkWorksOnce`, `SignInsAreCurrent`, `SettingsAreAsChosen` | a verdict someone was shown stands and is the only one, a page does not deny what its user did once its list has loaded, an approval on a stale list sees the locks and shifts of its past, a link works once, a sign-in rests on a password that was good, a form at rest shows what it saved, but for a save before the first load was shown |
| `removed_entry` (violation) | `RemovedStaysRemoved` | a punch-out can bring back an entry that was removed while it ran |
| `accepted_punch` (violation) | `AcceptedIsSynced` | an accepted punch of the queue is not marked synced, because phone and routes disagree on a field's name |
| `pool_deadlock` (violation) | `PoolNeverDeadlocks` | as many requests under `/api/v1/admin` as the pool has connections wait for each other for ever |

Each violation is a disagreement between the code and a sentence of its own
docs, comments or tests, quoted under "findings" in PROJECT.json.

Where a property has an exception, the exception is what the code does, not
what the model leaves out, and "hazards" in PROJECT.json says so. An approval
already past its check is not stopped by a lock that commits then; overlapping
uses of one link both succeed; a handler whose client has gone writes on with a
connection that is no longer its own; a decision that rejects a trade may leave
what another decision on it did. The following reach further, the first three
against what the code or its docs say of themselves:

* `ConfirmedPunchIsKept` excepts punches made without a sync service (`early`).
  `mobile/services/punch.service.ts:42` says that on failure the event is
  enqueued; line 69 skips that while `initDatabase` has not resolved, or for
  good if it fails, and `performPunch` returns as for a queued punch.
* `PunchCountsOnce` excepts punches with two requests past the lookup at once
  (`raced`). `time-tracking.service.ts:125` says that a processed client id gets
  "the existing entry rather than creating a second row". A first attempt which
  is past its lookup when the phone gives it up, while the queue's retry makes
  the entry and a punch-out closes it, inserts a second one.
* `CapsBoundDayAndWeek` excepts a day with a punch-in that reached the server on
  another date, and a week with one that came in a later week (`uncapped`).
  `docs/plans/2026-05-13-mvp-v2-design.md:14` says that nobody can log more than
  the caps; the code stores the phone's time and checks the caps of `NOW()`.
* `PagesKnowOwnActions` and `SettingsAreAsChosen` except what was filed or saved
  while the older answer of a first load was on its way (`missed`): the list or
  form shows that answer until the next fetch, and a Save from such a form takes
  the choice back.

### Bounds

* `time_tracking`: two workers, two entries, one break, three client ids (any
  kind of request may use each), time 0..4 with a cap of two and a sweep that
  takes one row at a time; clients send the instants 0 and 2, so a stamp may run
  ahead of `now` or behind it. Two entries are what it takes for a replay or a
  punch-out to hit the wrong one. A temporal property is checked, so there is no
  symmetry set.
* `corrections`: one worker, one manager, two entries, one break, one request,
  two client ids, a cap and a period of one instant, so that a shift spans two
  periods. `Small` leaves out states with both a break and two entries: breaks
  matter to their own entry, the second entry to the rules between entries.
* `punch_transactions`, `removed_entry`: two sessions, two entries, two punch-in
  ids and one punch-out id, which may each be sent any number of times. Conflicts
  are between pairs of requests; a third party appears as an earlier, committed
  request.
* `sync_queue`: two punches, two overlapping flushes beside the screen, a budget
  of two, one revived item or one restart, an API that answers as the routes do,
  so that every answer costs an attempt. At most two requests are on their way or
  being served at a time (the action constraint `Small`): a first attempt that was given up, and its
  retry or the punch-out after that. `queue_drains`: one flush at a time, no
  restart, an API that answers as the tests assume or turns a punch down.
  `accepted_punch`: one punch.
* `scheduling`: two sessions, three workers (one gives a shift away, two want
  it), two rows of shifts, one trade, one time-off request, two dates of one week
  (the first in the notice window), a day and a night shift. Overlap, cap, rest,
  a race for one trade, a copy onto another date and a trade of a time-off row
  all occur. A behaviour with a trade is followed as long as it has used one row
  of shifts, one with a time-off request until a row is deleted (`Small`).
* `api_process`: a pool of two, a request that needs both connections and a batch
  that needs one, so that the pool runs dry but cannot lock up; handlers of two
  statements, one pass here beside those of another machine, two faults
  (failing statements, disconnections, shutdowns). `pool_deadlock`: two requests
  that need two connections each, no fault.
* `payroll`: a W-2 worker with a rate, an exempt one without, and a contractor;
  hours on Saturday 13 to Tuesday 16 January, which straddle a week's end and the
  boundary of two semimonthly periods, before and after the anchor (the 15th),
  with December to February of a leap year around them. A shift is 21 hours, so
  one shift passes every threshold (8, 12 and the caps of 9 and 20) and two pass
  40. Where no cap is enforced (`Sums`): two shifts, or one of a worker paid by
  the hour with one row of `pay_periods` or a worker archived, and punch-ins that
  come on their date, since the sums do not look at when they came. In the modes
  "warn" and "block" (`Caps`): the W-2 worker alone, one schedule and no row of
  `pay_periods`, which the caps do not look at, but punch-ins of any date, two
  shifts a day and corrections. The bounds cut the steps (`MCSpec`), so that no
  property is evaluated beyond them.
* `dashboard`: corrections with a worker and two managers, one session each, one
  entry, two requests, two page loads or failed fetches, at most two mutations
  and fetches on their way and one list with an error; accounts with two clients,
  two people, two passwords, two links and four calls; settings with two owners,
  the sections compliance and payroll (one that can be saved before the
  organization has loaded and one that waits for it), three values, four clicks,
  one extra fetch, and at most two saves and fetches on their way.

Deadlock checking is off where the system may rest: nobody has to punch or
click, ids and instants run out. In `punch_transactions` `SomeStatementRuns`
takes its place. `api_process` has it on.

### Fairness

`TimeTracking`: weak fairness of time and of the sweep, which the scheduler
(`api/jobs`) reruns for as long as the process lives. Workers owe nothing.
`SyncQueue`: the database opens in the end, since a phone on which it never does
has no queue; the interval keeps starting flushes and backoffs, held at one
hour, end (strong fairness of a flush with nothing waiting, since a flush of
the same runner disables it meanwhile); a running flush goes on (weak); the
network is strongly fair: it may fail any number of times, at any stage of a
request, but not always.
`ApiProcess`: strong fairness of a request's next step and of a pass's, since
the pool serves its waiters in turn (a connection may be taken between two
moments when it is free), statements end and timers fire; weak fairness of the
end of another machine's pass, of the forced exit, a timer, and of the restart
by the supervisor. The other modules state no fairness, and no safety property
uses any.

## Proofs

Checked by TLAPS for all values of the constants, under the modules' named
assumptions on them. Every safety property the runs check, state invariants and
action properties alike, is a theorem, with one exception (see the end of this
section). TLC checks the same properties on the instances, and evaluates the
assumptions there.

The assumptions: bounds are naturals; NULL and the like are none of the other
values; months have 28 days or more, do not overlap, and every date lies in one
whose predecessor is in the calendar too; work days are dates; the workers, the
lengths of a shift (one is positive), the flushes and the pool's connections are
finitely many, since the code adds up or counts them; ids of shifts and of
trades are different UUIDs; the value a section is stored with differs from the
form's blank default.

Two kinds of induction occur. Over steps, each theorem comes from an inductive
invariant: it holds in `Init`, every action keeps it, one lemma per action, and
it implies the property. Over data, sums over ranges of days and over sets of
workers need it, and the library's induction theorems take an operator, which
the provers cannot instantiate. `Payroll_proofs` therefore goes by sets of
numbers: a set of naturals with 0 and all successors is `Nat`
(`NatsByInduction`, by the least number outside), and each fact about sums is
the set of range ends, or of cardinalities, for which it holds.

`TimeTracking_proofs`. `TypeCorrect` is inductive by itself; its work is in the
closes, where minutes must come out as naturals and breaks keep their rows.
`OneOpen` needs the types and that a close leaves a row that is not open; an
insertion is safe because the handler's check and the index speak of the same
rows. `CompletedIsFinal` follows because each action changes open rows only,
`AutoClosedEndsAtCap` because only the sweep sets the mark and time does not go
back. `PayableMinutesAreRight` needs that a completed row has an end
(`CompletedHasEnd`): breaks start only on entries that have none, so a close
sees all the breaks its entry will ever have. `ProjectionIsTheLog` needs that
the log tells of no row that does not exist (`PunchesHaveEntries`), or a new row
would come with a past. `TimeTrackingImplementsTimeClock` is the refinement, one
lemma per action: a punch-in is a `ClockIn`, a punch-out ends a set of one shift
and a sweep a set of several, by the same lemma (`CloseIsClockOut`), which needs
that a close is later than its punch-in; breaks, replays and time are stutters.

`TimeCorrections_proofs` carries the invariants of the live clock over to a
record that is rewritten: `CorrectionsTypeCorrect`, `CorrectionsKeepOneOpen`,
`MinutesFollowCorrections`, `RemovedEntriesStay`,
`LockedPeriodsKeepTheirHours`. `CorrectionsInv` adds the shape of requests (an
edit or removal is of an entry that exists, a missing shift has its times) and
the table facts. Its core is a classification (`StepKinds`): a step is a live
one, for which the lemmas about the time clock are cited; or leaves the hours
alone; or touches one entry in the way `TouchedEntry` says, whichever applier
wrote it. All five results are read off the three kinds. The last one keeps its
premise, that pending requests show the times their entries have, because the
gate looks at the snapshot.

`PunchTransactions_proofs`: `TransactionsTypeCorrect`, `OneOpenEntryHolds`,
`OneEventPerClientHolds`, `EndIsLoggedHolds`, `SweepLeavesClosed` and
`EditsLeaveRemoved`, all from one inductive invariant (`Invariant`). The tables
alone say too little; the invariant adds what each transaction may hold at each
of its statements: which of them it has behind it (`StageOf`), that its row is
its own once it holds the lock (`LockOf`), that this row is therefore still as
the guard of its UPDATE found it (`HeldRow`), that an uncommitted punch-in is the
only claim to the index on open rows (`InsertOf`), and that an uncommitted event
tells of its own row and is the only claim to its client id (`LogOf`,
`ClaimOf`). The index and the locks are what makes these hold when a statement
runs; `Commit` then carries them over to the tables. `RequestsAreAtomic` is the
refinement. A request writes its row at one statement and makes it visible at a
later one, with others committing in between; so `WriteInv` says, at each
statement in between, that the row a transaction holds back is its own change
(`Outcome`) applied to its row as it is committed now (`WritesStayCurrent`: no
update is lost). With the lock that is kept by every step of another
transaction (`OthersKeepTheirs`), and a commit with it is one request of
`AtomicRequests` (`CommitIsARequest`). `NoCircularWait` is the
absence of deadlock without ENABLED: `WaitsFor(s)` are the transactions that the
guard of the next statement of `s` waits for, and each of them has fewer
statements left than `s` (`WaitsForFurther`), so one request waits for nobody.

`ApiProcess_proofs`: `ApiTypeCorrect`, `SweepsRunOneByOne` and `PoolClosesLast`
need only that a pass has a connection between its BEGIN and its end, and the
advisory lock while it sweeps (`BaseInv`). `AnswersAreCommitted` needs who owns
what (`CleanInv`): while no handler has outlived its request, a connection is in
one place only, the pool, a request's stack or a pass (`OwnedIn`); writes that
wait for a COMMIT are on the innermost connection of a request that is not
finalized (`PendIn`); and such a request has committed nothing and has on that
connection exactly what it would report (`Sound`). That is where each router's
connection of its own matters: the handler writes on the last one, and the
others' COMMITs add nothing. The premise that no handler has strayed is the
code's: a stray handler's `Execute` writes on a connection that may be another
request's by then. `NoConnectionIsShared` does without that premise: `OwnerInv`
says where each connection is (in the pool once, once on one request's stack, or
with one pass), which entering, finishing, failing and leaving keep, and that an
answered request has given all of its own back (`Settled`), so that a handler
which runs on after its client has gone has nothing it could release again.
`LargerPoolNeverDeadlocks` is the positive side of the run `pool_deadlock`:
while the pool has more connections than requests under `/api/v1/admin` are
being served, some holder of a connection can go on. Its invariant `PoolInv`
needs no premise about clients: every connection is idle, with a request or with
a pass (`NoneLost`), and a request has at most one per router it has entered
(`Shallow`). So if all holders wait, each connection is the only one of an admin
request before its second router (`LockedUpPool`), which makes at least as many
of those as there are connections.

`SyncQueue_proofs`: `QueueTypeCorrect`, `NoPunchIsLost`, `SyncedWasDelivered`,
`NoPunchCountsTwice` and `ParkedItemsHadTheirChance`. None is inductive alone.
`SendersOK` is what is missing for the first three: a request on its way is for
the item its sender has in hand, an answer "taken" is true of that item, and a
flush works only on items of the queue, so that `markSynced` and a punch that
returns without being queued are justified at the moment they happen; a punch
the screen has in hand without a sync service is an `early` one.
`NoPunchCountsTwice` needs that the ends of entries are recorded punches and
that of a punch that is not `raced` one request at most is past the lookup, and
none once it is recorded (`RacesSeen`), so that a write of such a punch is its
first. `ParkedItemsHadTheirChance` counts (`BudgetOK`): the retries of an item
and the answers for it that overlapping flushes have in hand are together no
more than the requests the server handled.

`Scheduling_proofs`: `SchedulingTypeCorrect`, `TradesAreAcceptedOnce`,
`ShiftsMoveOnlyByTrade`, `TimeOffNeedsApproval` and `UnforcedShiftsFit`. A
handler writes later what it decided on rows it did not lock, so
`SchedulingInv` says what is still true then: a decision's trade has the shift
and the taker that were read, or went with its shift (`DecisionStands`), which
needs that a trade once taken keeps its taker; placeholders are of a request
whose dates do not change (`PlaceholdersStand`); and nobody else writes such rows
(`OnlyWork`). `UnforcedShiftsFit` is about arithmetic: that intervals which pass
the overlap test share no unit of time, across midnight too, and that the sum
the cap is compared with is the number of units occupied.

`Payroll_proofs`. Of the calendar, `PeriodsPartition` (a date lies in its own
period, and every date of it is told the same period), from which
`PeriodsAlwaysTile` and, with `CalendarTypeCorrect`, `DayIsGuardedAsListed` and
`ListIsTheGuard` follow: if the locks fit the schedule, the gate and the list
agree about each day. Blocks rest on two lemmas about integer division, by 7 and
by 14, which are literal because the SMT solver knows division by literals only;
months on their being disjoint. Of the sums, `SumsAgree` splits the sum over the
staff into the workers shown and the ones left out; `PeriodsPayOnce` splits a
range at a boundary, week by week, and shows that a week cut in two never has
more overtime than a whole one, in either jurisdiction; `EntriesBalance` follows
because the net pay is the rest of the gross, not a rounding of its own.
`CaliforniaNeverPaysLess` goes week by week: the straight time of the days is at
most their hours, so California leaves no more hours of a week under the forty
(`WeekOfTwoLaws`), and as both laws split the same hours, the rest is at least
as many and worth at least as much, also when it is rounded (`PayGrows`).
`CapsHold` is inductive only with what the gate saw (`CapsInv`): while a shift
runs that was punched in under a cap, its day or its week is still below it, for
corrections, other modes and punch-ins of other dates mark their days; the
weekly part needs that the hours since the server's Monday, which the gate sums
up, hold all of the week of a punch-in that did not come later than in it.
`LockedHoursAreFinal`: a step that moves hours is a correction, which the gate
keeps out of every locked row whichever schedule made it, or the punch-out of a
shift begun on that day; `PayrollTypeCorrect` is the types of all this.

`Dashboard_proofs` is about the specifications that the `dashboard` run puts
side by side, each by itself. For corrections (`DeskTypeCorrect`, `OneAnswer`,
`PagesKnow`, `ApprovalsSee`), `DeskInv` says which statements each kind of
mutation comes to and what it carries (`Shaped`), that the row it holds is still
pending and held by it alone (`Grounded`, `HeldOnce`), what it has seen of locks
and shifts (`SeesThePast`), and that a list agrees with all its session was
told, the requests `missed` by a first load apart (`GoodList`). For accounts
(`AccountsTypeCorrect`, `LinksWorkOnce`, `SignInsStayCurrent`), `AccountsInv`
says that a link that worked is used for good, that a link about to be inserted
is nobody else's, and that a sign-in which would succeed now has been marked.
For settings (`SettingsTypeCorrect`, `SettingsStayAsChosen`), `SettingsInv`
follows a section through save, answer, fetch and copy (`Follows`): where a
page's fetched data has caught up with its choice, so has the form, and a fetch
answered after the save brings the choice, unless a first load missed it; and it
shows that no value of the calendar on its way is a form's default
(`HoldsNoDefault`).

Only model-checked: liveness (`ForgottenPunchIsClosed`, `PendingSettles`,
`SweepsKeepRunning`), which is out of this prover's reach, and
`SomeStatementRuns`, which is stated with ENABLED; what can be said of it
without is `NoCircularWait`.

## Facts about the code met on the way

No doc, comment or test says otherwise, so these are not findings; the models
contain them. (Those that go against one and are no run of their own are listed
with the exceptions above.)

* The admin timesheets split a contractor's hours into overtime, the export and
  the worker's own timesheet do not.
* The range of an export is free: it is tied neither to periods nor to locks.
* A lock made under an older schedule is in no list but still blocks
  corrections; locking a period whose first day has an older row keeps that
  row's last day.
* No route writes `worker_type` or `cap_exempt_until`; `CA_SEVENTH_DAY_OT` is
  used nowhere.
* An approval with adjusted times sends them without an offset, which the schema
  refuses; the queue page shows no error (`ClickApprove`, `RefuseInvalid`).
* The compliance and verification forms can be saved before the organization has
  loaded, and then write their blank defaults; the payroll form cannot.
* Links sent earlier stay valid once an account is set up; an archived account's
  links still set its password, though it cannot sign in, and its address cannot
  be added again.
* After a failed statement the batch reports the operations before it as synced
  although its COMMIT commits nothing.

## Plan

1. Breaks in `PunchTransactions`, and `AtomicRequests` under `TimeClock` as far
   as `removed_entry` allows.
2. Proofs of what the new modules below promise.
3. Sign-up, roles and PINs in `Accounts`; the order of live and queued punches
   in `SyncQueue`, with more than one worker per phone.
4. Disagreements that are listed as hazards so far: shifts added over a running
   one, a rejected trade whose shift has moved, two live trades of one shift.

## Not modelled, and why

Geofence distances, PIN and network checks are stateless gates that can only
refuse a punch. Meal-break reminders are a table of thresholds whose warnings
change nothing. The export's file formats, audit rows and their retention,
e-mail, documents, realtime and health checks are output or plumbing around
libraries. `GET /sync/changes` is a read that no client of the repository calls.
The clock, schedule and overview pages keep nothing that outlives a page; store
locations are rows that one form writes. Row-level security, seeds and backfills
are properties of SQL text. Hashing and token signatures are library code.
