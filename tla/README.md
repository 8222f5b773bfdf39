# TLA+ models of elle_b

`elle_b` is the server of a music-teaching practice: one Node/Express process, a
MariaDB database reached through a pool of five connections, and one S3 bucket.
Teachers keep a calendar and set homework, students book lessons, hand work in
and upload videos, an owner runs the organization.  This directory holds TLA+
models of the parts where requests can get in each other's way, the TLC
configurations that check them, and proofs checked by TLAPS.

Every definition is translated from the code; `PROJECT.json` ("map") names the
lines each stands for.

## 1. The system

### How the parts interact

There is one process and one thread, so a handler runs alone between two
`await`s and interleaves with every other handler at each of them.  All state
is outside the process: in the tables and in the bucket.  Handlers share it
in three ways, and the difference between them is what the models are about:

* statements on the *pool*, each a transaction of its own (checks before a
  transaction, everything in the video and library deletions, the issue of a
  reset link);
* statements on one *connection* between `beginTransaction` and `commit`, at
  REPEATABLE READ: the first plain SELECT opens a read view that the later
  plain SELECTs reuse, while `FOR UPDATE`, UPDATE, INSERT and DELETE see and
  lock the current rows;
* calls of the *bucket*, which take part in no transaction.

MariaDB 11.8 (`docker-compose.dev.yml`, `migrations/README.md`) has
`innodb_snapshot_isolation` on by default: a locking statement that meets a row
committed since the transaction's read view fails with ER_CHECKREAD and the
transaction is rolled back.  Where a property could depend on it, the model has
the constant `SnapshotIsolation`.

### Inventory

| component | state | operations | what is hard | what makes it correct |
|---|---|---|---|---|
| Bookings (`bookings.route.js`, `bookings.helpers.js`) | `bookings` | book, cancel | two transactions with snapshots and gap locks over one calendar; deadlocks; a token's stale `adminId` | no overlap on a calendar; one cancellation; every request answered; the right people told |
| Open slots (`bookings.helpers.js`, `availability*.route.js`, `timezone.js`) | `availability`, `availability_exceptions` | compute slots, edit windows and exceptions | wall-clock time across DST; exceptions committed after the snapshot | offered slots are within windows, outside blocks, disjoint from lessons |
| Teacher assignment and sessions (`students.route.js`, `auth.route.js`, `jwt.js`) | `users.admin_id`, claims in tokens | reassign, refresh | claims outlive the row | nobody acts for long on a former teacher's calendar |
| Invitations, registration, reset (`invitations.route.js`, `auth.route.js`, `passwordReset.js`) | `invitations`, `organizations`, `users`, `password_resets` | invite, register, sign an organization up, issue, redeem | check in a snapshot, slow hash, then write; two statements without a transaction; nothing looks for the address before the INSERT | one account per invitation and per address; a link works once; a reset burns the rest |
| Assignments and submissions (`assignments.route.js`, `submissions.route.js`) | `assignments`, `submissions`, `submission_files` | change, publish, retract, hand in, edit, review | checks before the transaction with S3 calls in between; attempt numbers; freeze on review | attempts 1, 2, ...; limits; reviewed work frozen; notifications once |
| Courses and enrolments (`courses.route.js`) | `courses`, `course_enrollments` | enrol, unenrol, delete with cascade and objects | gather, confirm, transact, clean up | no file lost under a row; those who lose work are told |
| Videos and comments (`videos.route.js`, `comments.route.js`) | `videos`, `comments` | upload, record, comment, revert, delete | retried confirmations; deletion in four statements | one row per upload; reviews told once; feedback kept |
| Library (`library.route.js`) | `library_files`, `library_categories` | record, move, delete, add and drop categories | a category that goes after it was checked | files on a shelf that exists |
| Branding and thumbnails (`organization.route.js`, `courses.route.js`) | `logo_key`, `thumbnail_key` | replace, remove | two replacements with the same "old" object | the picture shown exists |
| Object storage (`services/s3.js`) | objects by key | presigned POST, PUT, HEAD, DELETE | fails separately from the database | |
| Tasks (`tasks.route.js`) | `tasks` | create, change, complete | two PATCHes complete one task | completion told once |
| Messages, broadcasts, notifications (`messages.route.js`, `broadcasts.route.js`, `notifications*.js`) | `messages`, `broadcasts`, `notifications` | open a thread, send, mark read, announce | the thread is loaded before the transaction and the student may be reassigned in between; recipients and their count are of different instants | both sides hear of a message; the count is of the audience reached; nobody of another organization |
| Tenancy (`scope.js`, `calendarAdmin.js`, `middleware/auth.js`) | none | predicates on every query | a role that is forgotten | no row of another organization is touched |
| Connection pool (`db/pool.js`) | five connections, a queue | acquire, wait, release | a handler that waits for a second connection while holding one | nothing leaks; only that handler can stall the pool |
| Migration runner (`migrations/run.js`) | `schema_migrations` | apply, record | DDL commits on its own; a crash before the record; two deployments at once; guards over changing data | what is recorded is whole; a run left alone leaves no guarded script half done |
| HTTP shell, limiter, configuration, dashboard, seed scripts | none to speak of | | | |

`PROJECT.json` lists the same components with their status and, under
"hazards", each place in the code where something can go wrong that a test would
hardly reach, with the property that watches it.  One has none: two comments of staff that
deadlock over a video's row lose nothing but one of the two requests.

## 2. Modules

| module | models | |
|---|---|---|
| `Calendar` | what booking promises: lessons on calendars, put on once, never overlapping, cancelled at most once | abstract |
| `Booking` | POST and PATCH `/bookings`, reassignment, token refresh | implements `Calendar` |
| `EasternTime` | wall-clock time to UTC and back, across a change of the clocks | functions |
| `OpenSlots` | the slots of a date and of a range of dates | functions, over `EasternTime` |
| `Availability` | weekly windows and dated exceptions, edited while lessons are booked | over `OpenSlots` |
| `Coursework` | what the course routes promise a class: numbered attempts, frozen once reviewed, tidings once, an end in one step | abstract |
| `Homework` | assignments, submissions, edits, reviews, enrolments, deletion of the course | implements `Coursework` |
| `Credentials` | what the account routes promise: a link used once and the rest burned with it, one account per invitation and address | abstract |
| `Accounts` | invitations, registration, organization signup, reset links | implements `Credentials` |
| `Bucket` | the keys in the bucket | extended by the next two |
| `Media` | videos, comments, library files and categories | |
| `Images` | logos and thumbnails | |
| `Storage` | `Media` and `Images` over one bucket | composes them |
| `Feed` | users, organizations, rosters, who may act on whom, notifications | extended by the next three |
| `Tasks` | tasks and their completion | |
| `Correspondence` | what the message routes promise: letters in threads that were entered, with their notices, read by others | abstract |
| `Threads` | messages between a student and a teacher, reassignment, badges | implements `Correspondence` |
| `Broadcasts` | announcements, their audience and their count | |
| `Messaging` | `Tasks`, `Threads`, `Broadcasts` over one feed | composes them |
| `ConnectionPool` | connections, the wait queue, what each kind of handler asks for | |
| `Migrations` | the migration runner, statement by statement | |
| `Server` | `ConnectionPool` and `Migrations` | composes them |
| `MC*` | model values, symmetry sets and bounds for TLC | |
| `BookingProofs`, `SlotsProofs`, `HomeworkProofs`, `CourseworkProofs`, `AccountsProofs`, `StorageProofs`, `MessagingProofs`, `ServerProofs` | theorems | |

Definitions marked "Mutant of ..." in the modules are wrong on purpose: each is
the definition it names with one plausible mistake, and `PROJECT.json` ("mutants")
says which property finds it.  No specification uses them.

### How the state corresponds

Rows are identified by the request that inserts them: `rows[q]` in `Booking` is
the row of POST `q`, `work[w]` the submission of POST `w`, `resets[f]` the link
of forgot-password request `f`, `message[q]` and `task[t]` likewise, so that an
auto-increment id needs no counter and every set is bounded by the set of
requests.  (`Availability`, where rows are edited and what matters is their
content, has them as sets of records.)  A row has a status or
state that includes "none" (never inserted) and "pending" (inserted by a
transaction that has not committed; `bookings`, `submissions`, `videos`,
`comments`, `users`).  `phase[x]` (`step[x]` in `Images`, `turn[p]` in `Tasks`)
says how far request
`x` has come; each of its values between "idle" and an answer is an `await`
at which other requests can run.  What a handler has read and still holds in a
JavaScript variable is in a record of the request (`want`, `view`, `sent`,
`held`, `patch`, `doomed`, `asks`, `found`, `thread`, `draft`, `request`), which
is how stale reads come
about.  Notifications are a set of records: what is asked of them is
who was told what, and whether twice.

An action is what a handler does between two points at which other requests
can tell that it has run: one statement that waits or whose effect is visible, or
several statements of a transaction that nobody can tell apart because the
rows they touch are locked or private to it.  Locks are not variables.  They
follow from the phases: `LockedByOther`, `Covers` and `WaitsForGap` in
`Booking`, `Lockers` in `Media`, `UserLocked`, `LinksLocked` and
`InvitationLocked` in `Accounts`, `RowLocked`, `PatchLocks` and
`SubmitLocks` in `Homework`, and `Holds` in `Tasks` say
which phases of which requests hold a lock, and an action that would wait has
that as a conjunct of its guard.

A few variables are histories that no action reads and only properties mention:
`before` (`Media`), `limits` (`Homework`), `stale` (`Availability`), `outdated`
(`Threads`), `upset` (`Migrations`).

### Booking

POST is `Resolve` (the teacher whose calendar it is: the token's claim for a
student, the row for staff), `ReadOpenSlots` (the transaction's first plain
SELECT, which opens the view), `LockOverlap`/`FindOverlap`/`MeetChangedRow`
(the `FOR UPDATE` of `findOverlappingBooking`: it passes, finds a clash, or
meets a changed row), `Insert`, and `NotifyCommit`.  The range InnoDB scans is
one of two, depending on the index the optimizer picks (`Plans`), and the gap
locks of that range are what makes two INSERTs wait for each other; the cycle is
broken by `DeadlockVictim`.  PATCH is `SendCancel`, `CancelUpdate`,
`CancelCommit`.  `LosePost` and `LoseCancel` are a lost connection or process at
any point inside a transaction.

Whether a slot is *offered* is a free choice of `ReadOpenSlots` here, so that
the properties hold whatever is offered; what is offered is the subject of
`Availability`.

### Open slots

`ToUtc` is `easternWallClockToUtc` with its two estimates of the offset;
`DaySlots` is `computeDayOpenSlots` (candidates from windows and added hours, less
blocks, less lessons, less what is past today); `LessonsRead` is the third query of
`computeOpenSlotsRange` with its wide lower bound, and `RangeSlots` the whole of
it.  All are functions of rows, a clock and a *zone*, which is one change of the
clocks with the offsets before and after it: what the conversion can tell of a
year around a date.

`Availability` writes the rows those functions read.  `Resolve` is
`resolveCalendarAdminId`: a teacher's own calendar, or one an owner names.
`CreateWindow`, `UpdateWindow`, `DeleteWindow` and the same for exceptions are
single statements in autocommit.  POST `/bookings` is `ReadOpenSlots` (the
snapshot, and the check that the slot is among those its own date offers) and
`Insert` or `Refused`; the races between two POSTs are in `Booking` and are not
repeated.  `Cancel` and `Advance` (the clock) complete it.  `stale` remembers the
requests whose calendar has been changed since their snapshot.

### Homework

POST of a submission is `ReadAssignment` (before the transaction: the assignment
as it is then, and the HEADs of the files), `LockAttempts` (the locking
`MAX(attempt)`, and the limit check against the *earlier* read),
`InsertSubmission` and `CommitSubmission` with the notification; the loser of two
equal attempt numbers leaves `InsertSubmission` by the unique key (`Duplicate`).
Edit and review are
`ViewSubmission`, and then `LockEdit`/`CommitEdit` or
`LockReview`/`CommitReview`, which check the locked row again.  PATCH of an
assignment is `SendPatch`, `LockAssignment` (merged flags, and whether a
retraction meets work) and `CommitPatch` (tells or un-tells the students).
DELETE of the course is `ListAssignments`, `GatherWork`, `Gate` (the
confirmation), `DeleteCourse` (the transaction) and `CleanObject`, object by
object.  Every transaction may fail at any point (`Abort`), which subsumes
ER_CHECKREAD and deadlocks, so snapshot isolation needs no constant there.

`Coursework` has none of this: no request, lock or transaction, only what a class
sees.  Its `handed` is `HandedIn`, the committed rows; its `told` is `Told`, what
students hear of publications and reviews; `open`, `board` and `granted` are
`course`, `hw` and `limits`.  `CommitSubmission` is its `HandIn`, `CommitEdit`
its `Rewrite`, `CommitReview` its `Review` or, the second time, nothing, `Create`
and `CommitPatch` its `SetDraft` and `Amend`, `DeleteCourse` its `Close`; all other
steps are invisible.  `HandIn` asks for the next attempt within a limit that was
granted, for something in it and for a file nobody handed in; `Rewrite` for
work not yet reviewed, and for something left; publishing and reviewing for
nobody having been told before.

### Accounts

Redemption checks its link with a plain SELECT in the transaction's view, hashes
the password, and only then locks the user's row with an UPDATE; `missed` is
the set of users and links changed since that view.  Issuing a link is two pool
statements (`BurnOlder`, `IssueLink`).  Registration locks the invitation with
`FOR UPDATE` before anything else.  `Expire` moves the clock past one link or
invitation.  POST `/auth/register-organization` is `FoundOrganization`,
`InsertUser` and `CommitSignup`: the unique key on the address, which is the same
for all organizations, is the only thing that stops a second account, and
`Undone` takes the organization back with it.

`Credentials` is what is left without requests, locks and views: links that are
given, withdrawn and redeemed, invitations that are open, accounts that are made.
A second redemption is visible to it because it changes the password again, to
another one: the mapping hands `password` through and takes the redeemed links
from the requests that were answered.  That a link is unspent when it is redeemed
is not promised: one that a newer request withdraws between the check and the
commit can still set the password.

### Storage

`Media`: a client's presigned POST is `Upload`; recording it is `Head` and then
`InsertVideo`/`CommitVideo` or `InsertFile`.  A comment is `LoadVideo`,
`InsertComment` (shared lock on the video by its foreign key), for staff
`MarkReviewed` (exclusive), `CommitComment`.  Deleting a video is `LoadVideo`,
`CountComments`, `RemoveObject`, `DeleteRow`, without a transaction.
`Images`: `FindHolder`, `PutPicture`, `SetPicture`, `RemoveOld`, where the last
removes the object that the *first* found.  `Storage` interleaves both over
one bucket.

### Messaging

`Feed` has what the three share: the roster `teacher` (`users.admin_id`), `Reach`
(`assertStudentInScope`), `Recipients` (`resolveRecipients`), and `Tell`, which is
`insertNotification` for each of a set of people: it throws for a stranger to the
organization, and then the transaction that called it is lost, so `Tell` is a
guard as well as an effect.  `ReadAll` and `ReadOne` are the two read marks.

`Tasks`: `CreateTask`; a PATCH is `LockTask` (`SELECT ... FOR UPDATE`) and then
`UpdateTask`, `RefuseTask` (no row affected) or `LoseTask`.  `Threads`: every
request first loads its thread from the pool (`OpenThread`), and writes later
(`Send`, `MarkRead`, or `LoseSend`), by when an owner may have given the student
another teacher (`Reassign`); `UnreadFor` is the badge with the fence `Scope` of
`scopeFor`.  `Broadcasts`: `Address` is the first SELECT of the transaction, whose
snapshot all later reads share, and `Publish` the rest of it up to COMMIT, with
rows of one type and `ref_id` for the audience and for the overseers of a
teacher's broadcast; rosters change in between.

`Correspondence` knows of threads only who has entered which (`doors`, the
`thread` of the requests), of messages the rows and which are marked (`letters`,
`seen`), and of notifications those about messages (`notices`).  A thread that
was entered stays open to the one who entered it: a request that loaded it
before a reassignment may write or read there afterwards, as in the code.

### Server

`ConnectionPool`: each kind of handler is the sequence of "get" and "put" it asks
of the pool (`Steps`), read off the code: `transaction` reads before and after it,
`confirm` (of a submission) asks for a second connection while it holds the
first.  `Take`, `Wait` and `Put` are mysql2's pool as the code configures it
(`waitForConnections`, no `queueLimit`), with a queue served in order; `Fail` is
an early return or an exception, after which the `finally` block releases.

`Migrations`: a script is a sequence of statements, each of a kind ("once": CREATE
TABLE and the like, which fail the second time; "again": may be repeated; "guard":
looks for rows and changes nothing) and with the defects it fails `over`, such
as a NULL that a NOT NULL meets.  The scripts are any such sequences.  `Guarded`
picks out those that the guards of the repository protect: what could stop the
script is looked for in a file of its own before it (`GuardedBefore`, as 0018
does for 0019), or in the script before it changes anything (`GuardedWithin`, as
0026 does).  A script of which no statement can fail over rows is guarded
trivially, 0012 is not: its third ALTER (lines 89-95) sets a NOT NULL unlooked.
`Start` reads which scripts are recorded,
`Execute` is one statement, which commits on its own, `Stop` a statement that
fails, `Record` the INSERT into `schema_migrations`, `Crash` the end of the
process anywhere.  `Spoil` and `Mend` change which defects
the data have.

## 3. Runs

Passing runs:

| run | module, cfg | checks |
|---|---|---|
| `booking_race` | `MCBooking`, `BookingRace.cfg` | `NoDoubleBooking`, `UniqueIndexNeverFires`, `ImplementsCalendar`, `EveryRequestAnswered` |
| `booking_reassign` | `MCBooking`, `BookingReassign.cfg` | `CancelledOnce`, `OnlyOnATeachersCalendar` |
| `slots` | `MCAvailability`, `Slots.cfg` | `OffersOnlyFreeTime`, `OffersAllFreeTime`, `RangeAgreesWithDays`, `BookedIntoOpenTime` |
| `homework_work` | `MCHomework`, `HomeworkWork.cfg` | `AttemptsInSequence`, `AttemptsWithinLimit`, `OneAttemptPerUpload`, `ReviewToldOnce`, `ImplementsCoursework` |
| `homework_course` | `MCHomework`, `HomeworkCourse.cfg` | `PublishToldOnce`, `NoBrokenFile`, `RetractedWithoutWork`, `ImplementsCoursework` |
| `accounts` | `MCAccounts`, `Accounts.cfg` | `RedeemedOnce`, `OneAccountPerInvitation`, `OneAccountPerAddress`, `ImplementsCredentials` |
| `storage` | `MCStorage`, `Storage.cfg` | `OneRowPerUpload`, `MissingMeansDeleted`, `ShelvedFiles`, `PictureStored`, `ReviewedIsTold`, `OnlyLateFeedbackLost` |
| `messaging` | `MCMessaging`, `Messaging.cfg` | `StaysInOrganization`, `TellsTheReaders`, `UnreadCanBeOpened`, `RecordOfReach`, `CompletionTold`, `ImplementsCorrespondence` |
| `server` | `MCServer`, `Server.cfg` | `StuckOnlyInConfirms`, `RecordedIsWhole`, `NoneHalfDone`, `EveryRequestServed`, `OnlyBadDataStops` |

The type invariants (`TypeOK` of each component), and `NothingLeaks`,
`OneAfterAnother`, `ReviewedIsFrozen`, `AcceptsSomething`,
`ResetBurnsAll` and `MarkedByItsReader`, are theorems (section 4) and are not
repeated by a run; the last four are also part of what `Coursework`, `Credentials`
and `Correspondence` say.

What they show:

* **booking_race**, without snapshot isolation, so that only locks protect:
  two bookings and a cancellation on a calendar with an existing lesson as long
  as, or twice as long as, a slot.  Lessons of unequal length are what the
  unique index on (teacher, start) cannot keep apart; the `FOR UPDATE` does,
  and behind it the index never fires.  Each step is a step of `Calendar`.
  Every request taken up is answered, although the INSERTs can deadlock.
* **booking_reassign**: with two teachers, reassignments and token refreshes, a
  lesson only ever lands on the calendar of somebody who is or was the student's
  teacher, and of two racing cancellations one gets the 200.
* **slots**, near the change of the clocks in spring and in autumn: what is
  offered is compared with what an observer of the wall clock would call free,
  instant by instant and without converting anything.  Nothing else is
  offered and nothing free is withheld, on dates whose rows do not speak of the
  skipped hour (`Readable`); a range gives each date what the date alone gives,
  a long lesson from the evening before included; a lesson lands in open time
  unless the calendar was written to between its snapshot and its INSERT.
* **homework_work**: attempts are 1, 2, ... without gap or repetition; the limit
  that counts may be stale, but is one that was granted; one uploaded file makes
  one attempt; a review is told once; and every step is one of `Coursework` or
  none, so that reviewed work is frozen and nothing handed in is empty.
* **homework_course**: two PATCHes, a submission with its edit and review, and
  the course's deletion.  `RetractedWithoutWork` is the part of "no work on a
  draft" that does hold: a retraction never passes over work it could see.  Here
  `ImplementsCoursework` is about PATCHes that race (flags never add up to
  nothing) and about the deletion, which a class sees as one step.
* **accounts**: a link sets a password once, an invitation makes one account,
  and an address has one in all organizations, although registration and signup
  do not look for it.  Every step is one of `Credentials` or none, so that a reset
  burns links issued while it ran too, and no failure leaves half of anything.
* **storage**: a confirmation sent twice records once; a row whose object
  is missing is one a DELETE has touched; a review is told exactly when the
  video leaves the queue, also after a revert; the only feedback that is lost is
  feedback that came after the DELETE arrived; the picture shown is in the
  bucket, however two
  replacements and a removal interleave, over an organization and a deletable
  course.
* **messaging**: nothing crosses between organizations; both sides of a thread
  hear of a message unless the student was reassigned while it was written; a
  badge can be cleared by who sees it, again except after a reassignment;
  a broadcast's count is of those of its audience who were told, and its only
  other rows are the overseers' copies of what a teacher sends; a task's maker is
  told of its completion once.  Every step is one of `Correspondence` or none, so
  that a message and its notices come together, to the teacher of the moment, and
  only somebody else who has entered its thread marks it as read.
* **server**: the pool can stall for ever, and only when as many confirmations
  of submissions as there are connections each hold one; otherwise whoever waits
  is served.  What is recorded as migrated is whole whatever runners overlap
  and crash; a runner left alone over data left alone leaves no guarded script
  half done, and stops in one only at a guard and before it changes anything.

Runs that find a violation, each a disagreement between the code and what it or
its comments say:

| run | property | what happens |
|---|---|---|
| `booking_told` | `TeacherTold` | A student with a token from before a reassignment books the former teacher's time; only the new teacher is told. |
| `homework_retract` | `NoWorkOnDraft` | A submission that read "published" is inserted after the retraction committed. |
| `slots_gap` | `BlockClosesItsHours` | A block that ends at 2:00 on the date the clocks spring forward loses its last hour; one from 1:00 to 2:00 closes nothing. |

### Observations

Met while modelling, and either stated by a passing property or left as they are:

* Five submissions confirmed at once stall the server for ever: each holds its
  connection and queries the pool for another (`submissions.route.js:396`).
  `StuckOnlyInConfirms` says it is the only way.
* A lesson may fall into time blocked after its request's snapshot
  (`bookings.route.js:162`); nothing locks the calendar against it.
* A message sent in a thread loaded before a reassignment goes into the old
  thread and notifies the new teacher; the badge of the student and of the
  former teacher for the old thread can never be cleared.
* An owner's PATCH marks the messages between a student and a teacher as read for
  them.
* `recipient_count` counts the audience only; the oversight copies of a teacher's
  broadcast carry the same type and `ref_id` (`broadcasts.route.js:195-206`).
  `migrations/0027` calls the count "How many notifications rows this send
  produced" and says a `COUNT(*)` of them would give it (lines 27-28, 71-74);
  for a teacher's broadcast that gives more, by the copies.  `RecordOfReach`
  says exactly what the count is of.
* 0012 can be left half done by a single runner that nothing disturbs: over a
  response without a student its third ALTER fails (lines 89-95), after the
  first two have dropped things.  Mending the rows is then not enough, since the
  first ALTER fails when run again.  Its header relies on the table being empty;
  it is the older practice that the guards of 0018 and later replace.  Whether
  a guard looks for everything its script can fail over is read off each script
  and not claimed of all: 0021, say, also adds a unique key, for which 0020 looks
  at no row.
* Two forgot-password requests that both burn before either inserts leave two
  live links; a reset burns both.
* The confirmation of a submission answers 500 if its read after COMMIT fails,
  with the work recorded; a PATCH of a course that races its DELETE answers 500.
* Only students enrolled at the time are told that a course was deleted, not all
  whose work went with it.

### Bounds

The sets are the smallest in which each race has all its parties: two of every
kind of request that can race with its own kind, one of each other.  Three
starts and a slot of two units make neighbouring, equal and partly overlapping
lessons; a duration of four makes the lesson the unique index cannot see.  One
student is enough for one calendar; two teachers are there where the question is
whose calendar.  Of three addresses one is taken, so that two registrations with
one invitation, and a signup, can each bring a free one: only the lock on the
invitation keeps the registrations apart, and only the unique key the rest.
Two limits let the stale one be the higher or the lower.
Two staff comments, a student's, and a revert let a video be reviewed twice and
commented in between.  The unbounded parts of the system (rows, notifications,
time) are bounded by the requests: none is repeated, so no state constraint is
needed.

`Slots.cfg`: ranges of dates within 0 to 2 (`First`, `Last`), about a date 1 on
which the clocks change; a day of 24 quarter-hours in six "hours", a slot of two, a change of
four, as far from midnight as it needs to be; a week of two days, so that a
window recurs on date 1 and not on its neighbours; ranges of times that begin,
end and lie in the changed hours; two rows in the two tables together
(`MaxRows`), which is a block against a window, and one new lesson
(`MaxLessons`), with a legacy lesson that runs past midnight into the date.

Three runs bound a composition by letting a behaviour have one part of it at a
time, since the parts meet in little: `Storage.cfg` has requests
about videos and files or about pictures (they share disjoint keys of the bucket,
and that this loses nothing is the content of the lemmas `MediaStep` and
`ImagesStep`); `Messaging.cfg` has two PATCHes of one task, or two sends
and a read mark in the threads of one student, or a broadcast, each with
reassignments or with feeds being read, for seven users in two organizations;
`Server.cfg` has the pool (two connections; two confirmations, which is enough
to stall it, a transaction and a query) or the migrations (two runners, five
scripts: one like 0011, which creates a table, one like 0012, one like 0018 with the one it guards, one like 0026).
The bounds are `MCNext` in the `MC` modules.  Where symmetry is declared the sets are of model values that the specification does
not tell apart, and no liveness property is checked.

Deadlock checking is off: all requests answered is where these systems stop.

### Fairness

`Booking` and `Server` have fair specifications.  `FairSpec` of `Booking` gives
weak fairness to each
request's next step, because Node's loop and the server's threads run whatever
is ready, and InnoDB's detector resolves every wait cycle
(`innodb_deadlock_detect` is on by default and nothing in the repository turns it
off).  Nothing obliges a client to send a request or a connection to be lost.
Weak fairness suffices: a wait ends when its holder finishes, and a
waiter, once enabled, can be disabled only by another request's progress, of
which there are finitely many.  A request is taken from the moment it has its
connection; that the pool gives it one is `EveryRequestServed`.

`PoolFairness` gives weak fairness to `Proceed`: the steps of a request that has
begun.  Arrivals are not fair.  That a waiter is served rests on the order
of the queue, since requests may come again and again, and on every `finally`
that releases: with one that keeps its connection (`FailKeeping`)
`EveryRequestServed` fails.

## 4. Proofs

For every number of requests, users, rows, keys, connections and scripts, by
TLAPS:

| module | theorems |
|---|---|
| `BookingProofs` | `Invariance`, `TypeCorrect`, `NeverDoubleBooked`, `IndexIsIdle`, `CancelledByOne`, `OnATeachersCalendar`, `CalendarImplemented` |
| `SlotsProofs` | `RoundTrip`, `FirstReading`, `TypeCorrect`, `OnlyFreeTimeIsOffered`, `AllFreeTimeIsOffered`, `RangesAgree`, `BookedTimeIsOpen` |
| `HomeworkProofs` | `Invariance`, `TypeCorrect`, `AttemptsNumbered`, `LimitsRespected`, `UploadsUsedOnce`, `ReviewedStays`, `ReviewTold`, `PublishTold`, `SomethingAccepted`, `RetractedUnworked`, `FilesStay` |
| `CourseworkProofs` | `NothingEmpty`, `CourseworkImplemented` |
| `AccountsProofs` | `Invariance`, `TypeCorrect`, `InvitedOnce`, `AddressesUnique`, `LinkRedeemedOnce`, `ResetsBurn`, `CredentialsImplemented` |
| `StorageProofs` | `Invariance`, `TypeCorrect`, `PicturesStored`, `UploadsRecordedOnce`, `FilesShelved`, `FeedbackKept`, `OnlyDeletesTake`, `ReviewsAreTold`, `FeedbackSurvives` |
| `MessagingProofs` | `TypeCorrect`, `NothingCrosses`, `BothSidesHear`, `BadgesCanBeCleared`, `RecordsAreHonest`, `EachCompletionIsTold`, `ReadersMark`, `CorrespondenceImplemented` |
| `ServerProofs` | `TypeCorrect`, `SeizesUpOnlyInConfirms`, `ConnectionsComeBack`, `RecordsAreTrue`, `GuardsProtect`, `ScriptsInOrder`, `StopsForBadDataOnly` |

`PROJECT.json` ("theorems") says what each establishes.  Each module proves
`Spec => []IInv` by one lemma per action, or group of actions, and derives the
rest.

**Booking.**  `NoDoubleBooking` is not inductive: the step that makes a booking
count looks at no other.  The invariant adds `SlotHeld`: from its `FOR UPDATE`
on, no other live row meets a request's slot.  It is kept because a row that
meets a slot starts before the slot ends (`TakesIsCovered`), which is inside the
range the scan locked whichever index it used, so an INSERT of another
request there waits.  `UniqueIndexNeverFires` follows from `SlotHeld`.
`OnATeachersCalendar` needs `Tutored`: what a token claims, and what a request
has resolved, is among the teachers its student has had.
`CalendarImplemented` shows `Init` and every action to be `CalendarInit`, `Book`,
`Cancel` or a stutter under the mapping of `rows` to `lessons` and `cancelled`.
None of this uses `SnapshotIsolation`: it holds with the option on or off.

**Open slots.**  `RoundTrip` and `FirstReading` say what the two estimates of
`ToUtc` compute for every zone west of Greenwich: a time the clock shows comes
back, the first of two when it shows it twice.  From there a candidate lies in
the hours it was made from (`CandidateWithinHours`), a block that begins and ends
at times that exist meets every slot it should (`BlockTouches`), and the day by
which query 3 is widened is enough for every lesson that could meet a slot
(`LessonIsRead`, with the invariant `ShortLessons`: none is longer than a day less
the change).  `AllFreeTimeIsOffered` is the other direction: a time that an
observer of the clock finds in a window and free of blocks and lessons is the
reading of one candidate (`FreeTimeIsOpen`), which lies on the date it was made
for (`CandidateOnDate`), and a block that takes it off the list closes some of its
minutes (`OnlyClosedIsBlocked`); both directions are on `Readable` dates, since
`slots_gap` refutes them elsewhere.  `RangesAgree` holds for every range of
dates: rows of other dates make no slot of this one (`OtherDates`), and a lesson
that the wider query of the range brings in besides meets no slot of the day
(`SlotOfRange`).  `BookedTimeIsOpen` rests on `Fresh`: a request whose calendar has
not been written to holds a slot that is still open.

**Homework.**  The invariant has eight parts, and what each says is which phases
exclude each other on one row.  `Handing`: a row says what its POST sent, and is
uncommitted exactly between INSERT and COMMIT.  `Numbering`: the attempts of a
student for an assignment are 1, 2, ..., a POST with a number has the next one,
and beside an uncommitted attempt no rival has a number (two may have the same
one before either inserts; an INSERT waits for a rival's lock on the gap, and if
each waits for the other, InnoDB ends one of them).
`Holding`: an edit or a review that holds its row is the only one and knows its
state.  `Filed`: no file is in two rows.  `Patching`: a PATCH with its row knows
the status, leaves something to hand in and, if it retracts, meets no work.
`Granting`: every limit that was read is one the assignment has had.  `Telling`:
what notifications are about.  `Ending`: objects are all there until the course
is deleted, and from then on there are no assignments and no submissions.

**Coursework.**  `CourseworkImplemented` shows each action of `Homework` to be a
step of `Coursework` or invisible (`ClassSteps` says which).  Beside the
invariant above it takes `PublishToldOnce`, by which nobody has been told when
a draft is published, and one more inductive part, `Content`: what a POST sends is
not nothing, what is in a row is not nothing, and an edit that found a file
under its lock still has it when it takes the text away.  That the attempts of a
student, *committed ones only*, are 1, 2, ... when the next commits is
`EarlierAttempts`: beside an uncommitted attempt there is no other.

**Accounts.**  What keeps a link from being redeemed twice is not a lock on it
but the view: whoever redeemed it changed the user's row, so a rival that
checked earlier has missed that change (`Losers`) and its UPDATE fails.  This is
so only with snapshot isolation, and `LinkRedeemedOnce` assumes it.  With the
option off (or on a server without it) two redemptions of one link can
both pass, contrary to `passwordReset.js:148-150`.  `InvitedOnce` rests on
`Claims`: a registration past its `FOR UPDATE` has the invitation pending and
for itself.  `AddressesUnique` covers uncommitted accounts, which the unique key
sees; `ResetsBurn` is a property of the step that changes a password.
`CredentialsImplemented` shows six actions to be steps of `Credentials` and all
others to be invisible (`PreparingUnseen`).  It assumes snapshot isolation too, for
`Losers` is what makes a redeemed link a new one, and takes one more part,
`Newcomers`: no account, committed or not, is under an address that was taken.

**Storage.**  `PictureStored` needs `Superseded`: a picture a request is about to
remove is shown nowhere.  That in turn holds because a key is set by the one
request that put it, for one holder (`Shown`, `FoundSet`), and is never set
again.  That deleting a video or a file cannot take a picture is
`MediaSparesPictures`, from the disjointness of the keys.  `RecordedOnce` extends
`OneRowPerUpload` to uncommitted rows, and `Shelving` extends `ShelvedFiles` to
rows about to be committed.  `Feedback` is what comments, reviews and deletions
know of each other.  A deletion that has counted found only comments that are
gone by now (`Counting`), so what its cascade destroys came later.  A comment
that marks its video has the row to itself (`Marking`), so `justReviewed`
still says at COMMIT what the UPDATE found.  An object recorded
or about to be is in the bucket, or a DELETE has loaded a row with its key
(`Backing`).

**Messaging.**  `NothingCrosses` goes through the rosters: a student's teacher is
of their organization, because `Reassign` looks for the new one there, and every
thread, draft and task was fenced when it was loaded (`Fenced`, `Loaded`,
`Drafted`).  `LockHeld` is the `FOR UPDATE` of a task, from which
`EachCompletionIsTold` follows: what a PATCH read of the status is still so.
`Recorded`, `Announced` and `Copied` tie broadcasts and messages to whom they
were told; that a broadcast's rows fall apart into its audience and the overseers,
whose roles no audience has, gives `RecordsAreHonest`; by `Given` a task's
assignee is of its creator's organization.
`CorrespondenceImplemented` shows `OpenThread`, `Send`, `MarkRead` and `Reassign` to
be the four steps of `Correspondence` and everything else, tasks and broadcasts
included, to be invisible (`NothingSaid`).  Who may enter a thread and what a
letter says of it come from `Loaded` and `Copied`; that `resolveRecipients` gives
the student and the teacher *of the moment*, whoever the thread was entered
with, is `RecipientsByThen`, and rests on `Fenced`.

**Server.**  `PInv`: a request holds exactly as many connections as its place in
`Steps` says, and waits only at a "get".  If everybody with a connection waits
for one, each holds one at a "get", which only `confirm` ever does.  `MInv`:
a statement has run only if those before it have (`InOrder`), what is recorded is
whole (`Whole`), and with nothing upset a guarded script under way has a runner
that is exactly as far as the script, over data in which what its guards looked
for is still resolved (`Calm`).  `Relies` marks the scripts that a guard in the
script before them protects: such a script never ends a run, so that no data can
change between its guard and itself (`StopsAtGuard`).

Assumptions are those named in the modules: disjointness of the sets of
requests, `None` outside the sets it stands beside, lengths and starts natural
numbers, a positive slot, fresh keys for pictures distinct from upload keys
(`KeysDiffer`: UUIDs under other prefixes), offsets west of Greenwich and clocks
that do not change around midnight, on no date a request can ask for
(`ZonesAssumption`), hours that end after they begin (the CHECKs of the two
tables of hours), lessons shorter than a day, finitely many users, and scripts of
at least one statement (`ScriptAssumption`).

Only model-checked: liveness (`EveryRequestAnswered`, `EveryRequestServed`), since
TLAPS has no rule for `ENABLED` under fairness; and of course the three
properties that are violated.  Every other property of a run is a theorem.
Induction over data and recursive operators are out of TLAPS's reach as well,
which the modules avoid by having neither.

## 5. Not modelled, and why

* A registration's own notification with the catch around it
  (`auth.route.js:136`): whether the transaction survives the error depends on
  the error, and the account is made either way or not at all.
* Creating, renaming and archiving a course, renaming an organization, the
  titles and descriptions of everything: single UPDATEs of columns no other
  handler decides by.
* The edit or review of a submission whose course is deleted meanwhile answers
  500 where a 404 is meant (`submissions.route.js:636`); the branch is in
  `Homework` (`Abort`), the status code is not told apart.
* Which indexes and columns a migration touches: a script is a list of kinds
  of statements and of what each fails over, since the runner knows no more.
* Mail, the HTTP shell, validation schemas, the rate limiter, the dashboard and
  other reads: no state that requests share, or a library's.
* Seed scripts: development data.
* Wording of answers and notifications, file sizes and types, dates
  that only sort.

## 6. Plan

What would add most from here:

1. `Booking` with its offer taken from `OpenSlots` instead of chosen freely.
2. The registration's notification, with the errors after which InnoDB has
   rolled back told apart.

## 7. Running

    tlc -config BookingRace.cfg MCBooking.tla
    tlapm BookingProofs.tla
