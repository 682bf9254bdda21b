# Verification of the job board

TLA+ models of the job-board server (Go, `src/`), checked with TLC on small
instances and, for the parts marked *proved*, for every value of the constants
with TLAPS.

## 1. Inventory of the system

One process serves a public and an admin HTTP API over PostgreSQL, an object
store for resumes and outgoing webhooks.

| Component | State it keeps | Operations | Hard behaviour | Correct when |
| --- | --- | --- | --- | --- |
| Webhook dispatcher (`internal/webhook/dispatcher.go`) | bounded queue, failure counts, scheduled retries, stop channel, all in memory | Dispatch, worker loop, retry goroutines, deactivate, Stop | hand-over between goroutines, full queue, stop against select, restart | a delivery is in one place, is attempted a bounded number of times and is never sent after it ended; only failing endpoints are switched off; Stop ends everything |
| Subscriptions (`webhook_service.go`, `webhook_subscription_repo.go`) | rows | create, delete, list active, whole-row update | stale whole-row write by the worker | a deleted row stays deleted, an inactive one is not reactivated |
| Job postings (`job_service.go`, `job_repo.go`, `v1/admin.go`) | rows | create, patch, delete, events | read-modify-write without a transaction, event after commit | published has a time; updates do not undo each other; the last event agrees with the row |
| Applications and notes (`application_service.go`, repositories) | rows, notes | apply, stage update, note | saga over object store and database, lost answers, crash, cascade, stale copies | a row has its resume, an accepted candidate has a row, every orphan is explained, subscribers know the stage |
| Object store (`internal/storage`) | objects | upload, presign, delete | calls that fail after taking effect | see applications |
| Rate limiter (`middleware/ratelimit.go`) | visitor map, token buckets | allow, clean-up, stop | eviction against use | an address is never allowed more than its rate and burst |
| API keys (`middleware/auth.go`, `auth/`, repository, `keygen`, `seed`) | rows with `last_used_at` | make and save, look-up, scope check, asynchronous touch | partial failure of a command, out-of-order writes | scope is enforced; the time is the latest use; a printed key is stored or the loss is reported |
| Start-up and shutdown (`cmd/server/main.go`, `migrate.go`) | pool, server, contexts | migrate, serve, signal | deadline against deferred Stop and Close, leaked connection | nothing uses a closed pool; the server starts |
| Lists (`v1/public.go`, `v1/admin.go`, repositories) | none | page, limit, filter; count, then read | two statements a page, writes in between | a walk shows each row once |
| Conversions (`domain/validation.go`, `storage/validation.go`, `postgres/helpers.go`) | none | slug, file name and type, custom form and answers, text arrays | boundaries, pairs of functions that have to agree | what is stored means what was sent |

Requests run concurrently. A handler calls a service, which calls repositories
one autocommitted statement at a time, and, after the write, the dispatcher; the
dispatcher's worker calls the subscription repository and the subscriber. No
statement sequence is in a transaction, and no component shares memory with
another except the dispatcher's queue. `PROJECT.json` lists the hazards with
their source lines and the property that covers each.

What is left out is listed, with the reasons, in section 5.

## 2. Modules

| Module | Models |
| --- | --- |
| `WebhookDelivery` | the abstract promise about a delivery: offered once, attempted boundedly, ends delivered or lost |
| `Dispatcher` | the dispatcher and the subscription rows; refines `WebhookDelivery` |
| `DispatcherProofs` | proofs about `Dispatcher` |
| `Jobs` | job postings and the handlers that change them |
| `JobsProofs` | proofs about `Jobs` |
| `Applications` | applications, notes, resumes and the handlers that change them |
| `ApplicationsProofs` | proofs about `Applications` |
| `TokenBucket` | the abstract limiter: one everlasting token bucket per address |
| `RateLimiter` | the limiter with its map, clean-up and stop; refines `TokenBucket` |
| `RateLimiterProofs` | proofs about `RateLimiter` |
| `Server` | the process: pool, migration, requests and worker as users of the pool, signal, deadline, Stop, Close, restart |
| `ServerProofs` | proofs about `Server` |
| `Listing` | the three paginated lists, walked by a client while rows are written |
| `ListingProofs` | proofs about `Listing` |
| `ApiKeys` | keys, the commands that make them, the middleware, the `last_used_at` goroutines |
| `ApiKeysProofs` | proofs about `ApiKeys` |
| `Subscriptions` | the admin API of subscriptions against the copies the dispatcher holds |
| `Slugs`, `FileNames`, `CustomForms`, `TextArrays` | the conversions of what clients send |
| `Text` | the functions of Go's `strings` that the conversions use |
| `Inputs` | `Slugs`, `FileNames`, `CustomForms`, `TextArrays` and `Subscriptions` side by side |
| `InputsProofs` | proofs about the parts of `Inputs` |
| `MCDispatcher`, `MCJobs`, `MCApplications`, `MCRateLimiter`, `MCServer`, `MCListing`, `MCApiKeys`, `MCInputs` | instances for TLC |

Definitions whose comment starts with "Mutant:" are broken variants of the
definition after them. No specification uses one; each shows that a property is
able to fail, when it is put in the place of the original.

### Dispatcher

`call` and `todo` are where each `Dispatch` call is and the snapshot of
subscriptions it has still to enqueue; `queue` is the channel; `workerPc` and
`current` the worker goroutine, `retrying` the goroutines `processTask` leaves,
`failures` the map, `stopClosed`, `ctxDone`, `stopPc` the channel, the context
and the caller of `Stop`; `row` the table. One action is one atomic step: a
channel operation, a critical section with what follows it, a statement, a
delivery. `Restart` loses everything but `row`. The endpoint and the admin are
the environment: every answer (2xx, 410, anything else) is possible, and a
subscription may be created or deleted at any time. `offered`, `delivered`,
`tries`, `streak` and `gone` are history: no action reads them.
An attempt under a cancelled context fails without reaching the endpoint
(`"aborted"`), but is counted as a failure by the code, hence by the model. The
reply to an attempt is not lost separately: a 2xx whose reply is lost is a
failure to the dispatcher, and is retried.

### Jobs

Title, slug, status and publication time stand for all columns. A request is a
record with its program counter: `ReadForUpdate` ends with the copy of the row
and the validated patch in the handler, `WriteUpdate` writes every column,
`Announce` dispatches. `WriteUnanswered` and the second branch of `CreateJob`
are a statement that commits while its answer is lost; `Crash` ends all
handlers. `announced` and `disturbed` are history. Titles and slugs are opaque;
validation tells blank, well formed and ill formed apart. `SlugOf` is the slug
`GenerateSlug` makes; ids are drawn afresh, so a deleted id is not reused.
`Announce` is the call of `DispatchEvent`, whose error the service ignores: the
event is queued, or lost, and the request is answered all the same. What becomes
of a queued event is `Dispatcher`'s. An event dispatched to several subscribers
is queued for all or counts as lost. `Times` are what the clock answers, told apart
but not ordered: enough to see whether a publication time is the first one.

### Applications

`postings` is the part of `Jobs` that applications read (published or not,
deleted), changed by any admin. `Apply` is `ReadJob`, `Upload`,
`CreateApplication` and `Announce`; `UploadFails`, `CreateUnanswered`,
`CreateFails` and `Undo` are its error paths, where a failed call may have taken
effect, because the answer of the store or the database can be lost.
`UpdateStage` is `ReadForStage`, `WriteStage` and one `Announce` per event,
which may lose the event as in `Jobs` while the handler goes on to the next;
`CreateNote` is `ReadForNote` and `CreateNote`. `DeleteJob` cascades to
applications and notes. The object key holds the application's id, so an object
is identified with it. A request refused by validation changes nothing and is
not an action. The notes count of an event is not modelled.
`told`, `accepted`, `doubtful`, `leftovers` and `disturbed` are history (`Fresh`
reads the last three only so as to draw an id that nothing has used).

### RateLimiter

`visitors` is the map (address to bucket), `tokens` the buckets, `age` the time
since `lastSeen`, `request` what a request holds between `GetLimiter`
(`NewVisitor`, `KnownVisitor`) and `Allow`, which are atomic each, under their
mutexes, and not together. `elapsed`, `ticks`, `loop` and `stopChan` are the
ticker, its channel, the clean-up goroutine and its stop channel. Time is a
number of ticks; `Rate` and `Cost` give bucket and request in one unit, so that
a bucket may hold part of a token. The buckets are `golang.org/x/time/rate`,
external, modelled from their use: filling at every tick is the same as its lazy
refill. Clock readings that reach a bucket out of order, and rounding, are not
modelled. `Buckets` are heap objects; one that neither the map nor a request
refers to is free.

`MaxStall` bounds how long the scheduler keeps a request between its two calls.
The code has no such bound: it is an assumption, and TLC shows it is needed
(above the TTL, `HoldsItsBucket` fails: the address is evicted while its
request is stalled, and gets a second bucket). `FillsInTime` asks that a bucket
fills in `TTL - MaxStall`. With the defaults (20 a second, burst 50, 3 minutes) it
holds by far; configuration accepts any positive rate and burst, and with a
burst above 180 times the rate an evicted address comes back to more tokens than
its bucket would have had.

### Server

`main` is where `runServer` is, `shutter` the goroutine that waits for the
signal, `deadline` the state of `shutdownCtx`; `conn` is each client's
connection with the request on it, `touch` the goroutine that writes
`last_used_at` after it, `worker` the dispatcher's worker as far as it uses the
pool. A statement is three steps: ask, acquire, release; `InUse` counts the
connections held, the migration driver's included, which `newMigrator` takes
and nothing returns. `Shutdown` waits for every client connection; the watchdog
and the return of main race after the deadline. `Kill` may come at any step;
`Restart` keeps the database only. `MigrateCommand` is the `migrate` command of an
operator, another process, at any time: nothing in `runMigrate` asks whether a
server is running. `golang-migrate`, external, takes a lock on the database, marks
the schema dirty before it changes it and refuses a dirty one; `command` is who
holds the lock when it is not start-up, and a holder that ends gives it up. `undone`
is history: an operator began to take the schema back from under the process.
There is one migration, so up and down are one step each; `seed`, which migrates
too, is a `migrate up` here.

### Listing

`endpoint` chooses one of the three lists for a behaviour, `table` is what its
WHERE clause looks at, `query` the request in progress: parsed, for applications
checked against the posting, counted, read. `Orderings` are all the orders that
`ORDER BY created_at DESC` allows. Integers have `Width` bits, so an offset wraps
as it does in Go, to a negative one (`ReadRefused`) or to that of an earlier page. `Writer` is everyone else. `walk` is history, and remembers
what entered and left while the client went from page to page.

### ApiKeys

`command` is the `keygen` or `seed` in progress, with the tokens it generated
and has still to save; `NoDatabase`, `Connected`, `Save`, `SaveFails` and
`PrintTokens` follow `runKeygen` and `runSeed`, a failure after the commit
included. A request is `Arrive`, a look-up with `Pass`, `Refuse` or
`LookupFails`, and `Answer`; `Pass` starts a goroutine that reads the clock and
updates the row in two steps. A token stands for its hash. `excuse`, `printed`,
`passed` and `blurred` are history.

### Subscriptions and the conversions

`Subscriptions` takes the queue away from `Dispatcher` and keeps what it leaves
out: address, secret and events. A delivery is made, or deactivates, at any time,
from a copy of any age. `Slugs` is `GenerateSlug`, `FileNames` the way of a name
through `SanitizeFilename`, `ValidateResume` and `GenerateResumeKey`,
`CustomForms` the two validators of forms and of answers, `TextArrays` the
`Value` and `Scan` of `TextArray` against PostgreSQL's array format, which is
external. A letter or a word is a symbol; sizes of files and the case of
extensions are left out, and so is the `docx` format, which is checked as `pdf`
and `doc` are.

## 3. Runs

| Run | Question | Bounds |
| --- | --- | --- |
| `dispatcher_safety` | one copy, earned deactivation, decaying rows, quiet after Stop | 2 events, 2 subscriptions with overlapping topics, queue of 1, 1 retry, threshold 2, 1 restart |
| `dispatcher_promise` | refinement of `WebhookDelivery`, and liveness | 1 event, 2 subscriptions, queue of 1, 2 retries, threshold 4 (so that the retries run out before it), 1 restart |
| `jobs` | type, publication time, last event, deletion, partial updates when alone | 2 requests at a time, any number in a row, 2 postings, 1 title, 2 slugs, 2 times |
| `jobs_partial` | *violated*: updates are partial | same |
| `applications` | resumes, acceptance, leftovers, references, stages | 2 requests at a time, 1 posting, 1 application, 3 stages, 1 reason and none, 1 note |
| `applications_old_stage` | *violated*: the old stage announced is the one replaced | same |
| `limiter` | no bucket is lost in use; refinement of `TokenBucket`; idle addresses are forgotten | 2 addresses, 2 requests at a time, 3 buckets, burst 2, half a token a tick, TTL 5, stall 1: the bucket fills in exactly `TTL - MaxStall` |
| `server` | pool, schema, grace period, and that signals and requests are served in the end | 2 clients, a pool of 2, of which the driver keeps 1 |
| `server_one_conn` | *violated*: a pool that configuration accepts serves requests | 1 client, a pool of 1 |
| `listing` | a page is its slice, shows only matches, a walk shows each row once | 3 rows, every content, 2 writes, pages up to 12, limits up to 3, integers of 5 bits |
| `api_keys` | who is served, what `last_used_at` says, what a command may keep silent | 2 tokens, 1 request at a time, 2 goroutines, a clock of 2 |
| `inputs` | stored data means what was sent | titles of 6 characters and slugs of 5, names of 5 symbols cut after 2, forms of 2 fields, lists of 2 texts of 2 characters, 2 subscriptions |

The bounds are enough for what can go wrong. A queue of one is full as soon as
it holds a task, so drops and blocked retries happen; two events and two
subscriptions make tasks of one endpoint meet in the queue, in a retry and in the
worker; a threshold of two separates counted from consecutive failures. Two
requests overlap in every way a read-modify-write can; a third adds no new pair.
One application suffices because handlers of different applications share only
the posting, which the environment changes anyway; its two requests still apply,
move, annotate and delete around each other. A pool of two leaves one connection
for two clients, their goroutines and the worker, so each waits for each. Pages
of one and two rows out of three give first, middle, last and partly filled
pages; two writes let a row leave and another enter in one walk. A clock of two
tells earlier from later, and two goroutines overlap. Titles and names are
longer than their limits, with a separator at the cut. The failing runs find
their counterexamples at these bounds.
Deadlock is not checked in `dispatcher_*`, `jobs*`, `applications*`, `limiter`
and `inputs`: a stopped dispatcher or limiter, postings all deleted with no
request in progress, or a title that has its slug, is a legitimate end. It is
checked in `server`, `listing` and `api_keys`.

### What the violated properties show

- `PartialUpdate`: `UpdateJob` writes the whole row from a copy, so overlapping
  updates undo each other. `LoneUpdateIsPartial` shows it is the overlap, and
  nothing else, that breaks it.
- `OldStageIsReplaced`: the event of an overlapping stage update names a stage
  the candidate had already left.
- `AcceptedPoolServes`: `postgres.WithInstance` takes a connection for its
  advisory lock and keeps it until the driver is closed, which `MigrateUp` never
  does. With `DATABASE_MAX_OPEN_CONNS=1`, which `config.go:118` accepts, the server
  starts and every statement waits for ever. `RequestsGetConnections`, the same
  formula with two connections, holds.

### Other disagreements seen while modelling

They are visible in the passing properties as an exception, or by a change of
one constant or definition, and are not run by themselves.

- `deactivateSubscription` only logs a failed update, and the failures are
  counted in memory: an endpoint past the threshold can stay active, where
  `.agents/rules/webhooks.md:83` says it "is automatically marked".
- A patch with `"slug": ""` passes `ValidateJobInput` and is stored
  (`Jobs!TypeOK` allows it), although `IsValidSlug("")` is false.
- `ORDER BY created_at DESC` has no tie-breaker: with two rows of one creation
  time (`CreatedAt`) the walk of `listing` repeats and misses rows. The theorem
  about walks has distinct times as its hypothesis (`DistinctTimes`).
- The page number has no maximum: for page 12 (five bits) and the limit of 3
  the offset 33 wraps to 1, and the rows of an earlier page are answered.
  `PageIsItsSlice` excepts it (`OffsetFits`). In 64 bits the page is about 2^62.
- `keygen` without a reachable database prints its key without a warning;
  `SilenceMeansSaved` excepts it (`"unreached"`). `seed` warns.
- Types of form fields and names of events are validated without the blanks
  around them and stored with them: with blanks in `Fields` or in the events of
  `Requests`, `AnswersMeetForm` and `AddressesSubscribers` fail. Their theorems
  have the absence of such blanks as hypotheses (`PlainTypes`, `PlainEvents`);
  `FormsAreAnswerable` has none.
- `src/README.md:288` lists "active" subscriptions; `List` selects every row. An id that is not
  a uuid makes the statement of `DELETE /v1/admin/webhooks/{id}` fail, and the
  answer is 500, where the test, on a repository in memory, expects 404.
- Validators count bytes, without the blanks around a text; the columns count
  characters, and `rejected_reason` and `experience_level` are stored with the
  blanks. A text of 255 characters can be refused, and an accepted one can fail.
- Salaries have no upper bound in the validator, and `NUMERIC(12,2)` has one.

`SubscribersKnowStage` speaks of a reason only when there is one: clearing the
reason of a rejected candidate is a change that no event announces.

### Fairness

`FairSpec` gives weak fairness to each `Dispatch` call in its loop, to the
worker, to the retry goroutine of each delivery and to the caller of `Stop`:
the Go scheduler runs a goroutine that stays runnable, a timer fires, and the
client's 10 s timeout ends an attempt. No outcome of an attempt and no branch
of a select is favoured: `WorkerExits` or `Take`, success or failure remain
open, so liveness holds on the weakest reading of `select`. Nothing is assumed
of the environment: no one has to dispatch, cancel, stop or restart.
`HeldIsResolved` therefore excepts a closed `stopCh` and a cancelled context.
In `RateLimiter` time passes, a request between its two calls goes on, the
clean-up goroutine runs when its ticker has fired, and its `select`, which Go
resolves at random, does not pass over a closed stop channel for ever.
In `Server`, `FairSpec` lets the goroutines of the shutdown, main and the
watchdog run, the deadline pass, an attempt of the worker end (it has a timeout)
and its update give up when its context is cancelled; `WorkerExits` is strongly
fair, because `select` picks at random among the ready cases and does not pass
over a closed channel for ever. `ServingSpec` adds that statements end, also
those that wait for the tables a migration has locked, and that `database/sql`,
which serves waiters in the order they came, gives a returned connection to
everyone who waits for one: strong fairness of `Acquire`. Nothing
is asked of clients or of handlers: `SignalEndsProcess` holds though a request
may never end and the worker may never get a connection.
The other modules state safety only.

## 4. Proofs

All theorems are for arbitrary sets of events, subscriptions, requests,
addresses and postings and any capacity, delays and thresholds, under the named assumptions in
the modules: subscriptions are numbered, capacity and threshold positive, the
inputs of `Jobs` are what a JSON body can hold, the interval of the clean-up is
positive, the pool has a connection, a token is not one of the words that stand
for no token, a table has no more rows than an integer can count, blanks and
hyphens are neither letters nor digits, and the limits of slugs and names are
positive.

*Dispatcher.* `TypeCorrect` is inductive by itself: the retry guard
`attempt < Retries` keeps the attempt in range and the two sends check the
capacity. `OneCopy` is not inductive: it needs that a call enqueues for an event
only once (`call` leaves `"idle"` for good, and whatever is held was offered by
it), that what is delivered is no longer held, and that attempts are counted.
The conjunction, `Placement`, is inductive; `NoSecondCopy`,
`AttemptsAreCounted` and `AttemptsBounded` follow. `DispatcherKeepsPromise`
maps every step to a step of `WebhookDelivery` or a stutter under `Fate`: `Take`
is `Attempt`, a 2xx is `Confirm`, drops, exhausted retries, aborted goroutines
and `Restart` are `Lose`. `DeactivationIsEarned` rests on `Earned`: the count in
memory never exceeds the failures the endpoint really produced, except under a
cancelled context, where the update that deactivates cannot succeed.
`StopIsQuiet` rests on `StoppedWorker`: Stop returns only when the worker has
exited, and no step but a restart brings it back.

*Jobs.* The inductive invariant is `TypeOK`, `Holding` (a handler between read
and write holds a well-typed copy and a patch that validated against it) and
`TimeInv`. `PublishedHasTime` alone is not inductive, because an update writes
back a copy: the copies must be *timed* too. `JobsTyped`, `PublishedIsTimed` and
`DeletedForGood` follow. `LastEventAgrees` speaks of the moments when nothing is in
progress; `Undisturbed` adds what holds in between: a posting that is not in
`disturbed` is held by one request at most, whose copy is the row and whose
event agrees with it, and when no event is to come the last one agrees. With it
`EventsFollowRows` and `LoneUpdatesArePartial` hold: the copy an undisturbed update
writes back is the row, so only the patched fields change.

*Applications.* `NothingDangles` is inductive with `TypeOK` alone: the foreign
keys and the cascade carry it. The other three are not: they need `Custody`,
which says what an Apply in progress holds. Until it is answered, one handler
and no other owns the application's key (`OneOwner`); before the insert there is
no row, after the upload there is an object, an application being undone has no
row or an unanswered insert, and nothing owned has been answered 201 (`InHand`).
Hence the compensation never takes an accepted candidate's resume. `Custody`,
`RowHasResume`, `AcceptedIsWhole` and `LeftoversExplained` are inductive
together; `ResumeIsKept`, `AcceptedForGood`, `NoSilentLeftovers` and
`ParentsExist` follow. `NewsIsComplete` rests on `NewsInv`, which follows the
events still to be sent: what subscribers know after the rest of a handler's
events (`TellAll`) is what the row says.

*RateLimiter.* `LimiterTyped` holds outright. `BucketsAreHeld` and
`LimiterKeepsBuckets` assume `FillsInTime` and rest on `Filling`: a request in
progress holds the bucket its address has in the map, and the address was seen no
longer ago than the request has waited (`Registered`); no two addresses share a
bucket (`OneEach`); and an address not seen for longer than `MaxStall` has a
bucket that nothing spends from, so it has regained the rate times the rest of
its age (`Refilled`). An expired address then has a full bucket, and forgetting
it is a stutter of `TokenBucket`.

*Server.* The inductive invariant is `TypeOK`, `ShutdownOrder` and `Served`.
`ShutdownOrder` follows the three goroutines: once Shutdown has returned no
client connection is left unless the deadline has passed, main stops the
dispatcher only after that, is in Close only when the worker has exited, and
returns only after Close. `PoolOutlivesItsUsers` speaks of the last step alone
and is not inductive without the others. `Served` says that main is past the
migration only on a current schema, or on one taken back since (`undone`), that a
command holds the lock only on a dirty schema and never while start-up migrates,
and that connections exist only behind main's `listening`. `PoolClosesLast`,
`SchemaIsCurrent` and `GraceIsGiven` follow for any number of clients and any pool.

*ApiKeys.* The inductive invariant adds to the properties `Admitted` (a row has
the scope its token was generated for, and a request past the format check
holds a token), `Commanded` (the tokens of a command are generated; those it
has still to save have no row and let nothing through, and of each other one
it saved the row is there or an excuse is), `Noted` (no time is ahead of the
clock, and a goroutine is of a token that got through) and `Alone` (the
goroutine of a token that is not in `blurred` is its only one, and read the
clock after the latest use).
`LastUsedIsLatest` needs `Alone`: the row may be behind while its goroutine is
on the way. `NoneServedUnauthorised`, `LoneNoteIsLatest` and `NoSilentLoss`
follow, with `UseWasReal`: a key that has a time did get a request through.

*Listing.* The invariant is that the history means what it says. What a page
shows is described by places: the place of a row is the number of rows of the
list that are newer, and a page shows the rows with a place from its offset up to
its offset plus its limit. Places grow only when rows enter the list and shrink
only when rows leave it. So no row that matched throughout is on two pages unless
one entered, and a row that the pages so far should have shown and did not has
a place beyond them. That the rows on a page have distinct places is where
`WalksShowEachOnce` needs `DistinctTimes`; `WalksShowMatches` and `PagesAreSlices`
need no hypothesis. The wrapped offset needs the powers of two, which are known to
be positive because they count subsets.

*Inputs.* A behaviour is of one part, so each part has its own invariant.
- Subscriptions: every row, copy and test is as it was made but for being active
  (`AsMade`). The write-back of an old copy therefore changes nothing else, and
  `MessagesAreSigned` and `SubscribersAreAddressed` follow.
- Forms: what the validation of a form admits, that of the answers understands,
  type by type; for `FormsAreAnswerable` each field is given a suitable answer.
- Names: the stored name is what `Cleaned` made of it, and cleaning again changes
  nothing, because no run of the characters it removes is left to remove, and the
  extension that the check compared comes back at the end.
- Slugs: GenerateSlug's loop is a selection of positions. Up to the end of any
  letter the positions kept are the letters up to it and the words begun before
  it, which is shown from the least position where it would fail. A cut keeps
  the positions before it, and the trimming takes hyphens only.
- Texts: a literal is followed symbol by symbol. What the next symbol is depends
  on two things read before it, whether a backslash is waiting for it (`Pending`)
  and whether the number of quotes is odd (`OneMore`); what was selected of the
  literal so far stays (`GoesOn`). So an element adds its own text and nothing
  else, quoted (`QuotedIsRead`) or bare (`BareIsRead`), a comma after it is an end,
  and by the length of the list Scan undoes array_out (`ScanUndoes`) and array_in
  reads what Value writes (`ValueIsRead`). `TextsSurvive` holds for texts and
  lists of any length and of any symbols.

The type invariants of `Dispatcher`, `Applications`, `RateLimiter`, `Server` and
`ApiKeys`, and `AttemptsCounted` and `LastUsedIsAUse`, are proved and therefore not
among the runs.

Only model-checked: liveness and fairness (`HeldIsResolved`, `StopTerminates`,
`RetriesDrain`, `Forgotten`, `SignalEndsProcess`, `RequestsGetConnections`), which
are beyond the prover.

## 5. Not modelled

- Routing, CORS, request logging, panic recovery, error bodies: stateless
  plumbing, with nothing to interleave.
- The HMAC signature: a pure function of a library; who signs with which secret
  is `SignedAsCreated`.
- Configuration, log set-up, the embedded OpenAPI files: read once. What
  configuration accepts is in the models as the range of a constant
  (`MaxConns`, `FillsInTime`).
- Lengths of texts, formats of e-mail addresses and URLs, salaries: stateless
  predicates of one argument.
- The other conditions of the lists (ILIKE, department, tags): each narrows a
  list as the status does.
- Presigned URLs, `Download`, `Exists`: they change nothing.
- `ValidateResumeHeader`: it has no caller.
- One composition of everything. The parts meet where the models meet: the
  dispatcher and the pool in `Server`, the dispatcher and the rows in
  `Subscriptions`, the postings in `Applications`, which any admin changes in
  every way `Jobs` can, so that it assumes less of them than `Jobs` gives.
