# A verification of the text-extraction API

This directory is a TLA+ model of the repository: the durable queue of extraction
tasks, the processes that work on it and answer clients, the versioned model
store, and an extraction request from its body to its answer on both routes. TLC
checks the models on small instances; TLAPS proves every safety property the passing
runs check for every instance, some under a condition section 5 names. Every
definition is translated from the code under `src/` (paths below are relative to the
repository's root); `PROJECT.json` maps each to its lines.

## 1. The system

A FastAPI application serves three features. Extraction over a list of texts is
done either in the request (`/extractions`, nothing is kept) or as a durable task
(`/extraction-tasks`). Model versions are uploaded, listed, activated and
downloaded through a catalog of their own. Inference, uncertainty and the
catalog the extraction consults are stubs behind protocols.

| component | state | operations | properties that make it correct |
|---|---|---|---|
| `src/task_repository.py` | tables `extraction_tasks`, `extraction_task_items` | create, claim task, renew lease, claim item, finalize item, fail task, retention; status, results, summary | counters, status, lease and erasure agree with the items; decided is final; nothing goes before its time |
| `src/task_service.py` | the worker coroutine and its executor thread | `worker_loop`, `_process_claimed_task`, submit and the reads | a worker writes only while it holds the lease; every task ends |
| `src/app.py` (tasks, lifespan) | stop event, worker task, executor | start, stop, routes | shutdown completes and leaves no lease behind; answers never go back |
| `src/model_store.py`, `src/model_service.py` | four catalog tables, a directory of artifact files, temporary uploads | register, activate, resolve | a listed version has its content; one active version; a failure leaves nothing |
| `src/service.py`, `src/extraction.py`, `src/inference.py`, `src/uncertainty.py` | none | a batch, source by source; infer one source | every source its own outcome, both routes alike |
| `src/app.py` (routes, error handlers), `src/schemas.py` | none | validation, limits, authentication, statuses | what is answered is what was asked |
| `src/models.py`, `src/settings.py` | none | records, configuration | a stored row can be loaded |

How they interact: several processes may share one database file and one data
directory (leases and `BEGIN IMMEDIATE` exist for that). In each, one event loop
runs request handlers and the worker coroutine, one callback at a time, since
the `async` functions have synchronous bodies; an executor with one thread runs
the claimed task. Loop and executor meet only in the database. SQLite serialises
write transactions; reads outside one see whatever is committed by then.

What is hard here: a lease that expires while its holder is inferring; workers
that come back after a takeover or a purge; timestamps read before the write
lock is had; two reads where one was meant; a worker coroutine that an exception
ends; crashes between a file operation and a commit, and a cleanup that runs
after the lock is gone; one source whose failure reaches the others; times kept
as texts of different lengths. `PROJECT.json` lists each as a hazard at its line, with
the property that watches over it or the reason why none does.

## 2. The modules

| module | models | extends or refines |
|---|---|---|
| `TaskLifecycle` | the promise about a task: accepted, begun, each item decided once, a verdict, retired | |
| `TaskRepository` | the two tables, each transaction one action; `Next` is the most general client | implements `TaskLifecycle` |
| `IsoTime`, `TaskTimes` | the texts the tables keep times as, and their comparison by SQLite | `TaskTimes` extends `TaskRepository` |
| `TaskRepositoryProofs` | theorems on the state of the tables and on their steps | extends `TaskRepository` |
| `TaskTimesProofs` | the theorem that texts compare as times do | extends `TaskTimes` and `TaskRepositoryProofs` |
| `TaskLifecycleProofs` | the theorem that the store implements `TaskLifecycle` | extends `TaskRepositoryProofs` |
| `TaskService` | processes: event loop, worker coroutine, executor thread, lifespan, crashes, failing calls, clients | uses `TaskRepository`'s actions and implements its `Spec` |
| `TaskServiceProofs` | that the service is a client of the task store, and what follows | extends `TaskService` and the proofs of the store |
| `TaskServiceLeaseProofs`, `TaskServiceAnswerProofs` | theorems on leases; on what clients are told and the summary | extend `TaskServiceProofs` |
| `ModelCatalog` | the promise of the model store | |
| `ModelStore` | upload, registration in steps, activation, lock timeouts, crashes, several processes | implements `ModelCatalog` |
| `ModelStoreProofs` | all theorems on the model store | extends `ModelStore` |
| `Extraction` | one request on `/extractions` and on `/extraction-tasks`, with every reply of provider and estimator | |
| `ExtractionProofs` | all theorems on it | extends `Extraction` |
| `MC*` | the instances TLC checks; symmetry sets | |

**TaskRepository.** `tasks[t]` and `items[t][p]` are the rows. JSON and text
columns are kept as "is not NULL"; times are numbers and `NoTime` is NULL. A
transaction's `now` is an argument: the callers read the clock before `BEGIN
IMMEDIATE` waits, so `Next` lets every transaction run with any timestamp up to
the present. That is more than the service does, so what holds here holds there.

**TaskService.** `loop[p]` is the callback on a process's event loop with the
step it takes next; `exec[p]` is the frame of `_process_claimed_task`;
`worker[p]` the coroutine; `proc[p]` the lifespan. Every call into the
repository is one step, so other threads run between any two. `since` is the
time of a thread's previous step: the timestamp it uses is any time from then to
its commit. An executor whose renewal or finalize the store refused is at
"refused": the exception it has caught leads it to `fail_task` like any other. `seen[o][t]` is what the owner was last told (on submission: what
the reloaded row says by then), which states the promises to clients. Failures: a
call raises without effect (`ExecFault`, `LoopFault`), a process crashes and
restarts under a new worker id.

**ModelStore.** `frame[p]` is a registration under way, from the streamed upload
through `BEGIN IMMEDIATE` (which may time out), the placement of the file, the
INSERTs and the commit to the removal after a rollback; its last step is the
read of the version it answers with, after its transaction. `lock` is SQLite's
write lock. Rows a transaction has not committed are in its frame only.
A statement, the placement or the removal of the file may raise (`MayRaise`, a
full disk) and nothing catches it (`Uncaught`), as nothing catches an integer that
is too large; `MayFail` is for the commit, which is caught. `BeginTimesOut` may
happen whoever has the lock: the task store's tables are in the same database
file, so its transactions hold it too. `uploads` counts temporary files; removing
one, in `finally`, is taken to succeed. `forgotten`, `stray` and `undercut` record
what happened, for properties to speak of; no action reads them.

**Extraction.** `request` is one body that both routes receive; `sync` and `task`
are what each made of it. `replies[p]` is what provider and estimator do about
source p: raise, return values for any names, plain or such as `json.dumps`
refuses, and uncertainties within [0, 1] or beyond. The provider is deterministic,
so a source gets the same reply on both routes. A text is its length after
`strip()`, a name is its stripped word and whether something was stripped. The
worker here is one that keeps its lease: crashes and takeovers are
`TaskService`'s subject. `inference_status` is "inferred" or "not_found", and the
catalog lookup of the model to use never fails, as in the stub.

**IsoTime.** `isoformat` omits the fraction of a second when it is zero, so two
texts differ in length and a "+" may be compared to a ".". `TaskTimes` adds to
the task store that every comparison its WHERE and ORDER BY clauses make comes
out on these texts as on the instants.

Definitions whose comment says "Fault" are not the code: each is the definition
after it with a plausible mistake, and a property is seen to fail on it.

## 3. What the runs check

Passing runs (`.cfg`: question and bounds):

| run | question | bounds |
|---|---|---|
| `MCTaskRepository` | rows consistent, decided is final, nothing lost early, leases respected, life cycle implemented; times compare as texts as they do as instants | 1 task of 1 to 3 items, 2 workers, times 0 to 4: lease 1, expiry 3, deletion 4; a text has 3 binary digits for seconds and one for the fraction |
| `MCWorkers` | takeovers: a worker the store refused cannot fail the task either, one that has its lease is never surprised; answers of two processes never go back | 2 processes, 3 worker ids (one crash and restart), 1 task of up to 2 items, submit and status, lease 1, expiry 2 (deletion is in `MCTaskRepository` and `MCClient`) |
| `MCWorkersTwo` | no healthy worker sits on a lease; an executor writes to its own task only, and only while it holds the lease; the summary adds up over two tasks; claim order; the service only makes transactions of `TaskRepository` | 2 processes, 2 tasks of 1 item, 1 raising call |
| `MCClient` | answers advance, results are whole, the summary adds up | 1 process, all requests, 1 task of up to 2 items, crash, shutdown, a raising call, expiry and deletion |
| `MCProgress` | every task ends; a process asked to stop goes down; no healthy worker sits on a lease through stops and restarts | 2 processes, 1 task of up to 2 items, stops at any time, a crash and a raising call at time 0 |
| `MCModelStore` | catalog whole, versions without collision, the last activation wins, answers show the own version, files lost only to a cleanup and left only by a crash or an uncaught exception, uploads cleaned up; the catalog is implemented | 2 processes, crashes, failing statements and commits, lock timeouts, 2 names, 2 contents, 4 registrations, 2 activations, versions up to and beyond the largest integer (here 2) |
| `MCExtraction` | both routes answer what was asked and alike; a source that raises is alone | batches of 0 to 4 sources over 7 texts and 5 name lists, blank, empty and alike once stripped; 8 replies; limits 3 (schema), 2 and 2 (sync), 3 and 3 (task) |

Why the bounds are enough: tasks share no columns, so one task shows what
transactions do to a task and two show that they do not interfere; three items
are the fewest with a first, a middle and a last; two workers are the fewest
that race, a third id lets one crash and return; three sources put one that
fails before, between and after others, and the synchronous limits lie below
the schema's so that each refusal happens; with a lease of one time unit
every expiry falls between any two steps of its holder; time runs up to the last
deadline of the first task (in `MCProgress`, where failures happen at time 0, to
the expiry of the leases they leave). Each bound is a CONSTANT with a comment.
Worker ids are UUIDs and only compared: where a run has no symmetry (liveness),
`Draw` always hands out one and the same of those left. Every property was also
checked against a mutated definition on which it fails.

Runs that find what the documentation denies (one property each, quoted in
`PROJECT.json`):

| run | what the code does |
|---|---|
| `MCTornResults` | `get_results` reads row and items separately: a purge in between is served as completed outcomes without properties |
| `MCWorkerDies` | one storage exception in a poll ends the worker of a process that keeps serving |
| `MCLostArtifact` | a refused registration removes, after its rollback, the file another process has meanwhile committed |
| `MCOrphanArtifact` | a version beyond 64 bits leaves its placed file behind, as does every exception between the placement and the commit but `IntegrityError` |
| `MCIsolation` | an uncertainty that cannot be served, or a value that cannot be stored, takes the outcomes of the other sources with it |

Four smaller disagreements were met while modelling and have no run: an inference
that outlasts its lease is repeated by another worker while it is still running
(`specs/003-batch-entity-extraction/research.md:12` says that leases prevent
concurrent processing; only the writes are exclusive, which `OnlyHolderWrites`
shows); `updated_at` can go back when a transaction waited for the write lock
with an older timestamp (`data-model.md:22` says that it advances); a task that
expires unfinished becomes a tombstone with a running status, where
`data-model.md:111` has a tombstone keep a terminal status; and
`EXTRACTION_MAX_TEXTS` (`README.md:27`) cannot be raised above the 10 of the
request schema.

The boundaries those runs cross are checked from both sides. `ArtifactsPresent` and
`NoOrphans` are violated. `LostOnlyToCleanup` says that an artifact is lost in no
other way than `MCLostArtifact` shows, though processes crash and any statement
or commit raises. `OrphansAreStray` says what leaves a file: a crash, or an
exception that `register` does not catch, between the placement and the commit
or during the cleanup; a duplicate, a failing commit and another registration
of the same content do not. Both hold. `ResultsAreWhole` fails with two
processes in `MCTornResults`; it holds with one, and with several as long as no task
is purged while its results are being read. `FailureIsIsolated` fails;
`RaisedFailureIsIsolated` restricts it to what `process_source_with_model` can
catch, and holds. Three theorems of section 5 say when `ArtifactsPresent` and
`NoOrphans` hold after all, and `WorkersSurvive` what alone crosses the boundary of
`MCWorkerDies`. `RoutesAgree` speaks of plain values only: with one that
`json.dumps` refuses, the synchronous route serves the batch and the task fails.

## 4. Fairness

`FairServiceSpec` assumes what the runtime gives and no more: time passes
(`Time`); the event loop runs some callback while it has one (`LoopWork`, one
weak fairness for handlers and polls together: the single worker coroutine is
always among what is ready, and clients do not ask without end); the executor
thread is scheduled and the provider returns (`Execute`: the code sets it no
time limit, so a provider that hangs is outside the claim); a process that is
down is started again and one whose lifespan is over exits. Nothing is assumed
of failures: they may happen or not, up to their bound. `EveryTaskEnds` is
checked with retention longer than the run, since a task that expires first ends
as a tombstone (section 3), and it needs a second process when a worker
loop has ended for good.

## 5. What is proved

Eight modules prove, for every set of tasks, workers, processes, owners, names,
contents, bodies and replies, every batch size, and all durations and limits. The
assumptions are those the modules declare and TLC evaluates: `SettingsAssumption`
(positive limits and durations, as `src/settings.py` enforces, and NULL is no
worker id), `ServiceAssumption`, `StoreAssumption` (finitely many processes, NULLs
are no values), `BoundaryAssumption` (the shapes of bodies and replies),
`TextAssumption` (a radix of at least 2, a digit for the seconds and one for the
fraction) and `TimesAssumption` (every time the store computes has a text: where it
had not, `datetime` would raise `OverflowError` before anything is written).

| theorem | module | what it says |
|---|---|---|
| `Invariance` | `TaskRepositoryProofs` | `[]IInv`: every task in the table is `Good` |
| `TypeCorrect` | | `[]TypeOK`: both tables typed, items and tasks have the same keys |
| `CountersCorrect` | | `[]CountersMatchItems` |
| `StatusCorrect` | | `[]StatusIsTruthful` |
| `LeaseCorrect` | | `[]LeaseMatchesStatus` |
| `ErasureCorrect` | | `[]ErasureIsComplete` |
| `LoadCorrect` | | `[]RecordsLoad` |
| `DecidedStays` | | `TerminalIsFinal`: no step changes a decided item or verdict |
| `RetentionInTime` | | `NothingLostEarly`: no step purges or deletes before the time |
| `LeasesRespected` | | `LeaseTakenOnlyExpired` |
| `ClaimedInOrder` | | `ClaimsInOrder` |
| `PurgedHaveExpired` | | `[]Elapsed`: the expiry of a purged task has passed |
| `KeepsPromise` | `TaskLifecycleProofs` | `ImplementsLifecycle`: the store implements `TaskLifecycle` |
| `TimesCompare` | `TaskTimesProofs` | `[]TimesCompareAsText`, for every radix and every width |
| `ServiceInvariance` | `TaskServiceProofs` | `[]ServiceInv`: store good, threads typed and `Orderly` |
| `ServiceTypeCorrect` | | `[]ServiceTypeOK` |
| `ServiceUsesRepository` | | `UsesRepository`: each step of the service is a transaction of `TaskRepository` or invisible to it |
| `ServiceKeepsPromise`, `ServiceClaimsInOrder` | | `ImplementsLifecycle` and `ClaimsInOrder` for the service |
| `WorkersSurvive` | | the worker of a process that is up is not dead unless a call of that process raised |
| `LeaseInvariance` | `TaskServiceLeaseProofs` | `[]LeaseInv`: what a worker knows of its leased task is true |
| `HolderFindsItem` | | `[]ItemAwaitsItsHolder` |
| `NoIdleLeases` | | `[]LeaseIsBeingWorked` |
| `OnlyHoldersWrite` | | `OnlyHolderWrites`: no step of an executor changes a row that does not name its worker |
| `LostLeasesHarmless` | | `[]LostLeaseIsHarmless`: no refused worker regains the lease on its error path |
| `LeasesGrow` | | `LeaseNeverShrinks` |
| `AnswersTrue` | `TaskServiceAnswerProofs` | while `Undisturbed`: what clients were told is true or has been succeeded |
| `AnswersNeverGoBack` | | while `Undisturbed`: `AnswersAdvance` |
| `ResultsServedWhole` | | while `Undisturbed`: `[]ResultsAreWhole` |
| `SummaryAccounts` | | `[]SummaryMatchesItems`, for any number of tasks |
| `StoreInvariance` | `ModelStoreProofs` | `[]StoreInv`: catalog, files, lock and frames fit together |
| `StoreTypeCorrect` | | `[]StoreTypeOK` |
| `CatalogWhole`, `LastActivationWins` | | `[]CatalogIsWhole`, `[]ActiveIsLastActivated` |
| `AnswersCorrect` | | `[]AnswersOwnVersion` |
| `ArtifactsKept`, `OrphansExplained`, `UploadsCleaned` | | `[]LostOnlyToCleanup`, `[]OrphansAreStray`, `[]UploadsAccountedFor` |
| `AutoAccepted` | | `AutoNeverRefused` |
| `OneProcessKeepsArtifacts` | | with one process, `[]ArtifactsPresent` |
| `NumberedKeepsArtifacts` | | with versions chosen by the store and no failing commit, `[]ArtifactsPresent` |
| `NothingOrphaned` | | without crashes, with versions within SQLite's integers and nothing but commits that raise, `[]NoOrphans` |
| `KeepsCatalog` | | `ImplementsCatalog`: the store implements `ModelCatalog` |
| `ExtractionInvariance` | `ExtractionProofs` | `[]Sound`: outcomes and rows are what the replies amount to |
| `ExtractionTypeCorrect` | | `[]ExtractionTypeOK` |
| `RequestAnswered` | | `[]AnswersMatchRequest` |
| `SameOnBothRoutes`, `FailuresIsolated` | | `[]RoutesAgree`, `[]RaisedFailureIsIsolated` |

**The task store.** The properties are not inductive one by one (the status is
derived from counters, the counters are right because each item is recorded once,
which holds because a writer needs a lease, which exists only while the task is
processing). `Good(row, its)` joins them for one task: typed row and items,
`Counted`, `Judged` (the status in terms of the counters), `Leased`, `Kempt`.
`IInv` says that every task is good. One lemma per rewrite of a task
(`NewGood`, `ClaimGood`, ... `PurgeGood`) shows that it stays good; `Rewrite`
lifts a change of one task to the tables; `StepGood` collects the transactions.
The counting rests on `Partition` (completed, failed and open items make up the
whole) and on the cardinality theorems of the library.

The step properties say what a step may do to a row, given the row before it.
`Rightful` joins them. A worker's transaction `Touches` one task, so it is
enough to look at that one (`OneTask`); a submission and the clock leave every
row as it is (`NoRowChanges`); retention needs `Elapsed` besides `IInv`: a task
is deleted only if it is purged, and then its expiry has passed. `StepRightful`
collects the transactions, and each theorem takes its part of
`[][Rightful]_vars`.

The refinement maps a task's row to the phase the promise speaks of and its
items to outcomes in which queued and processing are both pending. `ViewOf` and
`ViewChange` say what that view is and that a rewrite of one task changes the
view of this task only. Renewing a lease and claiming an item are invisible; the
others are one step of the promise each. The hard one is `FinalizeItem`: the
code derives the verdict from counters, the promise from the outcomes;
`VerdictSeen` shows that they agree, which needs `Counted` of the invariant.

**Times as texts.** Two numbers written in the same number of digits first differ
where a longer and longer quotient (`Leading`) first differs: there the smaller
number has the smaller digit (`DigitsCompare`). Two instants in different seconds
differ in the digits of the seconds; in the same second the one without a
fraction shows "+" where the other shows ".", and "+" is the smaller
(`EarlierBefore`). Nothing is before itself and no two texts are before each
other (`NotBoth`), so the comparison is decided both ways (`TextsCompare`). The
powers of the radix are a recursive function. That it has the values its
recursion states is shown by the least number for which it had not, as are all
inductions over numbers here (`LeastNumber`). `Dated` says that no column holds a
time beyond the widest text; it is inductive, since a time is a timestamp plus a
duration of the settings.

**The service.** The store's theorems are about its most general client. That the
service is one needs to know that a thread's frame is `Orderly`: the step it
takes next fits what it carries, its task was issued, its timestamp is not in
the future. Then every step is a transaction with arguments `Next` allows, and
all theorems above hold of the service. `Survives` says what ends a worker: the
frame it awaits returns "raised", or its poll raises, only after a call of its own
process did. A lost lease makes the executor give the task up and return.

**Leases.** A lease names one worker, worker ids are drawn once, and a step of
one worker leaves rows leased by others alone (`LeasesMove`). So what an executor
knows of the task it has leased (`Knows`: its item is the next undecided one and
in processing, a lease it was refused is lost for good, how far its lease runs
from its timestamp) stays true until it moves or loses the lease. That is the
inductive part; three properties are read off it. `OnlyHoldersWrite` looks at the
executor's transactions one by one (`ExecWrites`), and `LeasesGrow` needs `Bounded`
(no lease runs further than one period from now) and `LeasesMove`.

**Answers.** `Truth(a, o, t)` says how the last answer about a task relates to
the task now: counters only grow, a final answer stays (`FinalStays`), "expired"
means purged, "missing" means gone for good. A step of the store keeps an answer
true (`Onward`), and a request under way carries a row that was true when it was
read (`RequestTrue`). A results request reads twice. Between its reads another
process may purge the task, and does in `MCTornResults`; so the theorems assume that
no step does (`[][Undisturbed]_allVars`). That is the only assumption about several
processes, and it is met when there is one, or nobody asks for results (`Calm`).

**The summary.** An aggregate is a fold over the running tasks of an owner. The
fold of the library is a recursive function on the subsets of its domain
(`SumIsSums`). That this function exists is shown for sets of at most k elements
by the least k (`SumsExist`), that the sum of a sum of columns is the sum of their
sums by a smallest counterexample (`SumLinear`). The theorem then adds up, over
the tasks, what `Counted` says of each. Only finitely many tasks are ever stored
(`AlwaysFinite`: at most one more with each step).

**The model store.** The write lock belongs to the one registration between
`BEGIN IMMEDIATE` and its commit or rollback, so the version it has read as the
largest is still the largest when it inserts. Rows are never removed, which keeps
late reads right and makes the refinement a matter of the two writing steps. The
file part (`KeptAt`) says that the file a registration relies on is there until
its commit unless a cleanup has undercut it; the uploads are counted over the
processes that have one. What the store does not promise in general it keeps
under conditions that a deployment can meet. With one process, an artifact that a
registration did not know stays unknown until it commits (`Solo`). With versions
chosen by the store and no failing commit, no registration is refused after it
has placed its file (`Numbered`). In both cases nothing is ever undercut, and
`LostOnlyToCleanup` becomes `ArtifactsPresent`. Without crashes, without versions
beyond 64 bits and while nothing but a commit raises, nothing strays, and
`OrphansAreStray` becomes `NoOrphans`.

**Extraction.** A call's outcomes are `Processed` of the replies so far, in
order; a row is such an outcome, or was given up, and then some outcome could not
be stored (`RowSound`). The other route's replies only add to what is known
(`RepliesStay`).

Only model-checked: the liveness properties `EveryTaskEnds` and
`ShutdownCompletes` (fairness and ENABLED are out of the prover's reach).

## 6. What is not modelled

- Durability below the process: whether a renamed file or a commit survives a
  loss of power depends on the file system; the directory is not synchronised.
- An inference without end. The code sets it no time limit; both liveness
  properties assume that it returns. Nor can bounded time show whether two
  processes whose every inference outlasts the lease would take a task from each
  other for ever; the runs show that the writes stay exclusive meanwhile.
- A repeated submission whose response was lost: nothing in the code or its
  contract identifies it with the first.
- Durations so long that adding them overflows `datetime`.
- The wall clock as such: it only advances. That a clock set back does no harm to
  rows is covered, since a transaction of `TaskRepository` may use any timestamp
  from 0 to the present.
- The two legacy routes with fixed answers, listings and OpenAPI, settings
  parsing, the validators of the model routes, and the stubs behind the provider,
  estimator and catalog protocols: pure, and without a property of their own.
- Git hooks, the specification tooling and `build/lib` are not part of the
  program.

## 7. Plan

Done: the task store with its life cycle, the service, the model store, the
extraction request, and the proofs of section 5. What would come next:

- Listings and downloads of model versions as requests with steps of their own,
  against a file that a refused registration removes meanwhile.
