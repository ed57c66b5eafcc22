--------------------------- MODULE TaskRepository ---------------------------
(* The durable task store, src/src/task_repository.py: the two SQLite tables  *)
(* extraction_tasks and extraction_task_items and every transaction on them.  *)
(* SQLite serialises write transactions (BEGIN IMMEDIATE), so one transaction *)
(* is one action; its arguments are the method's.  In particular `now' is an  *)
(* argument: callers read the clock BEFORE the transaction waits for the      *)
(* write lock, so a transaction may run with a timestamp of the past.         *)
(* Next is the most general client: any worker, any task, any such timestamp. *)
(* TaskService composes the same actions in the order the service calls them. *)
(* Definitions marked "Fault" are not the code: each is the definition that   *)
(* follows with a plausible mistake, on which a property is seen to fail.     *)
EXTENDS Integers, FiniteSets

CONSTANTS TaskId,            \* the uuid4 values submissions draw
          WorkerId,          \* the uuid4 values worker loops draw
          OwnerId,           \* authenticated subjects
          NoWorker,          \* NULL in lease_owner
          MaxItems,          \* ASYNC_EXTRACTION_MAX_TEXTS
          RetentionSeconds, TombstoneSeconds, LeaseSeconds,
          MaxTime            \* bound: the clock stops here

ASSUME SettingsAssumption ==
    /\ MaxItems \in Nat \ {0}
    /\ RetentionSeconds \in Nat \ {0}
    /\ TombstoneSeconds \in Nat \ {0}
    /\ LeaseSeconds \in Nat \ {0}
    /\ MaxTime \in Nat
    /\ NoWorker \notin WorkerId

VARIABLES tasks,    \* extraction_tasks: task_id -> row, for the rows present
          items,    \* extraction_task_items: task_id -> position -> row
          issued,   \* every task_id ever drawn (uuid4 never repeats one)
          clock     \* the time

vars == <<tasks, items, issued, clock>>

----------------------------------------------------------------------------
(* Rows.  Times are whole seconds; NoTime is NULL.  JSON and text columns are *)
(* kept as "is not NULL": payload stands for criteria_json and model_json.    *)

NoTime == -1

Running   == {"queued", "processing"}
Terminal  == {"completed", "partially_completed", "failed"}
ItemFinal == {"completed", "failed"}

TaskRow == [owner : OwnerId, status : Running \cup Terminal, payload : BOOLEAN,
            accepted : 1..MaxItems, processed : Nat, successful : Nat,
            failed : Nat, task_error : BOOLEAN,
            lease_owner : WorkerId \cup {NoWorker},
            lease_expires_at : Nat \cup {NoTime},
            created_at : Nat, updated_at : Nat, expires_at : Nat,
            completed_at : Nat \cup {NoTime}, purged : BOOLEAN]

ItemRow == [status : Running \cup ItemFinal, text : BOOLEAN,
            outcome : BOOLEAN, error : BOOLEAN]

NewTask(o, n, now) ==
    [owner |-> o, status |-> "queued", payload |-> TRUE,
     accepted |-> n, processed |-> 0, successful |-> 0,
     failed |-> 0, task_error |-> FALSE,
     lease_owner |-> NoWorker, lease_expires_at |-> NoTime,
     created_at |-> now, updated_at |-> now,
     expires_at |-> now + RetentionSeconds,
     completed_at |-> NoTime, purged |-> FALSE]

NewItem == [status |-> "queued", text |-> TRUE, outcome |-> FALSE, error |-> FALSE]

----------------------------------------------------------------------------
(* The WHERE clauses.                                                         *)

\* lease_owner = ? of a row that exists; NULL equals no worker.
HoldsLease(t, w) == t \in DOMAIN tasks /\ tasks[t].lease_owner = w

\* What finalize_item and fail_task require of their caller.
Mutable(t, w) == HoldsLease(t, w) /\ tasks[t].status \notin Terminal

\* What renew_lease requires: the owner, not an unexpired lease.
Renewable(t, w) == HoldsLease(t, w) /\ tasks[t].status \in Running

LeaseActive(t, w, now) ==
    /\ HoldsLease(t, w)
    /\ tasks[t].lease_expires_at > now
    /\ tasks[t].status = "processing"
    /\ ~tasks[t].purged

\* (Faults: takeover without looking at the lease; no takeover at all; no
\* "status IN ('queued', 'processing')".)
Claimable_Finished(t, now) ==
    /\ ~tasks[t].purged /\ tasks[t].expires_at > now
    /\ tasks[t].lease_owner = NoWorker \/ tasks[t].lease_expires_at <= now

Claimable_Queued(t, now) ==
    tasks[t].status = "queued" /\ ~tasks[t].purged /\ tasks[t].expires_at > now

Claimable_AnyLease(t, now) ==
    tasks[t].status \in Running /\ ~tasks[t].purged /\ tasks[t].expires_at > now

Claimable(t, now) ==
    /\ tasks[t].status \in Running
    /\ ~tasks[t].purged
    /\ tasks[t].expires_at > now
    /\ tasks[t].lease_owner = NoWorker \/ tasks[t].lease_expires_at <= now

\* (Fault: no ORDER BY.)
Oldest_Any(now) == {t \in DOMAIN tasks : Claimable(t, now)}

\* ORDER BY created_at, task_id LIMIT 1: among tasks accepted at the same
\* time the random identifiers decide, so any of them may come first.
Oldest(now) ==
    {t \in DOMAIN tasks :
        /\ Claimable(t, now)
        /\ \A u \in DOMAIN tasks :
              Claimable(u, now) => tasks[t].created_at <= tasks[u].created_at}

Undecided(t) == {p \in DOMAIN items[t] : items[t][p].status \in Running}

\* ORDER BY position LIMIT 1
IsNextItem(t, p) == p \in Undecided(t) /\ \A q \in Undecided(t) : p <= q

ToPurge(now) == {t \in DOMAIN tasks : tasks[t].expires_at <= now /\ ~tasks[t].purged}

\* (Fault: the tombstone period is forgotten.)
ToDelete_AtExpiry(now) == {t \in DOMAIN tasks : tasks[t].expires_at <= now}

\* What the DELETE sees, after the purge of the same transaction.
ToDelete(now) ==
    {t \in DOMAIN tasks : /\ tasks[t].purged \/ t \in ToPurge(now)
                          /\ tasks[t].expires_at <= now - TombstoneSeconds}

\* (Faults: one success is a success; the last item is not waited for.)
DerivedStatus_AnySuccess(processed, successful, accepted) ==
    IF processed # accepted THEN "processing"
    ELSE IF successful > 0 THEN "completed"
    ELSE "failed"

DerivedStatus_Early(processed, successful, accepted) ==
    IF processed + 1 < accepted THEN "processing"
    ELSE IF successful = accepted THEN "completed"
    ELSE IF successful > 0 THEN "partially_completed"
    ELSE "failed"

\* The status finalize_item derives from the counters it is about to write.
DerivedStatus(processed, successful, accepted) ==
    IF processed # accepted THEN "processing"
    ELSE IF successful = accepted THEN "completed"
    ELSE IF successful > 0 THEN "partially_completed"
    ELSE "failed"

----------------------------------------------------------------------------
(* The transactions.                                                          *)

CreateTask(t, o, n, now) ==
    /\ t \notin issued
    /\ issued' = issued \cup {t}
    /\ tasks' = [u \in DOMAIN tasks \cup {t} |->
                    IF u = t THEN NewTask(o, n, now) ELSE tasks[u]]
    /\ items' = [u \in DOMAIN items \cup {t} |->
                    IF u = t THEN [p \in 0..n - 1 |-> NewItem] ELSE items[u]]
    /\ UNCHANGED clock

Claimed(row, w, now) ==
    [row EXCEPT !.status = "processing", !.lease_owner = w,
                !.lease_expires_at = now + LeaseSeconds, !.updated_at = now]

ClaimTask(t, w, now) ==
    /\ t \in Oldest(now)
    /\ tasks' = [tasks EXCEPT ![t] = Claimed(@, w, now)]
    /\ UNCHANGED <<items, issued, clock>>

RenewLease(t, w, now) ==
    /\ Renewable(t, w)
    /\ tasks' = [tasks EXCEPT ![t].lease_expires_at = now + LeaseSeconds,
                              ![t].updated_at = now]
    /\ UNCHANGED <<items, issued, clock>>

ClaimNextItem(t, w, p, now) ==
    /\ LeaseActive(t, w, now)
    /\ IsNextItem(t, p)
    /\ items' = [items EXCEPT ![t][p].status = "processing"]
    /\ UNCHANGED <<tasks, issued, clock>>

\* (Fault: the terminal row keeps its lease.)
Advanced_KeepsLease(row, r, now) ==
    LET processed  == row.processed + 1
        successful == row.successful + (IF r = "completed" THEN 1 ELSE 0)
    IN  [row EXCEPT !.status = DerivedStatus(processed, successful, row.accepted),
                    !.processed = processed, !.successful = successful,
                    !.failed = @ + (IF r = "failed" THEN 1 ELSE 0),
                    !.updated_at = now, !.completed_at = now]

\* The row finalize_item writes for a task one of whose items ended as r.
Advanced(row, r, now) ==
    LET processed  == row.processed + 1
        successful == row.successful + (IF r = "completed" THEN 1 ELSE 0)
        status     == DerivedStatus(processed, successful, row.accepted)
        terminal   == processed = row.accepted
    IN  [row EXCEPT !.status = status, !.processed = processed,
                    !.successful = successful,
                    !.failed = @ + (IF r = "failed" THEN 1 ELSE 0),
                    !.updated_at = now,
                    !.completed_at = IF terminal THEN now ELSE NoTime,
                    !.lease_owner = IF terminal THEN NoWorker ELSE @,
                    !.lease_expires_at = IF terminal THEN NoTime ELSE @]

\* (Faults: an item already decided is decided again; whoever has the lease.)
FinalizeItem_Again(t, w, p, r, now) ==
    /\ Mutable(t, w)
    /\ items' = [items EXCEPT ![t][p].status = r, ![t][p].outcome = (r = "completed"),
                              ![t][p].error = (r = "failed")]
    /\ tasks' = [tasks EXCEPT ![t] = Advanced(@, r, now)]
    /\ UNCHANGED <<issued, clock>>

FinalizeItem_AnyHolder(t, w, p, r, now) ==
    /\ t \in DOMAIN tasks /\ tasks[t].status \notin Terminal
    /\ p \in Undecided(t)
    /\ items' = [items EXCEPT ![t][p].status = r, ![t][p].outcome = (r = "completed"),
                              ![t][p].error = (r = "failed")]
    /\ tasks' = [tasks EXCEPT ![t] = Advanced(@, r, now)]
    /\ UNCHANGED <<issued, clock>>

FinalizeItem(t, w, p, r, now) ==
    /\ Mutable(t, w)
    /\ p \in DOMAIN items[t]
    /\ items[t][p].status \notin ItemFinal
    /\ items' = [items EXCEPT ![t][p].status = r, ![t][p].outcome = (r = "completed"),
                              ![t][p].error = (r = "failed")]
    /\ tasks' = [tasks EXCEPT ![t] = Advanced(@, r, now)]
    /\ UNCHANGED <<issued, clock>>

\* (Faults: the recorded successes are forgotten; no completion time.)
GivenUp_All(row, now) ==
    [row EXCEPT !.status = "failed", !.processed = row.accepted,
                !.successful = 0, !.failed = row.accepted,
                !.task_error = TRUE, !.updated_at = now, !.completed_at = now,
                !.lease_owner = NoWorker, !.lease_expires_at = NoTime]

GivenUp_NoCompletion(row, now) ==
    [row EXCEPT !.status = "failed", !.processed = row.accepted,
                !.failed = @ + (row.accepted - row.processed),
                !.task_error = TRUE, !.updated_at = now,
                !.lease_owner = NoWorker, !.lease_expires_at = NoTime]

GivenUp(row, now) ==
    [row EXCEPT !.status = "failed", !.processed = row.accepted,
                !.failed = @ + (row.accepted - row.processed),
                !.task_error = TRUE, !.updated_at = now, !.completed_at = now,
                !.lease_owner = NoWorker, !.lease_expires_at = NoTime]

\* (Faults: an UPDATE without "AND status IN ..."; no look at the lease.)
FailTask_DecidedToo(t, w, now) ==
    /\ Mutable(t, w)
    /\ items' = [items EXCEPT ![t] = [p \in DOMAIN items[t] |->
                    [items[t][p] EXCEPT !.status = "failed", !.error = TRUE]]]
    /\ tasks' = [tasks EXCEPT ![t] = GivenUp(@, now)]
    /\ UNCHANGED <<issued, clock>>

FailTask_AnyHolder(t, w, now) ==
    /\ t \in DOMAIN tasks /\ tasks[t].status \notin Terminal
    /\ items' = [items EXCEPT ![t] = [p \in DOMAIN items[t] |->
                    IF p \in Undecided(t)
                    THEN [items[t][p] EXCEPT !.status = "failed", !.error = TRUE]
                    ELSE items[t][p]]]
    /\ tasks' = [tasks EXCEPT ![t] = GivenUp(@, now)]
    /\ UNCHANGED <<issued, clock>>

FailTask(t, w, now) ==
    /\ Mutable(t, w)
    /\ items' = [items EXCEPT ![t] = [p \in DOMAIN items[t] |->
                    IF p \in Undecided(t)
                    THEN [items[t][p] EXCEPT !.status = "failed", !.error = TRUE]
                    ELSE items[t][p]]]
    /\ tasks' = [tasks EXCEPT ![t] = GivenUp(@, now)]
    /\ UNCHANGED <<issued, clock>>

Erased(row) == [row EXCEPT !.text = FALSE, !.outcome = FALSE, !.error = FALSE]

\* (Fault: a purge that leaves the worker its lease.)
Purged_KeepsLease(row, now) ==
    [row EXCEPT !.payload = FALSE, !.task_error = FALSE, !.purged = TRUE, !.updated_at = now]

Purged(row, now) ==
    [row EXCEPT !.payload = FALSE, !.task_error = FALSE,
                !.lease_owner = NoWorker, !.lease_expires_at = NoTime,
                !.purged = TRUE, !.updated_at = now]

\* (Fault: no PRAGMA foreign_keys, so no cascade.)
MaintainRetention_NoCascade(now) ==
    /\ tasks' = [t \in DOMAIN tasks \ ToDelete(now) |->
                    IF t \in ToPurge(now) THEN Purged(tasks[t], now) ELSE tasks[t]]
    /\ items' = [t \in DOMAIN items |-> IF t \in ToPurge(now)
                                        THEN [p \in DOMAIN items[t] |-> Erased(items[t][p])]
                                        ELSE items[t]]
    /\ UNCHANGED <<issued, clock>>

\* One transaction purges what has expired, its items first, and then deletes
\* the tombstones whose period is over; ON DELETE CASCADE takes their items.
MaintainRetention(now) ==
    LET kept == DOMAIN tasks \ ToDelete(now)
    IN  /\ tasks' = [t \in kept |-> IF t \in ToPurge(now) THEN Purged(tasks[t], now)
                                                          ELSE tasks[t]]
        /\ items' = [t \in kept |-> IF t \in ToPurge(now)
                                    THEN [p \in DOMAIN items[t] |-> Erased(items[t][p])]
                                    ELSE items[t]]
        /\ UNCHANGED <<issued, clock>>

Tick ==
    /\ clock < MaxTime
    /\ clock' = clock + 1
    /\ UNCHANGED <<tasks, items, issued>>

----------------------------------------------------------------------------

Init ==
    /\ tasks = [t \in {} |-> NoTime]
    /\ items = [t \in {} |-> NoTime]
    /\ issued = {}
    /\ clock = 0

Submission(now) == \E t \in TaskId, o \in OwnerId, n \in 1..MaxItems : CreateTask(t, o, n, now)

Work(w, t, now) ==
    \/ ClaimTask(t, w, now)
    \/ RenewLease(t, w, now)
    \/ \E p \in DOMAIN items[t] : ClaimNextItem(t, w, p, now)
    \/ \E p \in DOMAIN items[t], r \in ItemFinal : FinalizeItem(t, w, p, r, now)
    \/ FailTask(t, w, now)

Next ==
    \/ Tick
    \/ \E now \in 0..clock : \/ Submission(now)
                             \/ \E w \in WorkerId, t \in DOMAIN tasks : Work(w, t, now)
                             \/ MaintainRetention(now)

Spec == Init /\ [][Next]_vars

----------------------------------------------------------------------------
(* Properties.                                                                *)

\* The columns hold what the schema and the code put there, and the item rows
\* of a task are exactly the accepted positions.
TypeOK ==
    /\ issued \subseteq TaskId
    /\ DOMAIN tasks \subseteq issued
    /\ tasks \in [DOMAIN tasks -> TaskRow]
    /\ items = [t \in DOMAIN tasks |-> items[t]]
    /\ \A t \in DOMAIN tasks : items[t] \in [0..tasks[t].accepted - 1 -> ItemRow]
    /\ clock \in Nat

WithStatus(t, s) == {p \in DOMAIN items[t] : items[t][p].status = s}

\* The counters finalize_item and fail_task maintain by increments always equal
\* the number of items really in each state, whatever workers raced for them.
CountersMatchItems ==
    \A t \in DOMAIN tasks :
        /\ tasks[t].successful = Cardinality(WithStatus(t, "completed"))
        /\ tasks[t].failed = Cardinality(WithStatus(t, "failed"))
        /\ tasks[t].processed = tasks[t].successful + tasks[t].failed

\* A terminal status is the truth about the items: every item is decided, and
\* the verdict is theirs unless a task error failed it (fail_task).  A task
\* that is not terminal has an item left to decide.
StatusIsTruthful ==
    \A t \in DOMAIN tasks :
        LET done == WithStatus(t, "completed")
            all  == DOMAIN items[t]
        IN  CASE tasks[t].status \in Running -> Undecided(t) # {}
              [] tasks[t].status = "completed" -> done = all
              [] tasks[t].status = "partially_completed" ->
                    Undecided(t) = {} /\ done # {} /\ done # all
              [] tasks[t].status = "failed" ->
                    /\ Undecided(t) = {}
                    /\ done # all
                    /\ done # {} => tasks[t].task_error \/ tasks[t].purged

\* No running task is stranded: either it waits in the queue untouched, or it
\* is processing under a lease with an expiry, from which claim_task can take
\* it again.  Terminal and purged tasks are leased to nobody, which is what
\* keeps finalize_item and fail_task away from them.
LeaseMatchesStatus ==
    \A t \in DOMAIN tasks :
        /\ tasks[t].lease_owner # NoWorker
              <=> tasks[t].status = "processing" /\ ~tasks[t].purged
        /\ tasks[t].lease_owner = NoWorker <=> tasks[t].lease_expires_at = NoTime
        /\ tasks[t].status = "queued" =>
              \A p \in DOMAIN items[t] : items[t][p].status = "queued"

\* Retention erases everything sensitive or nothing: a purged task keeps no
\* text, outcome, error or snapshot, whoever was working on it, and one that is
\* not purged has every text and exactly one of outcome and error per decision.
ErasureIsComplete ==
    \A t \in DOMAIN tasks :
        IF tasks[t].purged
        THEN /\ ~tasks[t].payload /\ ~tasks[t].task_error
             /\ \A p \in DOMAIN items[t] : items[t][p] = Erased(items[t][p])
        ELSE /\ tasks[t].payload
             /\ \A p \in DOMAIN items[t] :
                   /\ items[t][p].text
                   /\ items[t][p].outcome <=> items[t][p].status = "completed"
                   /\ items[t][p].error <=> items[t][p].status = "failed"

\* ExtractionTaskRecord.__post_init__ (src/src/models.py) refuses to load a row
\* with inconsistent progress, and would make every read of the task an error.
\* No sequence of transactions writes such a row.
Loadable(row) ==
    /\ row.accepted >= 1
    /\ row.successful + row.failed = row.processed
    /\ row.processed \in 0..row.accepted
    /\ row.status \in Terminal => /\ row.processed = row.accepted
                                  /\ row.completed_at # NoTime

RecordsLoad == \A t \in DOMAIN tasks : Loadable(tasks[t])

Kept == DOMAIN tasks \cap DOMAIN tasks'

Decided(t) == DOMAIN items[t] \ Undecided(t)

StaysDecided(t) ==
    /\ \A p \in Decided(t) : /\ items'[t][p].status = items[t][p].status
                             /\ ~tasks'[t].purged => items'[t][p] = items[t][p]
    /\ tasks[t].status \in Terminal =>
          \A c \in {"status", "processed", "successful", "failed", "completed_at"} :
              tasks'[t][c] = tasks[t][c]

\* What has been decided stays decided: no step changes the status of a decided
\* item, or the verdict, the counters or the completion time of a terminal task;
\* only the purge takes a recorded outcome away.
TerminalIsFinal == [][\A t \in Kept : StaysDecided(t)]_vars

LostInTime(t) ==
    /\ t \in Kept /\ tasks'[t].purged /\ ~tasks[t].purged => clock >= tasks[t].expires_at
    /\ t \notin DOMAIN tasks' => clock >= tasks[t].expires_at + TombstoneSeconds

\* Nothing is lost early, though retention may run with an old timestamp: a
\* payload is erased only once expires_at has passed, and a row disappears only
\* when its tombstone period is over as well.
NothingLostEarly == [][\A t \in DOMAIN tasks : LostInTime(t)]_vars

PassedOnExpiry(t) ==
    LET old == tasks[t].lease_owner
        new == tasks'[t].lease_owner
    IN  old # NoWorker /\ new # NoWorker /\ old # new =>
            clock >= tasks[t].lease_expires_at

\* A lease passes from one worker to another only after it has expired.
LeaseTakenOnlyExpired == [][\A t \in Kept : PassedOnExpiry(t)]_vars

BegunInTurn(t, u) ==
    /\ tasks[t].status = "queued" /\ tasks'[t].status = "processing"
    /\ tasks[u].status = "queued" /\ clock < tasks[u].expires_at
    => tasks[t].created_at <= tasks[u].created_at

\* Work starts in the order of acceptance: a task leaves the queue only when no
\* task accepted before it is still waiting there within its retention.
ClaimsInOrder == [][\A t, u \in Kept : BegunInTurn(t, u)]_vars

----------------------------------------------------------------------------
(* The rows implement the promise of TaskLifecycle.                           *)

PhaseOf(t) ==
    IF t \notin issued THEN "unknown"
    ELSE IF t \notin DOMAIN tasks THEN "forgotten"
    ELSE IF tasks[t].purged THEN "expired"
    ELSE tasks[t].status

OutcomeOf(t) ==
    IF PhaseOf(t) \in {"unknown", "forgotten", "expired"} THEN [p \in {} |-> "pending"]
    ELSE [p \in DOMAIN items[t] |-> IF p \in Undecided(t) THEN "pending"
                                                         ELSE items[t][p].status]

Lifecycle == INSTANCE TaskLifecycle WITH phase <- [t \in TaskId |-> PhaseOf(t)],
                                         outcome <- [t \in TaskId |-> OutcomeOf(t)]

\* Every transaction of the repository is a step of the promised life cycle, or
\* invisible to it (renewals, item claims, takeovers).
ImplementsLifecycle == Lifecycle!Spec
=============================================================================
