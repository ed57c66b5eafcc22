----------------------------- MODULE TaskService -----------------------------
(* The processes that work on one task store: src/src/task_service.py, the    *)
(* task routes and the lifespan of src/src/app.py.                            *)
(*                                                                            *)
(* Each process has two threads.  Its event loop runs one callback at a time: *)
(* a request handler, or one poll of the worker coroutine.  Both are `async'  *)
(* functions with synchronous bodies, so nothing else of that loop runs       *)
(* between their transactions.  Its executor thread (max_workers=1) runs      *)
(* _process_claimed_task.  Transactions are TaskRepository's; between two of  *)
(* them every other thread, of this process or another, may run its own.      *)
(*                                                                            *)
(* A thread that reads the clock and then runs a transaction may have waited  *)
(* in between: `since' is the time of the thread's previous step, and the     *)
(* timestamp it uses is any time from then to the time it commits.            *)
EXTENDS TaskRepository, FiniteSetsExt

CONSTANTS Process,     \* the processes that share the database file
          NoTask,      \* no task in particular
          Draw(_),     \* bound: which of the ids not drawn yet a worker may draw
          Jobs,        \* bound: the kinds of request clients send
          Faulty,      \* bound: the processes in which calls may raise
          MaxFaults,   \* bound: how many calls raise
          FailBefore,  \* bound: no call raises and no process crashes from then on
          Stops        \* BOOLEAN: whether processes may be asked to shut down

ASSUME ServiceAssumption ==
    /\ NoTask \notin TaskId
    /\ \A S \in SUBSET WorkerId : Draw(S) \subseteq S /\ (S # {} => Draw(S) # {})
    /\ Jobs \subseteq {"submit", "status", "results", "summary"}
    /\ Faulty \subseteq Process
    /\ MaxFaults \in Nat
    /\ FailBefore \in Nat
    /\ Stops \in BOOLEAN

VARIABLES proc,    \* proc[p]: "down", "up" or "stopping" (stop_event is set)
          worker,  \* worker[p]: the worker_loop coroutine
          loop,    \* loop[p]: the callback on the event loop
          exec,    \* exec[p]: _process_claimed_task on the executor thread
          drawn,   \* the worker ids drawn so far
          faults,  \* how many calls have raised
          seen     \* seen[o][t]: the last answer owner o had about task t

threads == <<proc, worker, loop, exec, drawn>>
allVars == <<tasks, items, issued, clock, threads, faults, seen>>

----------------------------------------------------------------------------

\* worker_loop awaits either the stop event or poll timeout ("waiting"), or the
\* executor ("busy"); it has ended, or an exception has.
Coroutine == [id : WorkerId \cup {NoWorker},
              state : {"waiting", "busy", "ended", "dead"}]

\* What an answer tells its client: where the task is, its progress and, once
\* the results were served, what each source came out as.
Answer == [code : {"none", "running", "final", "expired", "missing"},
           processed : Nat, successful : Nat, results : BOOLEAN,
           body : UNION {[0..n - 1 -> {"completed", "failed", "blank"}] : n \in 0..MaxItems}]

NoBody   == [p \in {} |-> "blank"]
NoAnswer == [code |-> "none", processed |-> 0, successful |-> 0,
             results |-> FALSE, body |-> NoBody]

\* The callback on the loop: which, what it does next, for whom and which task.
LoopStep == {"maintain", "claim", "read", "items", "create", "reload", "none"}
Callback == [job : {"none", "poll", "submit", "status", "results", "summary"},
             next : LoopStep, owner : OwnerId \cup {NoWorker},
             task : TaskId \cup {NoTask}, since : Nat, row : Answer]

Idle == [job |-> "none", next |-> "none", owner |-> NoWorker, task |-> NoTask,
         since |-> 0, row |-> NoAnswer]

\* The executor's frame: `now' is shared by renew_lease and claim_next_item.  In
\* the `except' block it is "refused" if the exception is the repository's answer
\* to a worker without a lease (RuntimeError, ValueError), "fail" if it is another.
Frame == [next : {"none", "renew", "claim_item", "infer", "finalize", "refused", "fail",
                  "returned", "raised"},
          task : TaskId \cup {NoTask}, position : 0..MaxItems,
          result : ItemFinal \cup {"none"}, since : Nat]

NoFrame == [next |-> "none", task |-> NoTask, position |-> 0,
            result |-> "none", since |-> 0]

ServiceTypeOK ==
    /\ TypeOK
    /\ proc \in [Process -> {"down", "up", "stopping"}]
    /\ worker \in [Process -> Coroutine]
    /\ loop \in [Process -> Callback]
    /\ exec \in [Process -> Frame]
    /\ drawn \subseteq WorkerId
    /\ faults \in 0..MaxFaults
    /\ seen \in [OwnerId -> [TaskId -> Answer]]

ServiceInit ==
    /\ Init
    /\ proc = [p \in Process |-> "down"]
    /\ worker = [p \in Process |-> [id |-> NoWorker, state |-> "ended"]]
    /\ loop = [p \in Process |-> Idle]
    /\ exec = [p \in Process |-> NoFrame]
    /\ drawn = {}
    /\ faults = 0
    /\ seen = [o \in OwnerId |-> [t \in TaskId |-> NoAnswer]]

storeUnchanged == UNCHANGED <<tasks, items, issued, clock>>

----------------------------------------------------------------------------
(* The event loop.                                                            *)

LoopIsFree(p) == proc[p] # "down" /\ loop[p].job = "none"

\* A client has one request at a time in flight.
Waiting(o) == \E p \in Process : loop[p].owner = o

\* Bound: a task id is left for every submission on its way.
CanSubmit == Cardinality({p \in Process : loop[p].next = "create"})
                < Cardinality(TaskId \ issued)

\* A request reaches a process.  It concerns a task its client was told of.
Arrive(p, o, job, t) ==
    /\ proc[p] = "up"
    /\ LoopIsFree(p)
    /\ ~Waiting(o)
    /\ job = "submit" => CanSubmit
    /\ IF job \in {"status", "results"} THEN t \in TaskId /\ seen[o][t].code # "none"
                                          ELSE t = NoTask
    /\ loop' = [loop EXCEPT ![p] =
                  [Idle EXCEPT !.job = job, !.owner = o, !.task = t, !.since = clock,
                               !.next = IF job = "submit" THEN "create" ELSE "maintain"]]
    /\ storeUnchanged
    /\ UNCHANGED <<proc, worker, exec, drawn, faults, seen>>

\* (Fault: an empty batch is accepted.)
SubmitCreate_Empty(p) ==
    /\ loop[p].next = "create"
    /\ \E t \in TaskId, n \in 0..MaxItems, now \in loop[p].since..clock :
          /\ CreateTask(t, loop[p].owner, n, now)
          /\ loop' = [loop EXCEPT ![p] = [@ EXCEPT !.next = "reload", !.task = t, !.since = 0]]
    /\ UNCHANGED <<proc, worker, exec, drawn, faults, seen>>

\* submit: the clock is read, then create_task commits the rows.
SubmitCreate(p) ==
    /\ loop[p].next = "create"
    /\ \E t \in TaskId, n \in 1..MaxItems, now \in loop[p].since..clock :
          /\ CreateTask(t, loop[p].owner, n, now)
          /\ loop' = [loop EXCEPT ![p] = [@ EXCEPT !.next = "reload", !.task = t, !.since = 0]]
    /\ UNCHANGED <<proc, worker, exec, drawn, faults, seen>>

\* Every request but a submission, and every poll, maintains retention first.
Maintain(p) ==
    /\ loop[p].next = "maintain"
    /\ \E now \in loop[p].since..clock : MaintainRetention(now)
    /\ loop' = [loop EXCEPT ![p] = IF @.job = "poll"
                                   THEN [@ EXCEPT !.next = "claim", !.since = clock]
                                   ELSE [@ EXCEPT !.next = "read", !.since = 0]]
    /\ UNCHANGED <<proc, worker, exec, drawn, faults, seen>>

\* The row a SELECT scoped to the owner finds.
Visible(o, t) == t \in DOMAIN tasks /\ tasks[t].owner = o

\* The status in the body of an answer.
Reported(t) == IF tasks[t].status \in Terminal THEN "final" ELSE "running"

\* (Fault: is_purged is not looked at.)
Located_Purged(o, t) == IF Visible(o, t) THEN Reported(t) ELSE "missing"

Located(o, t) ==
    IF ~Visible(o, t) THEN "missing"
    ELSE IF tasks[t].purged THEN "expired"
    ELSE Reported(t)

\* The answer carries progress; an error answer repeats what the client knew.
AnswerOf(o, t) ==
    IF Located(o, t) \in {"missing", "expired"}
    THEN [seen[o][t] EXCEPT !.code = Located(o, t)]
    ELSE [seen[o][t] EXCEPT !.code = Located(o, t), !.processed = tasks[t].processed,
                            !.successful = tasks[t].successful]

Respond(p, answer) ==
    /\ seen' = [seen EXCEPT ![loop[p].owner][loop[p].task] = answer]
    /\ loop' = [loop EXCEPT ![p] = Idle]

\* get_status: 200 with status and progress, 404 or 410.
StatusRead(p) ==
    /\ loop[p].job = "status" /\ loop[p].next = "read"
    /\ Respond(p, AnswerOf(loop[p].owner, loop[p].task))
    /\ storeUnchanged
    /\ UNCHANGED <<proc, worker, exec, drawn, faults>>

\* create_task reloads what it committed: 202 with the status and progress the row
\* has by now (it may be final, or purged, which is not looked at), or
\* RuntimeError (500) when there is none.
SubmitReload(p) ==
    /\ loop[p].next = "reload"
    /\ LET o == loop[p].owner
           t == loop[p].task
       IN  IF Visible(o, t)
           THEN Respond(p, [NoAnswer EXCEPT !.code = Reported(t),
                                            !.processed = tasks[t].processed,
                                            !.successful = tasks[t].successful])
           ELSE loop' = [loop EXCEPT ![p] = Idle] /\ UNCHANGED seen
    /\ storeUnchanged
    /\ UNCHANGED <<proc, worker, exec, drawn, faults>>

\* get_results, first SELECT: 404, 410 and 409 (pending) answer at once.
ResultsRead(p) ==
    /\ loop[p].job = "results" /\ loop[p].next = "read"
    /\ LET row == AnswerOf(loop[p].owner, loop[p].task)
       IN  IF row.code = "final"
           THEN /\ loop' = [loop EXCEPT ![p] = [@ EXCEPT !.next = "items", !.row = row]]
                /\ UNCHANGED seen
           ELSE Respond(p, row)
    /\ storeUnchanged
    /\ UNCHANGED <<proc, worker, exec, drawn, faults>>

\* _restore_outcome: an item without error is COMPLETED, with whatever
\* properties it has; "blank" is COMPLETED with none of those requested.
Restored(item) == IF item.error THEN "failed" ELSE IF item.outcome THEN "completed" ELSE "blank"

\* get_results, second SELECT, in a read of its own: the items there are now.
ResultsItems(p) ==
    /\ loop[p].next = "items"
    /\ LET t    == loop[p].task
           body == IF t \in DOMAIN items
                   THEN [q \in DOMAIN items[t] |-> Restored(items[t][q])]
                   ELSE NoBody
       IN  Respond(p, [loop[p].row EXCEPT !.results = TRUE, !.body = body])
    /\ storeUnchanged
    /\ UNCHANGED <<proc, worker, exec, drawn, faults>>

\* (Fault: no "AND status IN ('queued', 'processing')".)
RunningTasks_All(o) == {t \in DOMAIN tasks : tasks[t].owner = o}

\* get_running_summary: one SELECT of aggregates over the owner's running rows.
RunningTasks(o) == {t \in DOMAIN tasks : tasks[t].owner = o /\ tasks[t].status \in Running}

RunningSummary(o) ==
    LET Total(column) == SumFunction([t \in RunningTasks(o) |-> tasks[t][column]])
    IN  [total      |-> Cardinality(RunningTasks(o)),
         queued     |-> Cardinality({t \in RunningTasks(o) : tasks[t].status = "queued"}),
         processing |-> Cardinality({t \in RunningTasks(o) : tasks[t].status = "processing"}),
         accepted   |-> Total("accepted"),
         processed  |-> Total("processed"),
         successful |-> Total("successful"),
         failed     |-> Total("failed")]

SummaryRead(p) ==
    /\ loop[p].job = "summary" /\ loop[p].next = "read"
    /\ loop' = [loop EXCEPT ![p] = Idle]
    /\ storeUnchanged
    /\ UNCHANGED <<proc, worker, exec, drawn, faults, seen>>

----------------------------------------------------------------------------
(* worker_loop, on the event loop.                                            *)

\* (Fault: the executor is not awaited.)
PollStart_WhileBusy(p) ==
    /\ proc[p] = "up"
    /\ LoopIsFree(p)
    /\ worker[p].state \in {"waiting", "busy"}
    /\ loop' = [loop EXCEPT ![p] = [Idle EXCEPT !.job = "poll", !.next = "maintain",
                                                !.since = clock]]
    /\ storeUnchanged
    /\ UNCHANGED <<proc, worker, exec, drawn, faults, seen>>

\* The wait times out (or the first iteration starts) and no stop was asked.
PollStart(p) ==
    /\ proc[p] = "up"
    /\ LoopIsFree(p)
    /\ worker[p].state = "waiting"
    /\ loop' = [loop EXCEPT ![p] = [Idle EXCEPT !.job = "poll", !.next = "maintain",
                                                !.since = clock]]
    /\ storeUnchanged
    /\ UNCHANGED <<proc, worker, exec, drawn, faults, seen>>

\* claim_task; a task goes to the executor in the same callback.
PollClaim(p) ==
    /\ loop[p].next = "claim"
    /\ \E now \in loop[p].since..clock :
          \/ \E t \in Oldest(now) :
                /\ ClaimTask(t, worker[p].id, now)
                /\ exec' = [exec EXCEPT ![p] = [NoFrame EXCEPT !.next = "renew", !.task = t,
                                                               !.since = clock]]
                /\ worker' = [worker EXCEPT ![p].state = "busy"]
          \/ /\ Oldest(now) = {}
             /\ storeUnchanged
             /\ UNCHANGED <<exec, worker>>
    /\ loop' = [loop EXCEPT ![p] = Idle]
    /\ UNCHANGED <<proc, drawn, faults, seen>>

\* run_in_executor completes: the loop goes on, or the exception ends it.
Resume(p) ==
    /\ LoopIsFree(p)
    /\ exec[p].next \in {"returned", "raised"}
    /\ worker' = [worker EXCEPT ![p].state = IF exec[p].next = "raised" THEN "dead"
                                                                        ELSE "waiting"]
    /\ exec' = [exec EXCEPT ![p] = NoFrame]
    /\ storeUnchanged
    /\ UNCHANGED <<proc, loop, drawn, faults, seen>>

\* (Faults: the stop event is not set, so the loop waits for work again; the
\* coroutine is cancelled, though its executor works.)
WorkerEnds_Unasked(p) ==
    /\ proc[p] = "stopping"
    /\ LoopIsFree(p)
    /\ worker[p].state = "waiting"
    /\ storeUnchanged
    /\ UNCHANGED <<threads, faults, seen>>

WorkerEnds_Cancelled(p) ==
    /\ proc[p] = "stopping"
    /\ LoopIsFree(p)
    /\ worker[p].state \in {"waiting", "busy"}
    /\ worker' = [worker EXCEPT ![p].state = "ended"]
    /\ storeUnchanged
    /\ UNCHANGED <<proc, loop, exec, drawn, faults, seen>>

\* `while not shutdown.is_set()' is false.
WorkerEnds(p) ==
    /\ proc[p] = "stopping"
    /\ LoopIsFree(p)
    /\ worker[p].state = "waiting"
    /\ worker' = [worker EXCEPT ![p].state = "ended"]
    /\ storeUnchanged
    /\ UNCHANGED <<proc, loop, exec, drawn, faults, seen>>

----------------------------------------------------------------------------
(* _process_claimed_task, on the executor thread.                             *)

Goto(p, next) == exec' = [exec EXCEPT ![p] = [@ EXCEPT !.next = next, !.since = clock]]

\* (Fault: the expiry is computed from a timestamp read long ago.)
ExecRenew_OldTime(p) ==
    /\ exec[p].next = "renew"
    /\ \/ \E now \in 0..clock :
             /\ RenewLease(exec[p].task, worker[p].id, now)
             /\ exec' = [exec EXCEPT ![p] = [@ EXCEPT !.next = "claim_item", !.since = now]]
       \/ /\ ~Renewable(exec[p].task, worker[p].id)
          /\ Goto(p, "refused")
          /\ storeUnchanged
    /\ UNCHANGED <<proc, worker, loop, drawn, faults, seen>>

\* renew_lease: a lost lease is a RuntimeError, handled below like any other.
ExecRenew(p) ==
    /\ exec[p].next = "renew"
    /\ \/ \E now \in exec[p].since..clock :
             /\ RenewLease(exec[p].task, worker[p].id, now)
             /\ exec' = [exec EXCEPT ![p] = [@ EXCEPT !.next = "claim_item", !.since = now]]
       \/ /\ ~Renewable(exec[p].task, worker[p].id)
          /\ Goto(p, "refused")
          /\ storeUnchanged
    /\ UNCHANGED <<proc, worker, loop, drawn, faults, seen>>

\* claim_next_item, with the timestamp of the renewal; None leaves the loop.
ExecClaimItem(p) ==
    /\ exec[p].next = "claim_item"
    /\ LET t   == exec[p].task
           w   == worker[p].id
           now == exec[p].since
       IN  \/ \E q \in 0..MaxItems - 1 :
                 /\ ClaimNextItem(t, w, q, now)
                 /\ exec' = [exec EXCEPT ![p] = [@ EXCEPT !.next = "infer", !.position = q,
                                                          !.since = 0]]
           \/ /\ LeaseActive(t, w, now) => Undecided(t) = {}
              /\ Goto(p, "returned")
              /\ storeUnchanged
    /\ UNCHANGED <<proc, worker, loop, drawn, faults, seen>>

\* process_source_with_model takes any time and yields an outcome or a failure.
ExecInfer(p) ==
    /\ exec[p].next = "infer"
    /\ \E r \in ItemFinal :
          exec' = [exec EXCEPT ![p] = [@ EXCEPT !.next = "finalize", !.result = r,
                                                !.since = clock]]
    /\ storeUnchanged
    /\ UNCHANGED <<proc, worker, loop, drawn, faults, seen>>

\* finalize_item: the task is finished, or the loop goes on, or ValueError.
ExecFinalize(p) ==
    /\ exec[p].next = "finalize"
    /\ LET t == exec[p].task
           q == exec[p].position
           w == worker[p].id
       IN  \/ \E now \in exec[p].since..clock :
                 /\ FinalizeItem(t, w, q, exec[p].result, now)
                 /\ exec' = [exec EXCEPT ![p] =
                       [@ EXCEPT !.next = IF tasks'[t].status \in Terminal THEN "returned"
                                                                          ELSE "renew",
                                 !.position = 0, !.result = "none", !.since = clock]]
           \/ /\ Mutable(t, w) => q \notin Undecided(t)
              /\ Goto(p, "refused")
              /\ storeUnchanged
    /\ UNCHANGED <<proc, worker, loop, drawn, faults, seen>>

\* except Exception: fail_task, whose ValueError (no lease any more) is dropped.
ExecFail(p) ==
    /\ exec[p].next \in {"refused", "fail"}
    /\ \/ \E now \in exec[p].since..clock : FailTask(exec[p].task, worker[p].id, now)
       \/ ~Mutable(exec[p].task, worker[p].id) /\ storeUnchanged
    /\ Goto(p, "returned")
    /\ UNCHANGED <<proc, worker, loop, drawn, faults, seen>>

----------------------------------------------------------------------------
(* What may go wrong: a call raises without effect (the transaction rolls     *)
(* back: the write lock is not had within 30 seconds, the disk is full, an    *)
(* outcome is not JSON-serialisable); a process crashes.                      *)

ExecFault(p) ==
    /\ p \in Faulty /\ faults < MaxFaults /\ clock < FailBefore
    /\ faults' = faults + 1
    /\ \/ exec[p].next \in {"renew", "claim_item", "finalize"} /\ Goto(p, "fail")
       \/ exec[p].next \in {"refused", "fail"} /\ Goto(p, "raised")
    /\ storeUnchanged
    /\ UNCHANGED <<proc, worker, loop, drawn, seen>>

\* In a handler: 500, and the next request finds the loop free.  In a poll: the
\* exception leaves worker_loop.
LoopFault(p) ==
    /\ p \in Faulty /\ faults < MaxFaults /\ clock < FailBefore
    /\ faults' = faults + 1
    /\ loop[p].job # "none"
    /\ worker' = IF loop[p].job = "poll" THEN [worker EXCEPT ![p].state = "dead"] ELSE worker
    /\ loop' = [loop EXCEPT ![p] = Idle]
    /\ storeUnchanged
    /\ UNCHANGED <<proc, exec, drawn, seen>>

\* A process starts: lifespan creates the worker task, which draws its id.
Start(p) ==
    /\ proc[p] = "down"
    /\ \E w \in Draw(WorkerId \ drawn) :
          /\ worker' = [worker EXCEPT ![p] = [id |-> w, state |-> "waiting"]]
          /\ drawn' = drawn \cup {w}
    /\ proc' = [proc EXCEPT ![p] = "up"]
    /\ storeUnchanged
    /\ UNCHANGED <<loop, exec, faults, seen>>

\* Bound: a worker id is left for p and every other process that is, or will be, down.
CanRestart(p) ==
    Cardinality({q \in Process \ {p} : proc[q] # "up"}) < Cardinality(WorkerId \ drawn)

Halt(p) ==
    /\ proc' = [proc EXCEPT ![p] = "down"]
    /\ loop' = [loop EXCEPT ![p] = Idle]
    /\ exec' = [exec EXCEPT ![p] = NoFrame]
    /\ storeUnchanged
    /\ UNCHANGED <<drawn, faults, seen>>

\* Whatever the threads were doing is gone; what was committed stays.
Crash(p) ==
    /\ proc[p] # "down"
    /\ CanRestart(p)
    /\ clock < FailBefore
    /\ worker' = [worker EXCEPT ![p].state = "dead"]
    /\ Halt(p)

\* lifespan: set the stop event, await the worker, shut the executor down.
Stop(p) ==
    /\ Stops
    /\ CanRestart(p)
    /\ proc[p] = "up"
    /\ LoopIsFree(p)
    /\ proc' = [proc EXCEPT ![p] = "stopping"]
    /\ storeUnchanged
    /\ UNCHANGED <<worker, loop, exec, drawn, faults, seen>>

Stopped(p) ==
    /\ proc[p] = "stopping"
    /\ worker[p].state \in {"ended", "dead"}
    /\ Halt(p)
    /\ UNCHANGED worker

Time == Tick /\ UNCHANGED <<threads, faults, seen>>

----------------------------------------------------------------------------

Request(p) == \E o \in OwnerId, job \in Jobs, t \in TaskId \cup {NoTask} : Arrive(p, o, job, t)

Handler(p) ==
    \/ SubmitCreate(p) \/ SubmitReload(p)
    \/ StatusRead(p)   \/ ResultsRead(p)  \/ ResultsItems(p) \/ SummaryRead(p)

Poll(p) == PollStart(p) \/ PollClaim(p) \/ Resume(p) \/ WorkerEnds(p)

Execute(p) == ExecRenew(p) \/ ExecClaimItem(p) \/ ExecInfer(p) \/ ExecFinalize(p) \/ ExecFail(p)

Failure(p) == ExecFault(p) \/ LoopFault(p) \/ Crash(p)

ServiceNext ==
    \/ Time
    \/ \E p \in Process :
          Request(p) \/ Handler(p) \/ Maintain(p) \/ Poll(p) \/ Execute(p)
             \/ Failure(p) \/ Start(p) \/ Stop(p) \/ Stopped(p)

ServiceSpec == ServiceInit /\ [][ServiceNext]_allVars

\* What the runtime guarantees: time passes; the event loop runs something while
\* it has something to run; the executor thread is scheduled, and the inference
\* provider returns or raises (the code sets it no time limit); a process that
\* is down is started, and one whose lifespan is over exits.
LoopWork(p) == Handler(p) \/ Maintain(p) \/ Poll(p)

Fairness ==
    /\ WF_allVars(Time)
    /\ \A p \in Process : /\ WF_allVars(LoopWork(p))
                          /\ WF_allVars(Execute(p))
                          /\ WF_allVars(Start(p) \/ Stopped(p))

FairServiceSpec == ServiceSpec /\ Fairness

----------------------------------------------------------------------------
(* Properties of the workers.                                                 *)

\* A worker that still holds its lease finds the item it inferred undecided and
\* next in line, however long the inference took: what it is about to record is
\* neither refused as a duplicate nor recorded out of order.
ItemAwaitsItsHolder ==
    \A p \in Process :
        LET t == exec[p].task
        IN  exec[p].next \in {"infer", "finalize"} /\ Mutable(t, worker[p].id) =>
                /\ IsNextItem(t, exec[p].position)
                /\ items[t][exec[p].position].status = "processing"

\* No healthy worker sits on a lease.  A lease belongs to the task its holder is
\* working on; a worker back in its polling loop, or ended by a shutdown, holds
\* none, so no task waits for a lease to expire unless its worker has died.
LeaseIsBeingWorked ==
    \A p \in Process, t \in DOMAIN tasks :
        worker[p].id # NoWorker /\ HoldsLease(t, worker[p].id) =>
            \/ worker[p].state = "dead"
            \/ worker[p].state = "busy" /\ exec[p].task = t /\ exec[p].next # "returned"

\* A worker the store has refused has lost its lease for good: the error path it
\* takes next (fail_task) is refused as well, though other workers crash, lose the
\* lease in their turn, or are failed by a call that raises.
LostLeaseIsHarmless ==
    \A p \in Process : exec[p].next = "refused" => ~Mutable(exec[p].task, worker[p].id)

\* Whatever an executor does next (renew, claim or finalize an item, fail the task),
\* it writes to the task it works on only, and only while the row names its worker
\* as the holder: once the lease was taken over, purged or given up, it leaves no
\* trace in the task, in whichever of its steps it learns so.
OnlyHolderWrites ==
    [][\A p \in Process :
          exec[p].next # "none" /\ exec'[p] # exec[p] =>
              /\ DOMAIN tasks' = DOMAIN tasks
              /\ \A t \in DOMAIN tasks :
                    \/ tasks'[t] = tasks[t] /\ items'[t] = items[t]
                    \/ t = exec[p].task /\ HoldsLease(t, worker[p].id)]_allVars

\* A lease in one worker's hands never moves towards expiry, though renewals
\* run with timestamps read before waiting for the write lock.
LeaseNeverShrinks ==
    [][\A t \in Kept :
          tasks[t].lease_owner # NoWorker /\ tasks'[t].lease_owner = tasks[t].lease_owner
          => tasks'[t].lease_expires_at >= tasks[t].lease_expires_at]_allVars

\* Whatever the threads of the processes do to the store is one of the
\* repository's transactions, so what holds of every client of TaskRepository
\* holds here.
UsesRepository == Spec

----------------------------------------------------------------------------
(* Properties of the answers.                                                 *)

\* The order in which a client may be told about a task.
Rank == [none |-> 0, running |-> 1, final |-> 2, expired |-> 3, missing |-> 4]

\* A client that asks again is never taken back: a task does not return from
\* final to running or from expired to available, progress never decreases, and
\* once final neither the counts nor the results served change.
AnswersAdvance ==
    [][\A o \in OwnerId, t \in TaskId :
          LET old == seen[o][t]
              new == seen'[o][t]
          IN  /\ Rank[old.code] <= Rank[new.code]
              /\ old.processed <= new.processed /\ old.successful <= new.successful
              /\ Rank[old.code] >= Rank["final"] =>
                    old.processed = new.processed /\ old.successful = new.successful
              /\ old.results => new.results /\ new.body = old.body]_allVars

\* Results that were served are the results: an outcome for every accepted
\* source, agreeing with the progress served in the same response.
ResultsAreWhole ==
    \A o \in OwnerId, t \in TaskId :
        LET a == seen[o][t]
            served(c) == Cardinality({q \in DOMAIN a.body : a.body[q] = c})
        IN  a.results => /\ served("completed") = a.successful
                         /\ served("failed") = a.processed - a.successful
                         /\ served("blank") = 0

\* The summary's aggregates account for every item of the tasks it counts.
SummaryMatchesItems ==
    \A o \in OwnerId :
        LET s == RunningSummary(o)
        IN  /\ s.total = s.queued + s.processing
            /\ s.accepted - s.processed =
                  SumFunction([t \in RunningTasks(o) |-> Cardinality(Undecided(t))])
            /\ s.processed = s.successful + s.failed

----------------------------------------------------------------------------
(* Liveness.                                                                  *)

Finished(t) == t \in DOMAIN tasks /\ tasks[t].status \in Terminal

\* Every accepted task reaches a verdict, whichever processes crash meanwhile.
EveryTaskEnds == \A t \in TaskId : t \in issued ~> Finished(t)

\* A process asked to stop finishes what its worker is doing and goes down.
ShutdownCompletes == \A p \in Process : proc[p] = "stopping" ~> proc[p] = "down"

----------------------------------------------------------------------------
(* What the documentation says and the code does not keep to.                 *)

\* src/src/task_service.py:248: the worker runs until application shutdown.
WorkerRunsUntilShutdown == \A p \in Process : proc[p] = "up" => worker[p].state # "dead"
=============================================================================
