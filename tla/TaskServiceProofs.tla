------------------------- MODULE TaskServiceProofs -------------------------
(* Proofs about TaskService, for any number of processes, tasks and workers.  *)
(*                                                                            *)
(* First that the threads keep their frames in order (Orderly), from which    *)
(* follows that whatever they do to the tables is a transaction of            *)
(* TaskRepository's most general client: so the theorems of                   *)
(* TaskRepositoryProofs and TaskLifecycleProofs hold of the service.  Then    *)
(* that only a call raised in its own process ends a worker (Survives).       *)
EXTENDS TaskService, TaskLifecycleProofs

\* The variables of the service have their types (those of the tables are in IInv).
Typed ==
    /\ proc \in [Process -> {"down", "up", "stopping"}]
    /\ worker \in [Process -> Coroutine]
    /\ loop \in [Process -> Callback]
    /\ exec \in [Process -> Frame]
    /\ drawn \subseteq WorkerId
    /\ faults \in 0..MaxFaults
    /\ seen \in [OwnerId -> [TaskId -> Answer]]

\* The coroutine awaits the executor exactly while this has a frame, and has
\* drawn an id by then.
WorkerOrderly(p) ==
    /\ exec[p].next # "none" <=> worker[p].state = "busy"
    /\ worker[p].state \in {"waiting", "busy"} => worker[p].id \in WorkerId
    /\ worker[p].id \in drawn \cup {NoWorker}
    /\ proc[p] = "down" => worker[p].state \in {"ended", "dead"}
    /\ loop[p].job = "poll" => worker[p].state = "waiting"
    /\ loop[p].next = "claim" => loop[p].job = "poll"

\* Callbacks and frames have what their next step needs, and no time ahead.
FramesOrderly(p) ==
    /\ loop[p].since <= clock /\ exec[p].since <= clock
    /\ exec[p].next = "finalize" => exec[p].result \in ItemFinal
    /\ loop[p].next \in {"create", "reload", "items"} \/ loop[p].job \in {"status", "results"}
          => loop[p].owner \in OwnerId
    /\ loop[p].next \in {"reload", "items"} \/ loop[p].job \in {"status", "results"}
          => loop[p].task \in TaskId

Orderly(p) == WorkerOrderly(p) /\ FramesOrderly(p)

\* The invariant of the service.
ServiceInv == IInv /\ Typed /\ \A p \in Process : Orderly(p)

ProcessStep(p) ==
    \/ Request(p) \/ Handler(p) \/ Maintain(p) \/ Poll(p) \/ Execute(p)
    \/ Failure(p) \/ Start(p)   \/ Stop(p)     \/ Stopped(p)

----------------------------------------------------------------------------
(* The store.                                                                 *)

\* The steps that run a transaction on the tables.
LEMMA ProcessWrites ==
    ASSUME NEW p \in Process, ProcessStep(p)
    PROVE  \/ storeUnchanged
           \/ SubmitCreate(p) \/ Maintain(p) \/ PollClaim(p)
           \/ ExecRenew(p) \/ ExecClaimItem(p) \/ ExecFinalize(p) \/ ExecFail(p)
<1>1. Request(p) \/ Failure(p) \/ Start(p) \/ Stop(p) \/ Stopped(p) => storeUnchanged
  BY DEF Request, Arrive, Failure, ExecFault, LoopFault, Crash, Halt, Start, Stop, Stopped
<1>2. Handler(p) => SubmitCreate(p) \/ storeUnchanged
  BY DEF Handler, SubmitReload, StatusRead, ResultsRead, ResultsItems, SummaryRead
<1>3. Poll(p) => PollClaim(p) \/ storeUnchanged
  BY DEF Poll, PollStart, Resume, WorkerEnds
<1>4. Execute(p) => \/ ExecRenew(p) \/ ExecClaimItem(p) \/ ExecFinalize(p) \/ ExecFail(p)
                    \/ storeUnchanged
  BY DEF Execute, ExecInfer
<1> QED  BY <1>1, <1>2, <1>3, <1>4 DEF ProcessStep

\* Each is a transaction of the repository's most general client.
LEMMA ProcessUsesStore ==
    ASSUME ServiceInv, NEW p \in Process, ProcessStep(p)
    PROVE  [Next]_vars
<1>0. /\ Orderly(p) /\ clock \in Nat /\ TypeOK
      /\ loop[p] \in Callback /\ exec[p] \in Frame /\ worker[p] \in Coroutine
      /\ loop[p].since \in Nat /\ exec[p].since \in Nat
  BY ImpliesTypeOK DEF ServiceInv, IInv, Typed, Callback, Frame
<1>a. /\ \A now \in loop[p].since..clock : now \in 0..clock
      /\ \A now \in exec[p].since..clock : now \in 0..clock
      /\ exec[p].since \in 0..clock
  BY <1>0 DEF Orderly, FramesOrderly
<1>b. \A t : HoldsLease(t, worker[p].id) => t \in DOMAIN tasks
  BY DEF HoldsLease
<1>c. exec[p].next # "none" \/ loop[p].next = "claim" => worker[p].id \in WorkerId
  BY <1>0 DEF Orderly, WorkerOrderly
<1>1. CASE SubmitCreate(p)
  <2>1. loop[p].owner \in OwnerId
    BY <1>0, <1>1 DEF SubmitCreate, Orderly, FramesOrderly
  <2> QED  BY <1>1, <1>a, <2>1 DEF SubmitCreate, Next, Submission
<1>2. CASE Maintain(p)
  BY <1>2, <1>a DEF Maintain, Next
<1>3. CASE PollClaim(p)
  <2>1. \A now : \A t \in Oldest(now) : t \in DOMAIN tasks
    BY DEF Oldest
  <2>2. worker[p].id \in WorkerId
    BY <1>c, <1>3 DEF PollClaim
  <2>3. ASSUME NEW now \in loop[p].since..clock, NEW t \in Oldest(now),
               ClaimTask(t, worker[p].id, now)
        PROVE  Next
    BY <1>a, <2>1, <2>2, <2>3 DEF Next, Work
  <2> QED  BY <1>3, <2>3 DEF PollClaim, storeUnchanged, vars
<1>4. CASE ExecRenew(p)
  <2>1. worker[p].id \in WorkerId
    BY <1>c, <1>4 DEF ExecRenew
  <2>2. ASSUME NEW now \in exec[p].since..clock, RenewLease(exec[p].task, worker[p].id, now)
        PROVE  Next
    <3>1. exec[p].task \in DOMAIN tasks
      BY <1>b, <2>2 DEF RenewLease, Renewable
    <3> QED  BY <1>a, <2>1, <2>2, <3>1 DEF Next, Work
  <2> QED  BY <1>4, <2>2 DEF ExecRenew, storeUnchanged, vars
<1>5. CASE ExecClaimItem(p)
  <2>1. worker[p].id \in WorkerId
    BY <1>c, <1>5 DEF ExecClaimItem
  <2>2. ASSUME NEW q, ClaimNextItem(exec[p].task, worker[p].id, q, exec[p].since)
        PROVE  Next
    <3>1. exec[p].task \in DOMAIN tasks /\ q \in DOMAIN items[exec[p].task]
      BY <1>b, <2>2 DEF ClaimNextItem, LeaseActive, IsNextItem, Undecided
    <3> QED  BY <1>a, <2>1, <2>2, <3>1 DEF Next, Work
  <2> QED  BY <1>5, <2>2 DEF ExecClaimItem, storeUnchanged, vars
<1>6. CASE ExecFinalize(p)
  <2>1. worker[p].id \in WorkerId /\ exec[p].result \in ItemFinal
    BY <1>0, <1>c, <1>6 DEF ExecFinalize, Orderly, FramesOrderly
  <2>2. ASSUME NEW now \in exec[p].since..clock,
               FinalizeItem(exec[p].task, worker[p].id, exec[p].position, exec[p].result, now)
        PROVE  Next
    <3>1. exec[p].task \in DOMAIN tasks /\ exec[p].position \in DOMAIN items[exec[p].task]
      BY <1>b, <2>2 DEF FinalizeItem, Mutable
    <3> QED  BY <1>a, <2>1, <2>2, <3>1 DEF Next, Work
  <2> QED  BY <1>6, <2>2 DEF ExecFinalize, storeUnchanged, vars
<1>7. CASE ExecFail(p)
  <2>1. worker[p].id \in WorkerId
    BY <1>c, <1>7 DEF ExecFail
  <2>2. ASSUME NEW now \in exec[p].since..clock, FailTask(exec[p].task, worker[p].id, now)
        PROVE  Next
    <3>1. exec[p].task \in DOMAIN tasks
      BY <1>b, <2>2 DEF FailTask, Mutable
    <3> QED  BY <1>a, <2>1, <2>2, <3>1 DEF Next, Work
  <2> QED  BY <1>7, <2>2 DEF ExecFail, storeUnchanged, vars
<1>8. CASE storeUnchanged
  BY <1>8 DEF storeUnchanged, vars
<1>9. \/ storeUnchanged
      \/ SubmitCreate(p) \/ Maintain(p) \/ PollClaim(p)
      \/ ExecRenew(p) \/ ExecClaimItem(p) \/ ExecFinalize(p) \/ ExecFail(p)
  BY ProcessWrites
<1> QED  BY <1>1, <1>2, <1>3, <1>4, <1>5, <1>6, <1>7, <1>8, <1>9

\* Only time and the processes change the tables.
LEMMA UsesStore == ServiceInv /\ [ServiceNext]_allVars => [Next]_vars
<1>1. ASSUME ServiceInv, NEW p \in Process, ProcessStep(p)
      PROVE  [Next]_vars
  BY <1>1, ProcessUsesStore
<1>2. CASE Time
  BY <1>2 DEF Time, Next
<1>3. CASE UNCHANGED allVars
  BY <1>3 DEF allVars, vars
<1> QED  BY <1>1, <1>2, <1>3 DEF ServiceNext, ProcessStep

----------------------------------------------------------------------------
(* The threads.                                                               *)

\* What a step of p leaves as it should be: types, p's own threads, the others'.
Alone(p) ==
    \A q \in Process \ {p} : /\ proc'[q] = proc[q] /\ worker'[q] = worker[q]
                             /\ loop'[q] = loop[q] /\ exec'[q] = exec[q]

InOrder(p) == Typed' /\ Orderly(p)' /\ Alone(p) /\ drawn \subseteq drawn' /\ faults <= faults'

\* What p's next callback must be like.
CallbackFits(p, c) ==
    /\ c \in Callback /\ c.since <= clock
    /\ c.job = "poll" => worker[p].state = "waiting"
    /\ c.next = "claim" => c.job = "poll"
    /\ c.next \in {"create", "reload", "items"} \/ c.job \in {"status", "results"}
          => c.owner \in OwnerId
    /\ c.next \in {"reload", "items"} \/ c.job \in {"status", "results"} => c.task \in TaskId

\* A step of the event loop alone.
LEMMA LoopMoves ==
    ASSUME ServiceInv, NEW p \in Process, NEW c, CallbackFits(p, c),
           loop' = [loop EXCEPT ![p] = c], clock' = clock,
           UNCHANGED <<proc, worker, exec, drawn, faults>>,
           seen' \in [OwnerId -> [TaskId -> Answer]]
    PROVE  InOrder(p)
<1>1. Typed /\ Orderly(p) /\ loop' \in [Process -> Callback] /\ loop'[p] = c
  BY DEF ServiceInv, Typed, CallbackFits
<1>2. Typed'
  BY <1>1 DEF Typed
<1>3. Orderly(p)'
  BY <1>1 DEF Orderly, WorkerOrderly, FramesOrderly, CallbackFits
<1>4. Alone(p) /\ faults <= faults'
  BY <1>1, ServiceAssumption DEF Alone, Typed
<1> QED  BY <1>2, <1>3, <1>4 DEF InOrder

\* What the executor's next frame must be like.
FrameFits(f) ==
    /\ f \in Frame /\ f.since <= clock /\ f.next # "none"
    /\ f.next = "finalize" => f.result \in ItemFinal

\* A step of the executor alone.
LEMMA ExecMoves ==
    ASSUME ServiceInv, NEW p \in Process, NEW f, FrameFits(f), exec[p].next # "none",
           exec' = [exec EXCEPT ![p] = f], clock' = clock,
           UNCHANGED <<proc, worker, loop, drawn, seen>>,
           faults' \in 0..MaxFaults, faults <= faults'
    PROVE  InOrder(p)
<1>1. Typed /\ Orderly(p) /\ exec' \in [Process -> Frame] /\ exec'[p] = f
  BY DEF ServiceInv, Typed, FrameFits
<1>2. Typed'
  BY <1>1 DEF Typed
<1>3. Orderly(p)'
  BY <1>1 DEF Orderly, WorkerOrderly, FramesOrderly, FrameFits
<1>4. Alone(p)
  BY <1>1 DEF Alone, Typed
<1> QED  BY <1>2, <1>3, <1>4 DEF InOrder

\* The idle values are typed.
LEMMA IdleIsCallback == Idle \in Callback /\ NoFrame \in Frame /\ NoAnswer \in Answer
<1>1. 0 \in 0..MaxItems /\ NoBody \in [0..0 - 1 -> {"completed", "failed", "blank"}]
  BY SettingsAssumption DEF NoBody
<1>2. NoAnswer \in Answer
  BY <1>1 DEF NoAnswer, Answer
<1> QED  BY <1>1, <1>2 DEF Idle, Callback, NoFrame, Frame, LoopStep

\* Leaving the loop free is always in order.
LEMMA IdleFits ==
    ASSUME ServiceInv, NEW p \in Process
    PROVE  CallbackFits(p, Idle)
<1>1. clock \in Nat
  BY DEF ServiceInv, IInv
<1> QED  BY <1>1, IdleIsCallback DEF CallbackFits, Idle

\* A request that arrives.
LEMMA ArriveInOrder ==
    ASSUME ServiceInv, NEW p \in Process, NEW o \in OwnerId, NEW job \in Jobs,
           NEW t \in TaskId \cup {NoTask}, Arrive(p, o, job, t)
    PROVE  InOrder(p)
<1> DEFINE next == IF job = "submit" THEN "create" ELSE "maintain"
           c == [Idle EXCEPT !.job = job, !.owner = o, !.task = t, !.since = clock,
                             !.next = next]
<1>1. loop' = [loop EXCEPT ![p] = c] /\ clock' = clock /\ clock \in Nat /\ Typed
      /\ UNCHANGED <<proc, worker, exec, drawn, faults, seen>>
      /\ (job \in {"status", "results"} => t \in TaskId)
  BY DEF Arrive, storeUnchanged, ServiceInv, IInv
<1>2. job \in {"submit", "status", "results", "summary"}
  BY ServiceAssumption
<1>3. /\ \A d \in Callback : [d EXCEPT !.job = job, !.owner = o] \in Callback
      /\ \A d \in Callback : [d EXCEPT !.task = t, !.since = clock] \in Callback
      /\ \A d \in Callback : [d EXCEPT !.next = next] \in Callback
  BY <1>1, <1>2 DEF Callback, LoopStep
<1>4. c \in Callback
  BY <1>3, IdleIsCallback
<1>5. c.job = job /\ c.owner = o /\ c.task = t /\ c.since = clock /\ c.next = next
  BY DEF Idle
<1> HIDE DEF c
<1>6. CallbackFits(p, c)
  BY <1>1, <1>2, <1>4, <1>5 DEF CallbackFits
<1> QED  BY <1>1, <1>6, LoopMoves DEF Typed

\* Handlers: what they tell the client is an answer, and they leave the loop free
\* or go on for the same client and task.
LEMMA RespondTyped ==
    ASSUME ServiceInv, NEW p \in Process, NEW a \in Answer, Respond(p, a)
    PROVE  /\ seen' \in [OwnerId -> [TaskId -> Answer]]
           /\ loop' = [loop EXCEPT ![p] = Idle]
BY DEF Respond, ServiceInv, Typed

\* What a route answers is typed.
LEMMA AnswerTyped ==
    ASSUME ServiceInv, NEW o \in OwnerId, NEW t \in TaskId
    PROVE  AnswerOf(o, t) \in Answer
<1>1. seen[o][t] \in Answer /\ TypeOK
  BY ImpliesTypeOK DEF ServiceInv, Typed
<1>2. Located(o, t) \in {"running", "final", "expired", "missing"}
  BY DEF Located, Reported
<1>3. CASE Located(o, t) \in {"missing", "expired"}
  BY <1>1, <1>3 DEF AnswerOf, Answer
<1>4. CASE Located(o, t) \notin {"missing", "expired"}
  <2>1. t \in DOMAIN tasks
    BY <1>4 DEF Located, Reported, Visible
  <2>2. tasks[t].processed \in Nat /\ tasks[t].successful \in Nat
    BY <1>1, <2>1 DEF TypeOK, TaskRow
  <2>3. \A a \in Answer : [a EXCEPT !.code = Located(o, t)] \in Answer
    BY <1>2 DEF Answer
  <2>4. \A a \in Answer : [a EXCEPT !.processed = tasks[t].processed,
                                    !.successful = tasks[t].successful] \in Answer
    BY <2>2 DEF Answer
  <2> QED  BY <1>1, <1>4, <2>3, <2>4 DEF AnswerOf
<1> QED  BY <1>3, <1>4

\* The route handlers.
LEMMA HandlerInOrder ==
    ASSUME ServiceInv, NEW p \in Process, Handler(p)
    PROVE  InOrder(p)
<1>0. Typed /\ TypeOK /\ Orderly(p) /\ loop[p] \in Callback /\ clock \in Nat /\ 0 <= clock
  BY ImpliesTypeOK DEF ServiceInv, Typed, IInv
<1>1. CASE SubmitCreate(p)
  <2>1. PICK t \in TaskId, n \in 1..MaxItems, now \in loop[p].since..clock :
           /\ CreateTask(t, loop[p].owner, n, now)
           /\ loop' = [loop EXCEPT ![p] = [@ EXCEPT !.next = "reload", !.task = t, !.since = 0]]
    BY <1>1 DEF SubmitCreate
  <2> DEFINE c == [loop[p] EXCEPT !.next = "reload", !.task = t, !.since = 0]
  <2>2. loop[p].owner \in OwnerId
    BY <1>0, <1>1 DEF SubmitCreate, Orderly, FramesOrderly
  <2>3. c \in Callback /\ c.next = "reload" /\ c.task = t /\ c.since = 0
        /\ c.owner = loop[p].owner /\ c.job = loop[p].job
    <3>1. /\ \A d \in Callback : [d EXCEPT !.next = "reload", !.task = t] \in Callback
          /\ \A d \in Callback : [d EXCEPT !.since = 0] \in Callback
      BY DEF Callback, LoopStep
    <3> QED  BY <1>0, <3>1 DEF Callback
  <2> HIDE DEF c
  <2>4. CallbackFits(p, c)
    BY <1>0, <2>2, <2>3 DEF CallbackFits, Orderly, WorkerOrderly
  <2>5. loop' = [loop EXCEPT ![p] = c]
    BY <2>1 DEF c
  <2> QED  BY <1>0, <1>1, <2>1, <2>4, <2>5, LoopMoves DEF SubmitCreate, CreateTask, Typed
<1>2. ASSUME NEW a \in Answer, Respond(p, a), storeUnchanged,
             UNCHANGED <<proc, worker, exec, drawn, faults>>
      PROVE  InOrder(p)
  BY <1>2, RespondTyped, IdleFits, LoopMoves DEF storeUnchanged
<1>3. CASE StatusRead(p)
  <2>1. AnswerOf(loop[p].owner, loop[p].task) \in Answer
    BY <1>0, <1>3, AnswerTyped DEF StatusRead, Orderly, FramesOrderly
  <2> QED  BY <1>2, <1>3, <2>1 DEF StatusRead
<1>4. CASE SubmitReload(p)
  <2> DEFINE o == loop[p].owner
             t == loop[p].task
             a == [NoAnswer EXCEPT !.code = Reported(t), !.processed = tasks[t].processed,
                                   !.successful = tasks[t].successful]
  <2>1. CASE Visible(o, t)
    <3>1. tasks[t].processed \in Nat /\ tasks[t].successful \in Nat
      BY <1>0, <2>1 DEF Visible, TypeOK, TaskRow
    <3>2. a \in Answer
      <4>1. /\ \A b \in Answer : [b EXCEPT !.code = Reported(t)] \in Answer
            /\ \A b \in Answer : [b EXCEPT !.processed = tasks[t].processed,
                                           !.successful = tasks[t].successful] \in Answer
        BY <3>1 DEF Answer, Reported
      <4> QED  BY <4>1, IdleIsCallback
    <3> QED  BY <1>2, <1>4, <2>1, <3>2 DEF SubmitReload
  <2>2. CASE ~Visible(o, t)
    BY <1>0, <1>4, <2>2, IdleFits, LoopMoves DEF SubmitReload, storeUnchanged, Typed
  <2> QED  BY <2>1, <2>2
<1>5. CASE ResultsRead(p)
  <2> DEFINE row == AnswerOf(loop[p].owner, loop[p].task)
             c == [loop[p] EXCEPT !.next = "items", !.row = row]
  <2>0. loop[p].owner \in OwnerId /\ loop[p].task \in TaskId
    BY <1>0, <1>5 DEF ResultsRead, Orderly, FramesOrderly
  <2>1. row \in Answer
    BY <2>0, AnswerTyped
  <2>2. CASE row.code = "final"
    <3> HIDE DEF row
    <3>1. c \in Callback /\ c.next = "items" /\ c.job = loop[p].job /\ c.since = loop[p].since
          /\ c.owner = loop[p].owner /\ c.task = loop[p].task
      BY <1>0, <2>1 DEF Callback, LoopStep
    <3>2. CallbackFits(p, c)
      BY <1>0, <2>0, <3>1 DEF CallbackFits, Orderly, WorkerOrderly, FramesOrderly
    <3>3. loop' = [loop EXCEPT ![p] = c] /\ clock' = clock
          /\ UNCHANGED <<proc, worker, exec, drawn, faults, seen>>
      BY <1>5, <2>2 DEF ResultsRead, storeUnchanged, row
    <3> QED  BY <1>0, <3>2, <3>3, LoopMoves DEF Typed
  <2>3. CASE row.code # "final"
    BY <1>2, <1>5, <2>1, <2>3 DEF ResultsRead
  <2> QED  BY <2>2, <2>3
<1>6. CASE ResultsItems(p)
  <2> DEFINE t == loop[p].task
             body == IF t \in DOMAIN items
                     THEN [q \in DOMAIN items[t] |-> Restored(items[t][q])]
                     ELSE NoBody
             a == [loop[p].row EXCEPT !.results = TRUE, !.body = body]
  <2>1. PICK n \in 0..MaxItems : body \in [0..n - 1 -> {"completed", "failed", "blank"}]
    <3>1. CASE t \in DOMAIN items
      <4>1. t \in DOMAIN tasks
        BY <1>0, <3>1 DEF TypeOK
      <4>2. tasks[t].accepted \in 0..MaxItems /\ DOMAIN items[t] = 0..tasks[t].accepted - 1
        BY <1>0, <4>1, SettingsAssumption DEF TypeOK, TaskRow
      <4> QED  BY <3>1, <4>2 DEF Restored
    <3>2. CASE t \notin DOMAIN items
      BY <3>2, SettingsAssumption DEF NoBody
    <3> QED  BY <3>1, <3>2
  <2>2. loop[p].row \in Answer
    BY <1>0 DEF Callback
  <2>3. a \in Answer
    <3> DEFINE B == UNION {[0..m - 1 -> {"completed", "failed", "blank"}] : m \in 0..MaxItems}
    <3>1. body \in B
      BY <2>1
    <3>2. Answer = [code : {"none", "running", "final", "expired", "missing"},
                    processed : Nat, successful : Nat, results : BOOLEAN, body : B]
      BY DEF Answer
    <3> HIDE DEF body, B
    <3> QED  BY <2>2, <3>1, <3>2
  <2> QED  BY <1>2, <1>6, <2>3 DEF ResultsItems
<1>7. CASE SummaryRead(p)
  BY <1>0, <1>7, IdleFits, LoopMoves DEF SummaryRead, storeUnchanged, Typed
<1> QED  BY <1>1, <1>3, <1>4, <1>5, <1>6, <1>7 DEF Handler

\* A poll goes on to claim a task, a request to its read.
LEMMA MaintainInOrder ==
    ASSUME ServiceInv, NEW p \in Process, Maintain(p)
    PROVE  InOrder(p)
<1>0. /\ Typed /\ Orderly(p) /\ loop[p] \in Callback
      /\ clock \in Nat /\ clock' = clock /\ UNCHANGED <<proc, worker, exec, drawn, faults, seen>>
  BY DEF ServiceInv, IInv, Typed, Maintain, MaintainRetention
<1>1. CASE loop[p].job = "poll"
  <2> DEFINE c == [loop[p] EXCEPT !.next = "claim", !.since = clock]
  <2>1. c \in Callback /\ c.next = "claim" /\ c.job = "poll" /\ c.since = clock
    BY <1>0, <1>1 DEF Callback, LoopStep
  <2>2. loop' = [loop EXCEPT ![p] = c]
    BY <1>1 DEF Maintain
  <2> HIDE DEF c
  <2>3. CallbackFits(p, c)
    BY <1>0, <1>1, <2>1 DEF CallbackFits, Orderly, WorkerOrderly
  <2> QED  BY <1>0, <2>2, <2>3, LoopMoves DEF Typed
<1>2. CASE loop[p].job # "poll"
  <2> DEFINE c == [loop[p] EXCEPT !.next = "read", !.since = 0]
  <2>1. /\ c \in Callback /\ c.next = "read" /\ c.job = loop[p].job /\ c.since = 0
        /\ c.owner = loop[p].owner /\ c.task = loop[p].task
    BY <1>0 DEF Callback, LoopStep
  <2>2. loop' = [loop EXCEPT ![p] = c]
    BY <1>2 DEF Maintain
  <2> HIDE DEF c
  <2>3. CallbackFits(p, c)
    BY <1>0, <1>2, <2>1 DEF CallbackFits, Orderly, FramesOrderly
  <2> QED  BY <1>0, <2>2, <2>3, LoopMoves DEF Typed
<1> QED  BY <1>1, <1>2

\* The coroutine: it takes a task to the executor, comes back, or ends.
LEMMA PollInOrder ==
    ASSUME ServiceInv, NEW p \in Process, Poll(p)
    PROVE  InOrder(p)
<1>0. /\ Typed /\ Orderly(p) /\ loop[p] \in Callback /\ worker[p] \in Coroutine
      /\ exec[p] \in Frame /\ clock \in Nat /\ faults <= faults
      /\ Idle \in Callback /\ NoFrame \in Frame
  BY IdleIsCallback, ServiceAssumption DEF ServiceInv, IInv, Typed
<1>1. CASE PollStart(p)
  <2> DEFINE c == [Idle EXCEPT !.job = "poll", !.next = "maintain", !.since = clock]
  <2>1. c \in Callback /\ c.next = "maintain" /\ c.job = "poll" /\ c.since = clock
    <3>1. /\ \A d \in Callback : [d EXCEPT !.job = "poll", !.next = "maintain"] \in Callback
          /\ \A d \in Callback : [d EXCEPT !.since = clock] \in Callback
      BY <1>0 DEF Callback, LoopStep
    <3> QED  BY <1>0, <3>1 DEF Idle
  <2>2. loop' = [loop EXCEPT ![p] = c] /\ clock' = clock /\ worker[p].state = "waiting"
        /\ UNCHANGED <<proc, worker, exec, drawn, faults, seen>>
    BY <1>1 DEF PollStart, storeUnchanged
  <2> HIDE DEF c
  <2>3. CallbackFits(p, c)
    BY <1>0, <2>1, <2>2 DEF CallbackFits
  <2> QED  BY <1>0, <2>2, <2>3, LoopMoves DEF Typed
<1>2. CASE PollClaim(p)
  <2>0. /\ worker[p].state = "waiting" /\ loop' = [loop EXCEPT ![p] = Idle] /\ clock' = clock
        /\ UNCHANGED <<proc, drawn, faults, seen>>
    BY <1>0, <1>2 DEF PollClaim, Orderly, WorkerOrderly, ClaimTask, storeUnchanged
  <2>1. CASE UNCHANGED <<exec, worker>>
    BY <1>0, <2>0, <2>1, IdleFits, LoopMoves DEF Typed
  <2>2. ASSUME NEW t \in TaskId,
               exec' = [exec EXCEPT ![p] = [NoFrame EXCEPT !.next = "renew", !.task = t,
                                                           !.since = clock]],
               worker' = [worker EXCEPT ![p].state = "busy"]
        PROVE  InOrder(p)
    <3> DEFINE f == [NoFrame EXCEPT !.next = "renew", !.task = t, !.since = clock]
    <3>1. f \in Frame /\ f.next = "renew" /\ f.since = clock
      <4>1. /\ \A d \in Frame : [d EXCEPT !.next = "renew", !.task = t] \in Frame
            /\ \A d \in Frame : [d EXCEPT !.since = clock] \in Frame
        BY <1>0 DEF Frame
      <4> QED  BY <1>0, <4>1 DEF NoFrame
    <3> HIDE DEF f
    <3>2. exec' = [exec EXCEPT ![p] = f]
      BY <2>2 DEF f
    <3>3. worker' \in [Process -> Coroutine] /\ worker'[p].state = "busy"
          /\ worker'[p].id = worker[p].id
      BY <1>0, <2>2 DEF Typed, Coroutine
    <3>4. Typed'
      BY <1>0, <2>0, <3>1, <3>2, <3>3 DEF Typed
    <3>5. loop'[p] = Idle /\ exec'[p] = f
      BY <1>0, <2>0, <3>2 DEF Typed
    <3>6. Orderly(p)'
      BY <1>0, <2>0, <3>1, <3>3, <3>5 DEF Orderly, WorkerOrderly, FramesOrderly, Idle
    <3>7. Alone(p)
      BY <1>0, <2>0, <2>2, <3>2 DEF Alone, Typed
    <3> QED  BY <1>0, <2>0, <3>4, <3>6, <3>7 DEF InOrder, Typed
  <2>3. \A now : Oldest(now) \subseteq TaskId
    BY ImpliesTypeOK DEF Oldest, TypeOK, ServiceInv
  <2> QED  BY <1>2, <2>1, <2>2, <2>3 DEF PollClaim
<1>3. CASE Resume(p)
  <2>1. /\ exec' = [exec EXCEPT ![p] = NoFrame] /\ clock' = clock
        /\ UNCHANGED <<proc, loop, drawn, faults, seen>>
        /\ loop[p].job = "none" /\ proc[p] # "down" /\ worker[p].state = "busy"
    BY <1>0, <1>3 DEF Resume, storeUnchanged, LoopIsFree, Orderly, WorkerOrderly
  <2>2. PICK s \in {"dead", "waiting"} : worker' = [worker EXCEPT ![p].state = s]
    BY <1>3 DEF Resume
  <2>3. worker' \in [Process -> Coroutine] /\ worker'[p].state = s /\ worker'[p].id = worker[p].id
    BY <1>0, <2>2 DEF Typed, Coroutine
  <2>4. Typed' /\ exec'[p] = NoFrame
    BY <1>0, <2>1, <2>3 DEF Typed
  <2>5. Orderly(p)'
    BY <1>0, <2>1, <2>3, <2>4 DEF Orderly, WorkerOrderly, FramesOrderly, NoFrame
  <2>6. Alone(p)
    BY <1>0, <2>1, <2>2 DEF Alone, Typed
  <2> QED  BY <1>0, <2>1, <2>4, <2>5, <2>6 DEF InOrder, Typed
<1>4. CASE WorkerEnds(p)
  <2>1. /\ worker' = [worker EXCEPT ![p].state = "ended"] /\ clock' = clock
        /\ UNCHANGED <<proc, loop, exec, drawn, faults, seen>>
        /\ loop[p].job = "none" /\ worker[p].state = "waiting"
    BY <1>4 DEF WorkerEnds, storeUnchanged, LoopIsFree
  <2>2. /\ worker' \in [Process -> Coroutine]
        /\ worker'[p].state = "ended" /\ worker'[p].id = worker[p].id
    BY <1>0, <2>1 DEF Typed, Coroutine
  <2>3. Typed'
    BY <1>0, <2>1, <2>2 DEF Typed
  <2>4. Orderly(p)'
    BY <1>0, <2>1, <2>2 DEF Orderly, WorkerOrderly, FramesOrderly
  <2>5. Alone(p)
    BY <1>0, <2>1 DEF Alone, Typed
  <2> QED  BY <1>0, <2>1, <2>3, <2>4, <2>5 DEF InOrder, Typed
<1> QED  BY <1>1, <1>2, <1>3, <1>4 DEF Poll

\* The executor: every step leaves it a frame; only Resume takes this away.
LEMMA GotoInOrder ==
    ASSUME ServiceInv, NEW p \in Process, NEW next \in {"refused", "fail", "returned", "raised"},
           Goto(p, next), exec[p].next # "none", clock' = clock,
           UNCHANGED <<proc, worker, loop, drawn, seen>>,
           faults' \in 0..MaxFaults, faults <= faults'
    PROVE  InOrder(p)
<1>0. Typed /\ exec[p] \in Frame /\ clock \in Nat
  BY DEF ServiceInv, IInv, Typed
<1> DEFINE f == [exec[p] EXCEPT !.next = next, !.since = clock]
<1>1. f \in Frame /\ f.next = next /\ f.since = clock
  BY <1>0 DEF Frame
<1>2. exec' = [exec EXCEPT ![p] = f]
  BY DEF Goto
<1> HIDE DEF f
<1>3. FrameFits(f)
  BY <1>0, <1>1 DEF FrameFits
<1> QED  BY <1>2, <1>3, ExecMoves

\* The executor thread.
LEMMA ExecuteInOrder ==
    ASSUME ServiceInv, NEW p \in Process, Execute(p)
    PROVE  InOrder(p)
<1>0. /\ Typed /\ Orderly(p) /\ exec[p] \in Frame /\ clock \in Nat
      /\ faults \in 0..MaxFaults /\ faults <= faults
      /\ exec[p].since \in Nat
  BY ServiceAssumption DEF ServiceInv, IInv, Typed, Frame
<1>1. /\ UNCHANGED <<proc, worker, loop, drawn, faults, seen>> /\ exec[p].next # "none"
      /\ clock' = clock
  BY DEF Execute, ExecRenew, ExecClaimItem, ExecInfer, ExecFinalize, ExecFail, storeUnchanged,
         RenewLease, ClaimNextItem, FinalizeItem, FailTask
<1>2. ASSUME NEW next \in {"refused", "fail", "returned", "raised"}, Goto(p, next)
      PROVE  InOrder(p)
  BY <1>0, <1>1, <1>2, GotoInOrder
\* The frame gets another step and time, and perhaps another position or result.
<1>3. ASSUME NEW f \in Frame, f.since <= clock, f.next # "none",
             f.next = "finalize" => f.result \in ItemFinal,
             exec' = [exec EXCEPT ![p] = f]
      PROVE  InOrder(p)
  BY <1>0, <1>1, <1>3, ExecMoves DEF FrameFits
<1>4. CASE ExecRenew(p)
  <2>1. ASSUME NEW now \in exec[p].since..clock,
               exec' = [exec EXCEPT ![p] = [@ EXCEPT !.next = "claim_item", !.since = now]]
        PROVE  InOrder(p)
    <3> DEFINE f == [exec[p] EXCEPT !.next = "claim_item", !.since = now]
    <3>0. now \in Nat /\ now <= clock
      BY <1>0
    <3>1. f \in Frame /\ f.next = "claim_item" /\ f.since = now
      BY <1>0, <3>0 DEF Frame
    <3>2. exec' = [exec EXCEPT ![p] = f]
      BY <2>1
    <3> HIDE DEF f
    <3> QED  BY <1>3, <3>0, <3>1, <3>2
  <2> QED  BY <1>2, <1>4, <2>1 DEF ExecRenew
<1>5. CASE ExecClaimItem(p)
  <2>1. ASSUME NEW q \in 0..MaxItems - 1,
               exec' = [exec EXCEPT ![p] = [@ EXCEPT !.next = "infer", !.position = q,
                                                     !.since = 0]]
        PROVE  InOrder(p)
    <3> DEFINE f == [exec[p] EXCEPT !.next = "infer", !.position = q, !.since = 0]
    <3>1. f \in Frame /\ f.next = "infer" /\ f.since = 0
      <4>0. q \in 0..MaxItems
        BY SettingsAssumption
      <4>1. /\ \A d \in Frame : [d EXCEPT !.next = "infer", !.position = q] \in Frame
            /\ \A d \in Frame : [d EXCEPT !.since = 0] \in Frame
        BY <4>0 DEF Frame
      <4> QED  BY <1>0, <4>1 DEF Frame
    <3>2. exec' = [exec EXCEPT ![p] = f]
      BY <2>1
    <3> HIDE DEF f
    <3>3. f.since <= clock /\ f.next # "none" /\ f.next # "finalize"
      BY <1>0, <3>1
    <3> QED  BY <1>3, <3>1, <3>2, <3>3
  <2> QED  BY <1>2, <1>5, <2>1 DEF ExecClaimItem
<1>6. CASE ExecInfer(p)
  <2>1. PICK r \in ItemFinal :
           exec' = [exec EXCEPT ![p] = [@ EXCEPT !.next = "finalize", !.result = r,
                                                 !.since = clock]]
    BY <1>6 DEF ExecInfer
  <2> DEFINE f == [exec[p] EXCEPT !.next = "finalize", !.result = r, !.since = clock]
  <2>2. f \in Frame /\ f.next = "finalize" /\ f.result = r /\ f.since = clock
    <3>1. /\ \A d \in Frame : [d EXCEPT !.next = "finalize", !.result = r] \in Frame
          /\ \A d \in Frame : [d EXCEPT !.since = clock] \in Frame
      BY <1>0 DEF Frame
    <3> QED  BY <1>0, <3>1 DEF Frame
  <2>3. exec' = [exec EXCEPT ![p] = f]
    BY <2>1
  <2> HIDE DEF f
  <2>4. f.since <= clock /\ f.next # "none"
    BY <1>0, <2>2
  <2> QED  BY <1>3, <2>2, <2>3, <2>4
<1>7. CASE ExecFinalize(p)
  <2>1. ASSUME NEW next \in {"returned", "renew"},
               exec' = [exec EXCEPT ![p] = [@ EXCEPT !.next = next, !.position = 0,
                                                     !.result = "none", !.since = clock]]
        PROVE  InOrder(p)
    <3> DEFINE f == [exec[p] EXCEPT !.next = next, !.position = 0,
                                    !.result = "none", !.since = clock]
    <3>1. f \in Frame /\ f.next = next /\ f.since = clock
      <4>0. 0 \in 0..MaxItems
        BY SettingsAssumption
      <4>1. /\ \A d \in Frame : [d EXCEPT !.next = next, !.position = 0] \in Frame
            /\ \A d \in Frame : [d EXCEPT !.result = "none", !.since = clock] \in Frame
        BY <1>0, <4>0 DEF Frame
      <4> QED  BY <1>0, <4>1 DEF Frame
    <3>2. exec' = [exec EXCEPT ![p] = f]
      BY <2>1
    <3> HIDE DEF f
    <3>3. f.since <= clock /\ f.next # "none" /\ f.next # "finalize"
      BY <1>0, <3>1
    <3> QED  BY <1>3, <3>1, <3>2, <3>3
  <2>2. PICK next \in {"returned", "renew", "refused"} :
           \/ next # "refused" /\ exec' = [exec EXCEPT ![p] =
                 [@ EXCEPT !.next = next, !.position = 0, !.result = "none", !.since = clock]]
           \/ next = "refused" /\ Goto(p, "refused")
    BY <1>7 DEF ExecFinalize
  <2> QED  BY <1>2, <2>1, <2>2
<1>8. CASE ExecFail(p)
  BY <1>2, <1>8 DEF ExecFail
<1> QED  BY <1>4, <1>5, <1>6, <1>7, <1>8 DEF Execute

\* A process that goes down takes its threads along.
LEMMA HaltInOrder ==
    ASSUME ServiceInv, NEW p \in Process, Halt(p),
           worker' \in [Process -> Coroutine], worker'[p].id = worker[p].id,
           worker'[p].state \in {"ended", "dead"},
           \A q \in Process \ {p} : worker'[q] = worker[q]
    PROVE  InOrder(p)
<1>0. Typed /\ Orderly(p) /\ clock \in Nat /\ Idle \in Callback /\ NoFrame \in Frame
  BY IdleIsCallback DEF ServiceInv, IInv
<1>1. /\ proc' = [proc EXCEPT ![p] = "down"] /\ loop' = [loop EXCEPT ![p] = Idle]
      /\ exec' = [exec EXCEPT ![p] = NoFrame] /\ clock' = clock
      /\ UNCHANGED <<drawn, faults, seen>>
  BY DEF Halt, storeUnchanged
<1>2. Typed' /\ proc'[p] = "down" /\ loop'[p] = Idle /\ exec'[p] = NoFrame
  BY <1>0, <1>1 DEF Typed
<1>3. Orderly(p)'
  BY <1>0, <1>1, <1>2 DEF Orderly, WorkerOrderly, FramesOrderly, Idle, NoFrame
<1>4. Alone(p) /\ faults <= faults'
  BY <1>0, <1>1, ServiceAssumption DEF Alone, Typed
<1> QED  BY <1>1, <1>2, <1>3, <1>4 DEF InOrder

\* A process in which a call raises, or that crashes; an exception ends its coroutine.
LEMMA FailureInOrder ==
    ASSUME ServiceInv, NEW p \in Process, Failure(p)
    PROVE  InOrder(p)
<1>0. /\ Typed /\ Orderly(p) /\ worker[p] \in Coroutine /\ clock \in Nat
      /\ faults \in Nat /\ Idle \in Callback /\ NoFrame \in Frame
  BY IdleIsCallback, ServiceAssumption DEF ServiceInv, IInv, Typed
<1>1. CASE ExecFault(p)
  <2>1. faults' \in 0..MaxFaults /\ faults <= faults'
    BY <1>0, <1>1, ServiceAssumption DEF ExecFault
  <2> QED  BY <1>1, <2>1, GotoInOrder DEF ExecFault, storeUnchanged
<1>2. CASE LoopFault(p)
  <2>1. /\ faults' \in 0..MaxFaults /\ faults <= faults' /\ clock' = clock
        /\ loop' = [loop EXCEPT ![p] = Idle]
        /\ UNCHANGED <<proc, exec, drawn, seen>>
    BY <1>0, <1>2, ServiceAssumption DEF LoopFault, storeUnchanged
  <2>2. /\ worker' \in [Process -> Coroutine] /\ worker'[p].id = worker[p].id
        /\ \/ worker'[p].state = worker[p].state
           \/ worker'[p].state = "dead" /\ loop[p].job = "poll"
        /\ \A q \in Process \ {p} : worker'[q] = worker[q]
    <3>1. CASE loop[p].job = "poll"
      <4>1. worker' = [worker EXCEPT ![p].state = "dead"]
        BY <1>2, <3>1 DEF LoopFault
      <4> QED  BY <1>0, <3>1, <4>1 DEF Typed, Coroutine
    <3>2. CASE loop[p].job # "poll"
      BY <1>0, <1>2, <3>2 DEF LoopFault, Typed
    <3> QED  BY <3>1, <3>2
  <2>3. Typed' /\ loop'[p] = Idle
    BY <1>0, <2>1, <2>2 DEF Typed
  <2>4. Orderly(p)'
    BY <1>0, <2>1, <2>2, <2>3 DEF Orderly, WorkerOrderly, FramesOrderly, Idle
  <2>5. Alone(p)
    BY <1>0, <2>1, <2>2 DEF Alone, Typed
  <2> QED  BY <2>1, <2>3, <2>4, <2>5 DEF InOrder
<1>3. CASE Crash(p)
  <2>1. /\ worker' \in [Process -> Coroutine] /\ worker'[p].id = worker[p].id
        /\ worker'[p].state = "dead"
        /\ \A q \in Process \ {p} : worker'[q] = worker[q]
    BY <1>0, <1>3 DEF Crash, Typed, Coroutine
  <2> QED  BY <1>0, <1>3, <2>1, HaltInOrder DEF Crash
<1> QED  BY <1>1, <1>2, <1>3 DEF Failure

\* The lifespan of a process.
LEMMA LifespanInOrder ==
    ASSUME ServiceInv, NEW p \in Process, Start(p) \/ Stop(p) \/ Stopped(p)
    PROVE  InOrder(p)
<1>0. /\ Typed /\ Orderly(p) /\ worker[p] \in Coroutine /\ clock \in Nat /\ faults <= faults
  BY ServiceAssumption DEF ServiceInv, IInv, Typed
<1>1. CASE Start(p)
  <2>1. PICK w \in Draw(WorkerId \ drawn) :
           /\ worker' = [worker EXCEPT ![p] = [id |-> w, state |-> "waiting"]]
           /\ drawn' = drawn \cup {w}
    BY <1>1 DEF Start
  <2>2. /\ proc' = [proc EXCEPT ![p] = "up"] /\ clock' = clock
        /\ proc[p] = "down" /\ UNCHANGED <<loop, exec, faults, seen>>
    BY <1>1 DEF Start, storeUnchanged
  <2>3. w \in WorkerId
    BY ServiceAssumption
  <2>4. [id |-> w, state |-> "waiting"] \in Coroutine
    BY <2>3 DEF Coroutine
  <2>5. Typed' /\ proc'[p] = "up" /\ worker'[p] = [id |-> w, state |-> "waiting"]
    BY <1>0, <2>1, <2>2, <2>3, <2>4 DEF Typed
  <2>6. Orderly(p)'
    BY <1>0, <2>1, <2>2, <2>3, <2>5 DEF Orderly, WorkerOrderly, FramesOrderly
  <2>7. Alone(p)
    BY <1>0, <2>1, <2>2 DEF Alone, Typed
  <2> QED  BY <1>0, <2>1, <2>2, <2>5, <2>6, <2>7 DEF InOrder
<1>2. CASE Stop(p)
  <2>1. /\ proc' = [proc EXCEPT ![p] = "stopping"] /\ clock' = clock
        /\ UNCHANGED <<worker, loop, exec, drawn, faults, seen>>
    BY <1>2 DEF Stop, storeUnchanged
  <2>2. Typed' /\ proc'[p] = "stopping"
    BY <1>0, <2>1 DEF Typed
  <2>3. Orderly(p)'
    BY <1>0, <2>1, <2>2 DEF Orderly, WorkerOrderly, FramesOrderly
  <2>4. Alone(p)
    BY <1>0, <2>1 DEF Alone, Typed
  <2> QED  BY <1>0, <2>1, <2>2, <2>3, <2>4 DEF InOrder
<1>3. CASE Stopped(p)
  BY <1>0, <1>3, HaltInOrder DEF Stopped, Typed
<1> QED  BY <1>1, <1>2, <1>3

----------------------------------------------------------------------------
(* The invariant.                                                             *)

\* Every step of a process.
LEMMA ProcessInOrder ==
    ASSUME ServiceInv, NEW p \in Process, ProcessStep(p)
    PROVE  InOrder(p)
<1>1. CASE Request(p)
  BY <1>1, ArriveInOrder DEF Request
<1> QED  BY <1>1, HandlerInOrder, MaintainInOrder, PollInOrder, ExecuteInOrder,
            FailureInOrder, LifespanInOrder DEF ProcessStep

\* At first no process is up.
LEMMA InitOrderly == ServiceInit => ServiceInv
<1> SUFFICES ASSUME ServiceInit PROVE ServiceInv
  OBVIOUS
<1>1. IInv /\ clock = 0
  BY InitGood DEF ServiceInit, Init
<1>2. Typed
  <2>1. 0 \in 0..MaxFaults
    BY ServiceAssumption
  <2>2. [id |-> NoWorker, state |-> "ended"] \in Coroutine
    BY DEF Coroutine
  <2> QED  BY <2>1, <2>2, IdleIsCallback DEF ServiceInit, Typed
<1>3. ASSUME NEW p \in Process
      PROVE  Orderly(p)
  BY <1>1, <1>3 DEF ServiceInit, Orderly, WorkerOrderly, FramesOrderly, Idle, NoFrame
<1> QED  BY <1>1, <1>2, <1>3 DEF ServiceInv

\* A process that does nothing stays in order while others move and time passes.
LEMMA OthersOrderly ==
    ASSUME ServiceInv, NEW q \in Process, clock' \in Nat, clock <= clock', drawn \subseteq drawn',
           proc'[q] = proc[q], worker'[q] = worker[q], loop'[q] = loop[q], exec'[q] = exec[q]
    PROVE  Orderly(q)'
<1>1. Orderly(q) /\ loop[q].since \in Nat /\ exec[q].since \in Nat /\ clock \in Nat
  BY DEF ServiceInv, IInv, Typed, Callback, Frame
<1> QED  BY <1>1 DEF Orderly, WorkerOrderly, FramesOrderly

\* Time goes forward.
LEMMA ClockAdvances ==
    ASSUME ServiceInv, [Next]_vars
    PROVE  IInv' /\ clock' \in Nat /\ clock <= clock'
<1>1. IInv' /\ clock \in Nat
  BY StepGood DEF ServiceInv, IInv
<1>2. clock' = clock \/ clock' = clock + 1
  <2>1. ASSUME NEW now, Submission(now) \/ MaintainRetention(now)
        PROVE  clock' = clock
    BY <2>1 DEF Submission, CreateTask, MaintainRetention
  <2>2. ASSUME NEW now, NEW w, NEW t, Work(w, t, now)
        PROVE  clock' = clock
    BY <2>2 DEF Work, ClaimTask, RenewLease, ClaimNextItem, FinalizeItem, FailTask
  <2> QED  BY <2>1, <2>2 DEF Next, Tick, vars
<1> QED  BY <1>1, <1>2 DEF IInv

\* Every step of the service keeps the invariant.
LEMMA StepOrderly == ServiceInv /\ [ServiceNext]_allVars => ServiceInv'
<1> SUFFICES ASSUME ServiceInv, [ServiceNext]_allVars PROVE ServiceInv'
  OBVIOUS
<1>1. IInv' /\ clock' \in Nat /\ clock <= clock'
  BY UsesStore, ClockAdvances
<1>2. ASSUME NEW p \in Process, ProcessStep(p)
      PROVE  Typed' /\ \A q \in Process : Orderly(q)'
  <2>1. InOrder(p)
    BY <1>2, ProcessInOrder
  <2>2. ASSUME NEW q \in Process \ {p}
        PROVE  Orderly(q)'
    BY <1>1, <2>1, <2>2, OthersOrderly DEF InOrder, Alone
  <2> QED  BY <2>1, <2>2 DEF InOrder
<1>3. CASE Time \/ UNCHANGED allVars
  <2>1. UNCHANGED <<threads, faults, seen>>
    BY <1>3 DEF Time, allVars
  <2>2. Typed'
    BY <2>1 DEF ServiceInv, Typed, threads
  <2>3. ASSUME NEW q \in Process
        PROVE  Orderly(q)'
    BY <1>1, <2>1, <2>3, OthersOrderly DEF threads
  <2> QED  BY <1>1, <2>2, <2>3 DEF ServiceInv
<1> QED  BY <1>1, <1>2, <1>3 DEF ServiceInv, ServiceNext, ProcessStep

----------------------------------------------------------------------------
(* The theorems.                                                              *)

\* Whatever the processes, their crashes and their faults: frames and tables
\* keep their form.
THEOREM ServiceInvariance == ServiceSpec => []ServiceInv
BY InitOrderly, StepOrderly, PTL DEF ServiceSpec

\* Every thread, table and answer keeps its type.
THEOREM ServiceTypeCorrect == ServiceSpec => []ServiceTypeOK
<1>1. ServiceInv => ServiceTypeOK
  BY ImpliesTypeOK DEF ServiceInv, Typed, ServiceTypeOK
<1> QED  BY <1>1, ServiceInvariance, PTL

\* The service is a client of the repository.
THEOREM ServiceUsesRepository == ServiceSpec => UsesRepository
<1>1. ServiceInit => Init
  BY DEF ServiceInit
<1> QED  BY <1>1, UsesStore, ServiceInvariance, PTL DEF ServiceSpec, UsesRepository, Spec

\* So it keeps the promise of TaskLifecycle to its clients.
THEOREM ServiceKeepsPromise == ServiceSpec => ImplementsLifecycle
BY ServiceUsesRepository, KeepsPromise, PTL DEF UsesRepository

\* It begins tasks in the order of their acceptance.
THEOREM ServiceClaimsInOrder == ServiceSpec => ClaimsInOrder
BY ServiceUsesRepository, ClaimedInOrder, PTL DEF UsesRepository

----------------------------------------------------------------------------
(* What it takes to end a worker.                                             *)

\* No call of p has raised.
Untroubled(p) == faults = 0 \/ p \notin Faulty

Survives(p) ==
    Untroubled(p) => /\ exec[p].next # "raised"
                     /\ proc[p] = "up" => worker[p].state # "dead"

\* Whatever p does, its worker survives unless a call of p raises.
LEMMA MoverSurvives ==
    ASSUME ServiceInv, NEW p \in Process, ProcessStep(p), Survives(p)
    PROVE  Survives(p)'
<1>0. Typed /\ exec[p] \in Frame /\ worker[p] \in Coroutine
  BY DEF ServiceInv, Typed
<1>1. faults \in Nat /\ faults' \in Nat /\ faults <= faults'
  BY ProcessInOrder, ServiceAssumption DEF InOrder, Typed, ServiceInv
<1>2. Untroubled(p)' => Untroubled(p)
  BY <1>1 DEF Untroubled
<1>3. CASE Request(p) \/ Handler(p) \/ Maintain(p)
  BY <1>2, <1>3
     DEF Request, Arrive, Handler, SubmitCreate, SubmitReload, StatusRead, ResultsRead,
         ResultsItems, SummaryRead, Maintain, Survives
<1>4. CASE Poll(p)
  <2>1. CASE PollStart(p)
    BY <1>2, <2>1 DEF PollStart, Survives
  <2>2. CASE PollClaim(p)
    <3>1. CASE UNCHANGED <<exec, worker>>
      BY <1>2, <2>2, <3>1 DEF PollClaim, Survives
    <3>2. CASE ~UNCHANGED <<exec, worker>>
      <4>1. PICK t : exec' = [exec EXCEPT ![p] = [NoFrame EXCEPT !.next = "renew", !.task = t,
                                                                 !.since = clock]]
                     /\ worker' = [worker EXCEPT ![p].state = "busy"]
        BY <2>2, <3>2 DEF PollClaim
      <4>2. exec'[p].next = "renew" /\ worker'[p].state = "busy"
        BY <1>0, <4>1 DEF Typed, Coroutine, NoFrame
      <4> QED  BY <4>2 DEF Survives
    <3> QED  BY <3>1, <3>2
  <2>3. CASE Resume(p)
    BY <1>0, <1>2, <2>3 DEF Resume, NoFrame, Survives, Typed, Coroutine
  <2>4. CASE WorkerEnds(p)
    BY <1>0, <1>2, <2>4 DEF WorkerEnds, Survives, Typed, Coroutine
  <2> QED  BY <1>4, <2>1, <2>2, <2>3, <2>4 DEF Poll
<1>5. CASE Execute(p)
  <2>1. UNCHANGED <<proc, worker>>
    BY <1>5 DEF Execute, ExecRenew, ExecClaimItem, ExecInfer, ExecFinalize, ExecFail
  <2>2. exec'[p].next # "raised"
    <3>1. ASSUME NEW next, Goto(p, next), next # "raised"
          PROVE  exec'[p].next # "raised"
      BY <1>0, <3>1 DEF Goto, Typed, Frame
    <3>2. CASE ExecRenew(p)
      <4>1. ASSUME NEW now, exec' = [exec EXCEPT ![p] = [@ EXCEPT !.next = "claim_item",
                                                                  !.since = now]]
            PROVE  exec'[p].next = "claim_item"
        BY <1>0, <4>1 DEF Typed, Frame
      <4> QED  BY <3>1, <3>2, <4>1 DEF ExecRenew
    <3>3. CASE ExecClaimItem(p)
      <4>1. ASSUME NEW q, exec' = [exec EXCEPT ![p] = [@ EXCEPT !.next = "infer",
                                                                !.position = q, !.since = 0]]
            PROVE  exec'[p].next = "infer"
        BY <1>0, <4>1 DEF Typed, Frame
      <4> QED  BY <3>1, <3>3, <4>1 DEF ExecClaimItem
    <3>4. CASE ExecInfer(p)
      <4>1. PICK r : exec' = [exec EXCEPT ![p] = [@ EXCEPT !.next = "finalize", !.result = r,
                                                           !.since = clock]]
        BY <3>4 DEF ExecInfer
      <4> QED  BY <1>0, <4>1 DEF Typed, Frame
    <3>5. CASE ExecFinalize(p)
      <4>1. ASSUME NEW n, exec' = [exec EXCEPT ![p] = [@ EXCEPT !.next = n, !.position = 0,
                                                          !.result = "none", !.since = clock]]
            PROVE  exec'[p].next = n
        BY <1>0, <4>1 DEF Typed, Frame
      <4> QED  BY <3>1, <3>5, <4>1 DEF ExecFinalize
    <3>6. CASE ExecFail(p)
      BY <3>1, <3>6 DEF ExecFail
    <3> QED  BY <1>5, <3>2, <3>3, <3>4, <3>5, <3>6 DEF Execute
  <2> QED  BY <1>2, <2>1, <2>2 DEF Survives
<1>6. CASE Failure(p)
  <2>1. CASE ExecFault(p) \/ LoopFault(p)
    <3>1. ~Untroubled(p)'
      BY <1>1, <2>1 DEF ExecFault, LoopFault, Untroubled
    <3> QED  BY <3>1 DEF Survives
  <2>2. CASE Crash(p)
    BY <1>0, <2>2 DEF Crash, Halt, NoFrame, Survives, Typed
  <2> QED  BY <1>6, <2>1, <2>2 DEF Failure
<1>7. CASE Start(p)
  BY <1>0, <1>2, <1>7 DEF Start, Survives, Typed
<1>8. CASE Stop(p) \/ Stopped(p)
  BY <1>0, <1>2, <1>8 DEF Stop, Stopped, Halt, NoFrame, Survives, Typed
<1> QED  BY <1>3, <1>4, <1>5, <1>6, <1>7, <1>8 DEF ProcessStep

\* The worker of a running process is at work unless a call of that very process
\* has raised: no lost lease, no failed item, no crash or fault elsewhere ends it.
THEOREM WorkersSurvive ==
    ServiceSpec => [](\A p \in Process :
                         Untroubled(p) /\ proc[p] = "up" => worker[p].state # "dead")
<1> DEFINE Survive == \A p \in Process : Survives(p)
<1>1. ServiceInit => Survive
  BY DEF ServiceInit, Survives, NoFrame
<1>2. ServiceInv /\ Survive /\ [ServiceNext]_allVars => Survive'
  <2> SUFFICES ASSUME ServiceInv, Survive, [ServiceNext]_allVars, NEW q \in Process
               PROVE  Survives(q)'
    OBVIOUS
  <2>1. ASSUME NEW p \in Process, ProcessStep(p)
        PROVE  Survives(q)'
    <3>1. CASE q = p
      BY <2>1, <3>1, MoverSurvives
    <3>2. CASE q # p
      <4>1. /\ proc'[q] = proc[q] /\ worker'[q] = worker[q] /\ exec'[q] = exec[q]
            /\ faults \in Nat /\ faults' \in Nat /\ faults <= faults'
        BY <2>1, <3>2, ProcessInOrder, ServiceAssumption DEF InOrder, Alone, Typed, ServiceInv
      <4> QED  BY <4>1 DEF Survives, Untroubled
    <3> QED  BY <3>1, <3>2
  <2>2. CASE Time \/ UNCHANGED allVars
    BY <2>2 DEF Time, allVars, threads, Survives, Untroubled
  <2> QED  BY <2>1, <2>2 DEF ServiceNext, ProcessStep
<1>3. Survive => \A p \in Process : Untroubled(p) /\ proc[p] = "up" => worker[p].state # "dead"
  BY DEF Survives
<1> QED  BY <1>1, <1>2, <1>3, ServiceInvariance, PTL DEF ServiceSpec
=============================================================================
