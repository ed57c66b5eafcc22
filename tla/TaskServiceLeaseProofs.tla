----------------------- MODULE TaskServiceLeaseProofs -----------------------
(* Proofs about the leases of TaskService: a worker that lost its lease does  *)
(* no harm, one that has it is not surprised, none sits on a lease.           *)
(* A lease names one worker, and worker ids are drawn once: so a row that is  *)
(* leased after another worker's step is as it was before (LeasesMove), and   *)
(* what an executor knows of the task it has leased (Knows) stays true until  *)
(* it moves itself or loses the lease.                                        *)
EXTENDS TaskServiceProofs

\* No lease runs further than the lease period.
Bounded == \A t \in DOMAIN tasks : tasks[t].lease_expires_at <= clock + LeaseSeconds

\* What a step of worker w may do to leases: those of others stay as they are,
\* rows and items; none runs too far; one that stays with its worker grows.
LeasesMove(w) ==
    \A t \in DOMAIN tasks' :
        /\ tasks'[t].lease_owner \notin {w, NoWorker} =>
              t \in DOMAIN tasks /\ tasks'[t] = tasks[t] /\ items'[t] = items[t]
        /\ tasks'[t].lease_expires_at <= clock + LeaseSeconds
        /\ t \in DOMAIN tasks /\ tasks[t].lease_owner # NoWorker
              /\ tasks'[t].lease_owner = tasks[t].lease_owner
           => tasks'[t].lease_expires_at >= tasks[t].lease_expires_at

----------------------------------------------------------------------------
(* The transactions.                                                          *)

\* Expiries are numbers.
LEMMA ExpiryIsInt ==
    ASSUME IInv, NEW t \in DOMAIN tasks
    PROVE  tasks[t].lease_expires_at \in Int
BY GoodTasks DEF Good, TaskRow, NoTime

\* Rows that stay are no obstacle.
LEMMA SameMoves ==
    ASSUME IInv, Bounded, NEW w, UNCHANGED <<tasks, items>>
    PROVE  LeasesMove(w)
BY ExpiryIsInt DEF LeasesMove, Bounded

\* A transaction of w on one row.
LEMMA RowMoves ==
    ASSUME IInv, Bounded, NEW t \in DOMAIN tasks, NEW w, NEW row, NEW its,
           tasks' = [tasks EXCEPT ![t] = row], items' = [items EXCEPT ![t] = its],
           row.lease_owner \in {w, NoWorker},
           row.lease_expires_at <= clock + LeaseSeconds,
           tasks[t].lease_owner # NoWorker /\ row.lease_owner = tasks[t].lease_owner
              => row.lease_expires_at >= tasks[t].lease_expires_at
    PROVE  LeasesMove(w)
<1>1. /\ DOMAIN tasks' = DOMAIN tasks /\ tasks'[t] = row
      /\ \A u \in DOMAIN tasks : u # t => tasks'[u] = tasks[u] /\ items'[u] = items[u]
  BY DEF IInv
<1> QED  BY <1>1, ExpiryIsInt DEF LeasesMove, Bounded

\* A claim takes a lease nobody has, or one that has run out.
LEMMA ClaimMoves ==
    ASSUME IInv, Bounded, NEW w \in WorkerId, NEW now \in 0..clock, NEW t \in DOMAIN tasks,
           ClaimTask(t, w, now)
    PROVE  LeasesMove(w)
<1>1. /\ tasks[t] \in TaskRow /\ clock \in Nat /\ now <= clock /\ now \in Nat
      /\ LeaseSeconds \in Nat /\ Claimable(t, now)
  BY GoodTasks, SettingsAssumption DEF IInv, Good, ClaimTask, Oldest
<1> DEFINE row == Claimed(tasks[t], w, now)
<1>2. /\ row.lease_owner = w /\ row.lease_expires_at = now + LeaseSeconds
  BY <1>1 DEF Claimed, TaskRow
<1>3. tasks' = [tasks EXCEPT ![t] = row] /\ items' = [items EXCEPT ![t] = items[t]]
  BY DEF IInv, ClaimTask
<1> HIDE DEF row
<1>4. tasks[t].lease_owner # NoWorker => tasks[t].lease_expires_at <= now
  BY <1>1 DEF Claimable
<1>5. /\ now + LeaseSeconds <= clock + LeaseSeconds
      /\ tasks[t].lease_owner # NoWorker => now + LeaseSeconds >= tasks[t].lease_expires_at
  BY <1>1, <1>4, ExpiryIsInt
<1> QED  BY <1>2, <1>3, <1>5, RowMoves

\* A renewal with a timestamp from before the lease was had would shrink it.
LEMMA RenewMoves ==
    ASSUME IInv, Bounded, NEW w \in WorkerId, NEW now \in 0..clock, NEW t \in DOMAIN tasks,
           RenewLease(t, w, now), tasks[t].lease_expires_at <= now + LeaseSeconds
    PROVE  LeasesMove(w)
<1>1. /\ tasks[t] \in TaskRow /\ clock \in Nat /\ now <= clock /\ now \in Nat
      /\ LeaseSeconds \in Nat /\ tasks[t].lease_owner = w
  BY GoodTasks, SettingsAssumption DEF IInv, Good, RenewLease, Renewable, HoldsLease
<1> DEFINE row == [tasks[t] EXCEPT !.lease_expires_at = now + LeaseSeconds, !.updated_at = now]
<1>2. /\ row.lease_owner = w /\ row.lease_expires_at = now + LeaseSeconds
  BY <1>1 DEF TaskRow
<1>3. tasks' = [tasks EXCEPT ![t] = row] /\ items' = [items EXCEPT ![t] = items[t]]
  BY DEF IInv, RenewLease
<1> HIDE DEF row
<1>4. now + LeaseSeconds <= clock + LeaseSeconds
  BY <1>1
<1> QED  BY <1>2, <1>3, <1>4, RowMoves

\* Claiming an item leaves the lease as it is.
LEMMA ClaimItemMoves ==
    ASSUME IInv, Bounded, NEW w \in WorkerId, NEW now, NEW t, NEW q,
           ClaimNextItem(t, w, q, now)
    PROVE  LeasesMove(w)
<1>1. /\ t \in DOMAIN tasks /\ tasks[t].lease_owner = w /\ tasks' = tasks
      /\ items' = [items EXCEPT ![t][q].status = "processing"]
  BY DEF ClaimNextItem, LeaseActive, HoldsLease
<1>2. \A u \in DOMAIN tasks : u # t => items'[u] = items[u]
  BY <1>1 DEF IInv
<1> QED  BY <1>1, <1>2, ExpiryIsInt DEF LeasesMove, Bounded

\* Finalising an item keeps the lease, or gives it up with the task.
LEMMA FinalizeMoves ==
    ASSUME IInv, Bounded, NEW w \in WorkerId, NEW now, NEW t, NEW q, NEW r \in ItemFinal,
           FinalizeItem(t, w, q, r, now)
    PROVE  LeasesMove(w)
<1>1. /\ t \in DOMAIN tasks /\ tasks[t].lease_owner = w
      /\ tasks' = [tasks EXCEPT ![t] = Advanced(tasks[t], r, now)]
      /\ items' = [items EXCEPT ![t] = Recorded(items[t], q, r)]
      /\ tasks[t] \in TaskRow /\ clock \in Nat /\ LeaseSeconds \in Nat
  BY GoodTasks, SettingsAssumption DEF IInv, Good, FinalizeItem, Mutable, HoldsLease, Recorded
<1> DEFINE row == Advanced(tasks[t], r, now)
<1>2. /\ \/ row.lease_owner = w /\ row.lease_expires_at = tasks[t].lease_expires_at
         \/ row.lease_owner = NoWorker /\ row.lease_expires_at = NoTime
  BY <1>1 DEF Advanced, TaskRow
<1>3. tasks' = [tasks EXCEPT ![t] = row]
  BY <1>1
<1> HIDE DEF row
<1>4. /\ row.lease_owner \in {w, NoWorker}
      /\ row.lease_expires_at <= clock + LeaseSeconds
      /\ tasks[t].lease_owner # NoWorker /\ row.lease_owner = tasks[t].lease_owner
            => row.lease_expires_at >= tasks[t].lease_expires_at
  BY <1>1, <1>2, ExpiryIsInt, SettingsAssumption DEF Bounded, NoTime
<1> QED  BY <1>1, <1>2, <1>3, <1>4, RowMoves

\* Giving a task up gives up its lease.
LEMMA FailMoves ==
    ASSUME IInv, Bounded, NEW w \in WorkerId, NEW now, NEW t, FailTask(t, w, now)
    PROVE  LeasesMove(w)
<1>1. /\ t \in DOMAIN tasks /\ tasks[t].lease_owner = w
      /\ tasks' = [tasks EXCEPT ![t] = GivenUp(tasks[t], now)]
      /\ items' = [items EXCEPT ![t] = AllFailed(items[t])]
      /\ tasks[t] \in TaskRow /\ clock \in Nat /\ LeaseSeconds \in Nat
  BY GoodTasks, SettingsAssumption
     DEF IInv, Good, FailTask, Mutable, HoldsLease, AllFailed, Open, Undecided
<1> DEFINE row == GivenUp(tasks[t], now)
<1>2. row.lease_owner = NoWorker /\ row.lease_expires_at = NoTime
  BY <1>1 DEF GivenUp, TaskRow
<1>3. tasks' = [tasks EXCEPT ![t] = row]
  BY <1>1
<1> HIDE DEF row
<1>4. /\ row.lease_expires_at <= clock + LeaseSeconds
      /\ tasks[t].lease_owner # NoWorker /\ row.lease_owner = tasks[t].lease_owner
            => row.lease_expires_at >= tasks[t].lease_expires_at
  BY <1>1, <1>2 DEF NoTime
<1> QED  BY <1>1, <1>2, <1>3, <1>4, RowMoves

\* A new task has no lease.
LEMMA CreateMoves ==
    ASSUME IInv, Bounded, NEW t, NEW o, NEW n, NEW now, NEW w, CreateTask(t, o, n, now)
    PROVE  LeasesMove(w)
<1>1. t \notin DOMAIN tasks /\ DOMAIN tasks' = DOMAIN tasks \cup {t}
      /\ tasks'[t] = NewTask(o, n, now) /\ clock \in Nat /\ LeaseSeconds \in Nat
  BY SettingsAssumption DEF IInv, CreateTask
<1>2. \A u \in DOMAIN tasks : tasks'[u] = tasks[u] /\ items'[u] = items[u]
  BY <1>1 DEF IInv, CreateTask
<1>3. tasks'[t].lease_owner = NoWorker /\ tasks'[t].lease_expires_at <= clock + LeaseSeconds
  BY <1>1 DEF NewTask, NoTime
<1> QED  BY <1>1, <1>2, <1>3, ExpiryIsInt DEF LeasesMove, Bounded

\* Retention leaves leased rows alone.
LEMMA RetentionMoves ==
    ASSUME IInv, Bounded, NEW now, NEW w, MaintainRetention(now)
    PROVE  LeasesMove(w)
<1>1. DOMAIN tasks' \subseteq DOMAIN tasks /\ clock \in Nat /\ LeaseSeconds \in Nat
  BY SettingsAssumption DEF IInv, MaintainRetention
<1>2. ASSUME NEW t \in DOMAIN tasks'
      PROVE  \/ tasks'[t] = tasks[t] /\ items'[t] = items[t]
             \/ tasks'[t].lease_owner = NoWorker /\ tasks'[t].lease_expires_at = NoTime
  <2>1. tasks[t] \in TaskRow
    BY <1>1, <1>2, GoodTasks DEF Good
  <2>2. CASE t \in ToPurge(now)
    <3>1. tasks'[t] = Purged(tasks[t], now)
      BY <1>2, <2>2 DEF MaintainRetention
    <3> QED  BY <2>1, <3>1 DEF Purged, TaskRow
  <2>3. CASE t \notin ToPurge(now)
    BY <1>2, <2>3 DEF MaintainRetention
  <2> QED  BY <2>2, <2>3
<1> QED  BY <1>1, <1>2, ExpiryIsInt DEF LeasesMove, Bounded, NoTime

----------------------------------------------------------------------------
(* What each worker knows.                                                    *)

Distinct ==
    \A p, q \in Process : p # q /\ worker[p].id = worker[q].id => worker[p].id = NoWorker

\* A lease is held by a worker that has been there.
OwnersDrawn == \A t \in DOMAIN tasks : tasks[t].lease_owner \in drawn \cup {NoWorker}

\* Its own leases are what it works on ...
WorksOnLeases(p) ==
    \A t \in DOMAIN tasks :
        worker[p].id # NoWorker /\ tasks[t].lease_owner = worker[p].id =>
            \/ worker[p].state = "dead"
            \/ worker[p].state = "busy" /\ exec[p].task = t /\ exec[p].next # "returned"

\* ... and while it has one, its frame is right about the task.
KnowsTask(p) ==
    LET t == exec[p].task
        w == worker[p].id
    IN  /\ exec[p].next \in {"infer", "finalize"} /\ Mutable(t, w) =>
              /\ IsNextItem(t, exec[p].position)
              /\ items[t][exec[p].position].status = "processing"
        /\ exec[p].next = "refused" => ~Mutable(t, w)
        /\ exec[p].next = "claim_item" /\ HoldsLease(t, w) =>
              tasks[t].lease_expires_at > exec[p].since
        /\ exec[p].next = "renew" /\ HoldsLease(t, w) =>
              tasks[t].lease_expires_at <= exec[p].since + LeaseSeconds

Knows(p) == WorksOnLeases(p) /\ KnowsTask(p)

LeaseInv ==
    /\ ServiceInv
    /\ Bounded /\ Distinct /\ OwnersDrawn
    /\ \A p \in Process : Knows(p)

----------------------------------------------------------------------------
(* What a step does to the tables.                                            *)

\* Facts about p that its steps use.
LEMMA Holder ==
    ASSUME LeaseInv, NEW p \in Process
    PROVE  /\ IInv /\ Bounded /\ clock \in Nat
           /\ exec[p].next # "none" \/ loop[p].next = "claim" => worker[p].id \in WorkerId
           /\ \A now \in loop[p].since..clock : now \in 0..clock
           /\ \A now \in exec[p].since..clock : now \in 0..clock
           /\ exec[p].since \in 0..clock
<1>1. loop[p] \in Callback /\ exec[p] \in Frame /\ Orderly(p) /\ clock \in Nat
  BY DEF LeaseInv, ServiceInv, IInv, Typed
<1> QED  BY <1>1 DEF LeaseInv, ServiceInv, Callback, Frame, Orderly, WorkerOrderly, FramesOrderly

\* A step of p touches only what its worker has leased, or nobody has.
LEMMA StepMoves ==
    ASSUME LeaseInv, NEW p \in Process, ProcessStep(p)
    PROVE  LeasesMove(worker[p].id)
<1>0. /\ IInv /\ Bounded /\ clock \in Nat
      /\ exec[p].next # "none" \/ loop[p].next = "claim" => worker[p].id \in WorkerId
      /\ \A now \in loop[p].since..clock : now \in 0..clock
      /\ \A now \in exec[p].since..clock : now \in 0..clock
      /\ exec[p].since \in Nat
  BY Holder
<1> DEFINE w == worker[p].id
<1>8. CASE storeUnchanged
  BY <1>0, <1>8, SameMoves DEF storeUnchanged
<1>1. CASE SubmitCreate(p)
  BY <1>0, <1>1, CreateMoves DEF SubmitCreate
<1>2. CASE Maintain(p)
  BY <1>0, <1>2, RetentionMoves DEF Maintain
<1>3. CASE PollClaim(p)
  <2>1. w \in WorkerId
    BY <1>0, <1>3 DEF PollClaim
  <2>2. ASSUME NEW now \in loop[p].since..clock, NEW t \in Oldest(now), ClaimTask(t, w, now)
        PROVE  LeasesMove(w)
    BY <1>0, <2>1, <2>2, ClaimMoves DEF Oldest
  <2> QED  BY <1>3, <1>8, <2>2 DEF PollClaim
<1>4. CASE ExecRenew(p)
  <2>1. w \in WorkerId
    BY <1>0, <1>4 DEF ExecRenew
  <2>2. ASSUME NEW now \in exec[p].since..clock, RenewLease(exec[p].task, w, now)
        PROVE  LeasesMove(w)
    <3>1. exec[p].task \in DOMAIN tasks /\ HoldsLease(exec[p].task, w)
      BY <2>2 DEF RenewLease, Renewable, HoldsLease
    <3>2. tasks[exec[p].task].lease_expires_at <= exec[p].since + LeaseSeconds
      BY <1>4, <3>1 DEF LeaseInv, Knows, KnowsTask, ExecRenew
    <3>3. tasks[exec[p].task].lease_expires_at <= now + LeaseSeconds
      BY <1>0, <3>1, <3>2, ExpiryIsInt, SettingsAssumption
    <3> QED  BY <1>0, <2>1, <2>2, <3>1, <3>3, RenewMoves
  <2> QED  BY <1>4, <1>8, <2>2 DEF ExecRenew
<1>5. CASE ExecClaimItem(p)
  BY <1>0, <1>5, <1>8, ClaimItemMoves DEF ExecClaimItem
<1>6. CASE ExecFinalize(p)
  <2>1. w \in WorkerId /\ exec[p].result \in ItemFinal
    BY <1>0, <1>6 DEF ExecFinalize, LeaseInv, ServiceInv, Orderly, FramesOrderly
  <2> QED  BY <1>0, <1>6, <1>8, <2>1, FinalizeMoves DEF ExecFinalize
<1>7. CASE ExecFail(p)
  <2>1. w \in WorkerId
    BY <1>0, <1>7 DEF ExecFail
  <2>2. ASSUME NEW now, FailTask(exec[p].task, w, now)
        PROVE  LeasesMove(w)
    BY <1>0, <2>1, <2>2, FailMoves
  <2> QED  BY <1>7, <1>8, <2>2 DEF ExecFail
<1>9. \/ storeUnchanged
      \/ SubmitCreate(p) \/ Maintain(p) \/ PollClaim(p)
      \/ ExecRenew(p) \/ ExecClaimItem(p) \/ ExecFinalize(p) \/ ExecFail(p)
  BY ProcessWrites
<1> QED  BY <1>1, <1>2, <1>3, <1>4, <1>5, <1>6, <1>7, <1>8, <1>9

----------------------------------------------------------------------------
(* What p itself knows after its step.                                        *)

\* What every step may rely on.
LEMMA Reliable ==
    ASSUME LeaseInv, NEW p \in Process, ProcessStep(p)
    PROVE  /\ IInv /\ IInv' /\ ServiceInv' /\ Typed /\ Orderly(p) /\ Knows(p)
           /\ clock \in Nat /\ clock' \in Nat /\ clock <= clock'
           /\ InOrder(p)
           /\ worker[p] \in Coroutine /\ exec[p] \in Frame
<1>1. ServiceInv /\ ServiceNext
  BY DEF LeaseInv, ServiceNext, ProcessStep
<1>2. ServiceInv'
  BY <1>1, StepOrderly
<1>3. clock' \in Nat /\ clock <= clock' /\ clock \in Nat
  BY <1>1, UsesStore, ClockAdvances DEF ServiceInv, IInv
<1>4. InOrder(p)
  BY <1>1, ProcessInOrder
<1> QED  BY <1>1, <1>2, <1>3, <1>4, ServiceAssumption DEF LeaseInv, ServiceInv, Typed

\* The rows leased to w are as they were.
Keeps(w) ==
    \A t \in DOMAIN tasks' : tasks'[t].lease_owner = w =>
        t \in DOMAIN tasks /\ tasks'[t] = tasks[t] /\ items'[t] = items[t]

\* A worker that does not move, or only dies, knows what it knew.
LEMMA KnowsStill ==
    ASSUME LeaseInv, NEW q \in Process, exec'[q] = exec[q], worker'[q].id = worker[q].id,
           worker'[q].state \in {worker[q].state, "dead"},
           worker[q].id # NoWorker => Keeps(worker[q].id)
    PROVE  Knows(q)'
<1> DEFINE t == exec[q].task
           w == worker[q].id
<1>0. Knows(q) /\ (exec[q].next # "none" => w # NoWorker)
  BY Holder, SettingsAssumption DEF LeaseInv
<1>1. WorksOnLeases(q)'
  BY <1>0 DEF Knows, WorksOnLeases, Keeps
<1>2. ASSUME exec[q].next # "none", t \in DOMAIN tasks', tasks'[t].lease_owner = w
      PROVE  tasks'[t] = tasks[t] /\ items'[t] = items[t] /\ t \in DOMAIN tasks
             /\ tasks[t].lease_owner = w
  BY <1>0, <1>2 DEF Keeps
<1>3. KnowsTask(q)'
  BY <1>0, <1>2 DEF Knows, KnowsTask, Mutable, HoldsLease, IsNextItem, Undecided
<1> QED  BY <1>1, <1>3 DEF Knows

\* Without a frame it is enough that it holds no lease, or is dead.
LEMMA KnowsIdle ==
    ASSUME NEW p \in Process, exec'[p].next = "none",
           \A t \in DOMAIN tasks' :
              worker'[p].id # NoWorker /\ tasks'[t].lease_owner = worker'[p].id
                => worker'[p].state = "dead"
    PROVE  Knows(p)'
BY DEF Knows, WorksOnLeases, KnowsTask

\* A store that stays is kept.
LEMMA SameKeeps ==
    ASSUME UNCHANGED <<tasks, items>>, NEW w
    PROVE  Keeps(w)
BY DEF Keeps

\* Steps of the loop that leave the executor and the coroutine alone.
LEMMA LoopKnows ==
    ASSUME LeaseInv, NEW p \in Process, ProcessStep(p),
           \/ Request(p) \/ Handler(p) \/ Maintain(p) \/ PollStart(p)
           \/ LoopFault(p) \/ Stop(p)
    PROVE  Knows(p)'
<1>0. /\ IInv /\ Bounded /\ Typed
      /\ worker[p] \in Coroutine
  BY Reliable DEF LeaseInv, InOrder
<1>1. exec'[p] = exec[p] /\ worker'[p].id = worker[p].id
      /\ worker'[p].state \in {worker[p].state, "dead"}
  <2>1. CASE LoopFault(p)
    BY <1>0, <2>1 DEF LoopFault, Typed, Coroutine
  <2>2. CASE Request(p) \/ Maintain(p) \/ PollStart(p) \/ Stop(p)
    BY <2>2 DEF Request, Arrive, Maintain, PollStart, Stop
  <2>3. CASE Handler(p)
    BY <2>3 DEF Handler, SubmitCreate, SubmitReload, StatusRead, ResultsRead, ResultsItems,
                SummaryRead
  <2> QED  BY <2>1, <2>2, <2>3
<1>2. \/ storeUnchanged \/ SubmitCreate(p) \/ Maintain(p)
  <2>1. Handler(p) => SubmitCreate(p) \/ storeUnchanged
    BY DEF Handler, SubmitReload, StatusRead, ResultsRead, ResultsItems, SummaryRead
  <2> QED  BY <2>1 DEF Request, Arrive, PollStart, LoopFault, Stop
<1>3. worker[p].id # NoWorker => Keeps(worker[p].id)
  <2>1. storeUnchanged => Keeps(worker[p].id)
    BY SameKeeps DEF storeUnchanged
  <2>2. SubmitCreate(p) => LeasesMove(NoWorker)
    BY <1>0, CreateMoves DEF SubmitCreate
  <2>3. Maintain(p) => LeasesMove(NoWorker)
    BY <1>0, RetentionMoves DEF Maintain
  <2> QED  BY <1>2, <2>1, <2>2, <2>3 DEF LeasesMove, Keeps
<1> QED  BY <1>0, <1>1, <1>3, KnowsStill

\* A worker that waits, or has returned, holds no lease.
LEMMA HoldsNone ==
    ASSUME LeaseInv, NEW p \in Process, NEW t \in DOMAIN tasks, worker[p].id # NoWorker,
           tasks[t].lease_owner = worker[p].id, worker[p].state # "dead"
    PROVE  worker[p].state = "busy" /\ exec[p].task = t /\ exec[p].next # "returned"
BY DEF LeaseInv, Knows, WorksOnLeases

\* The executor is left without a frame.
LEMMA EndKnows ==
    ASSUME LeaseInv, NEW p \in Process, ProcessStep(p),
           Resume(p) \/ WorkerEnds(p) \/ Crash(p) \/ Stopped(p)
    PROVE  Knows(p)'
<1>0. Typed /\ Orderly(p) /\ worker[p] \in Coroutine /\ tasks' = tasks
  BY Reliable DEF Resume, WorkerEnds, Crash, Stopped, Halt, storeUnchanged
<1>1. exec'[p].next = "none"
  BY <1>0 DEF Resume, WorkerEnds, Crash, Stopped, Halt, Typed, NoFrame, Orderly, WorkerOrderly
<1>2. worker'[p].id = worker[p].id
  BY <1>0 DEF Resume, WorkerEnds, Crash, Stopped, Halt, Typed, Coroutine
<1>3. \/ worker'[p].state = "dead"
      \/ worker[p].state \in {"waiting", "ended"}
      \/ exec[p].next = "returned" /\ worker[p].state # "dead"
  <2>1. CASE Resume(p)
    <3>1. worker[p].state = "busy"
      BY <1>0, <2>1 DEF Resume, Orderly, WorkerOrderly
    <3> QED  BY <1>0, <2>1, <3>1 DEF Resume, Typed, Coroutine
  <2>2. CASE WorkerEnds(p) \/ Stopped(p)
    BY <1>0, <2>2 DEF WorkerEnds, Stopped, Typed, Coroutine
  <2>3. CASE Crash(p)
    BY <1>0, <2>3 DEF Crash, Typed, Coroutine
  <2> QED  BY <2>1, <2>2, <2>3
<1> QED  BY <1>0, <1>1, <1>2, <1>3, HoldsNone, KnowsIdle

\* A new worker holds nothing: its id was never drawn before.
LEMMA StartKnows ==
    ASSUME LeaseInv, NEW p \in Process, ProcessStep(p), Start(p)
    PROVE  Knows(p)' /\ worker'[p].id \in WorkerId \ drawn
<1>0. Typed /\ Orderly(p) /\ OwnersDrawn /\ tasks' = tasks
  BY Reliable DEF Start, storeUnchanged, LeaseInv
<1>1. PICK w \in Draw(WorkerId \ drawn) :
         worker' = [worker EXCEPT ![p] = [id |-> w, state |-> "waiting"]]
  BY DEF Start
<1>2. w \in WorkerId \ drawn
  BY ServiceAssumption
<1>3. worker'[p].id = w /\ exec'[p].next = "none"
  BY <1>0, <1>1 DEF Start, Typed, Orderly, WorkerOrderly
<1>4. \A t \in DOMAIN tasks : tasks[t].lease_owner # w
  BY <1>0, <1>2, SettingsAssumption DEF OwnersDrawn
<1> QED  BY <1>0, <1>2, <1>3, <1>4, KnowsIdle

\* A worker takes a task: the lease ends within the lease period from now.
LEMMA ClaimKnows ==
    ASSUME LeaseInv, NEW p \in Process, ProcessStep(p), PollClaim(p)
    PROVE  Knows(p)'
<1>0. /\ IInv /\ Typed /\ Orderly(p) /\ Knows(p) /\ clock' = clock /\ clock \in Nat
      /\ worker[p] \in Coroutine
  <2>1. clock' = clock
    BY DEF PollClaim, ClaimTask, storeUnchanged
  <2> QED  BY <2>1, Reliable DEF InOrder
<1>1. worker[p].state = "waiting"
  BY <1>0 DEF PollClaim, Orderly, WorkerOrderly
<1>2. CASE storeUnchanged /\ UNCHANGED <<exec, worker>>
  BY <1>0, <1>2, SameKeeps, KnowsStill DEF storeUnchanged
<1>3. ASSUME NEW now \in loop[p].since..clock, NEW t \in Oldest(now),
             ClaimTask(t, worker[p].id, now),
             exec' = [exec EXCEPT ![p] = [NoFrame EXCEPT !.next = "renew", !.task = t,
                                                         !.since = clock]],
             worker' = [worker EXCEPT ![p].state = "busy"]
      PROVE  Knows(p)'
  <2>1. /\ exec'[p].next = "renew" /\ exec'[p].task = t /\ exec'[p].since = clock
        /\ worker'[p].id = worker[p].id /\ worker'[p].state = "busy"
    BY <1>0, <1>3 DEF Typed, NoFrame, Coroutine
  <2>2. DOMAIN tasks' = DOMAIN tasks /\ \A u \in DOMAIN tasks : u # t => tasks'[u] = tasks[u]
    BY <1>3 DEF ClaimTask, Oldest
  <2>3. WorksOnLeases(p)'
    BY <1>1, <2>1, <2>2, HoldsNone DEF WorksOnLeases
  <2>4. LeasesMove(worker[p].id)
    BY StepMoves
  <2>5. KnowsTask(p)'
    BY <1>0, <2>1, <2>4 DEF KnowsTask, LeasesMove, HoldsLease
  <2> QED  BY <2>3, <2>5 DEF Knows
<1> QED  BY <1>2, <1>3 DEF PollClaim

----------------------------------------------------------------------------
(* The executor.                                                              *)

\* The task stays the same, and no other becomes leased to this worker.
LEMMA SameTask ==
    ASSUME LeaseInv, NEW p \in Process, exec'[p].task = exec[p].task, exec[p].next # "none",
           worker'[p] = worker[p],
           \A t \in DOMAIN tasks' : t # exec[p].task /\ tasks'[t].lease_owner = worker[p].id
              => t \in DOMAIN tasks /\ tasks[t].lease_owner = worker[p].id,
           \/ exec'[p].next # "returned"
           \/ exec[p].task \in DOMAIN tasks' => tasks'[exec[p].task].lease_owner # worker[p].id
    PROVE  WorksOnLeases(p)'
<1>1. worker[p].state = "busy"
  BY DEF LeaseInv, ServiceInv, Orderly, WorkerOrderly
<1> QED  BY <1>1, HoldsNone DEF WorksOnLeases

\* A row leased to a worker is being processed, has an item left to decide, and
\* may be written by its worker.
LEMMA LeasedRow ==
    ASSUME IInv, NEW w \in WorkerId, NEW t, HoldsLease(t, w)
    PROVE  /\ t \in DOMAIN tasks /\ tasks[t].status = "processing" /\ ~tasks[t].purged
           /\ Undecided(t) # {} /\ Mutable(t, w) /\ Renewable(t, w)
<1>1. t \in DOMAIN tasks /\ tasks[t].lease_owner = w /\ w # NoWorker
  BY SettingsAssumption DEF HoldsLease
<1>2. LeaseMatchesStatus /\ StatusIsTruthful
  BY ImpliesLease, ImpliesTruthful
<1>3. tasks[t].status = "processing" /\ ~tasks[t].purged
  BY <1>1, <1>2 DEF LeaseMatchesStatus
<1>4. Undecided(t) # {}
  BY <1>1, <1>2, <1>3 DEF StatusIsTruthful, Running
<1> QED  BY <1>1, <1>3, <1>4 DEF Mutable, Renewable, HoldsLease, Running, Terminal

\* A renewal: the lease is there, or the executor gives up.
LEMMA RenewKnows ==
    ASSUME LeaseInv, NEW p \in Process, ProcessStep(p), ExecRenew(p)
    PROVE  Knows(p)'
<1>0. /\ IInv /\ Typed /\ Orderly(p) /\ Knows(p) /\ clock \in Nat /\ exec[p] \in Frame
      /\ UNCHANGED worker /\ exec[p].since \in Nat
  BY Reliable DEF ExecRenew, Frame
<1>w. worker[p].id \in WorkerId
  BY Holder DEF ExecRenew
<1> DEFINE t == exec[p].task
           w == worker[p].id
<1>1. ASSUME NEW now \in exec[p].since..clock, RenewLease(t, w, now),
             exec' = [exec EXCEPT ![p] = [@ EXCEPT !.next = "claim_item", !.since = now]]
      PROVE  Knows(p)'
  <2>1. /\ exec'[p].next = "claim_item" /\ exec'[p].task = t /\ exec'[p].since = now
        /\ now \in Nat
    BY <1>0, <1>1 DEF Typed, Frame
  <2>2. /\ DOMAIN tasks' = DOMAIN tasks /\ \A u \in DOMAIN tasks : u # t => tasks'[u] = tasks[u]
        /\ t \in DOMAIN tasks
    BY <1>1 DEF RenewLease, Renewable, HoldsLease
  <2>3. tasks'[t].lease_expires_at = now + LeaseSeconds
    <3>1. tasks[t] \in TaskRow
      BY <1>0, <2>2, GoodTasks DEF Good
    <3>2. tasks'[t] = [tasks[t] EXCEPT !.lease_expires_at = now + LeaseSeconds, !.updated_at = now]
      BY <1>1, <2>2 DEF RenewLease
    <3> QED  BY <3>1, <3>2 DEF TaskRow
  <2>4. WorksOnLeases(p)'
    BY <1>0, <2>1, <2>2, SameTask DEF ExecRenew
  <2>5. now + LeaseSeconds > now
    BY <2>1, SettingsAssumption
  <2>6. KnowsTask(p)'
    BY <1>0, <2>1, <2>3, <2>5 DEF KnowsTask
  <2> QED  BY <2>4, <2>6 DEF Knows
<1>2. CASE ~Renewable(t, w) /\ Goto(p, "refused") /\ storeUnchanged
  <2>1. exec'[p].next = "refused" /\ exec'[p].task = t /\ tasks' = tasks
    BY <1>0, <1>2 DEF Goto, Typed, Frame, storeUnchanged
  <2>2. WorksOnLeases(p)'
    BY <1>0, <2>1, SameTask DEF ExecRenew
  <2>3. ~HoldsLease(t, w)
    BY <1>0, <1>w, <1>2, LeasedRow
  <2>4. KnowsTask(p)'
    BY <1>0, <2>1, <2>3 DEF KnowsTask, Mutable, HoldsLease
  <2> QED  BY <2>2, <2>4 DEF Knows
<1> QED  BY <1>1, <1>2 DEF ExecRenew

\* The item claimed is being processed by this lease.
LEMMA ClaimItemKnows ==
    ASSUME LeaseInv, NEW p \in Process, ProcessStep(p), ExecClaimItem(p)
    PROVE  Knows(p)'
<1>0. /\ IInv /\ Typed /\ Orderly(p) /\ Knows(p) /\ exec[p] \in Frame
      /\ UNCHANGED worker
  BY Reliable DEF ExecClaimItem
<1>w. worker[p].id \in WorkerId
  BY Holder DEF ExecClaimItem
<1> DEFINE t == exec[p].task
           w == worker[p].id
<1>1. ASSUME NEW q \in 0..MaxItems - 1, ClaimNextItem(t, w, q, exec[p].since),
             exec' = [exec EXCEPT ![p] = [@ EXCEPT !.next = "infer", !.position = q, !.since = 0]]
      PROVE  Knows(p)'
  <2>1. /\ exec'[p].next = "infer" /\ exec'[p].task = t /\ exec'[p].position = q
        /\ tasks' = tasks /\ t \in DOMAIN tasks
    BY <1>0, <1>1 DEF Typed, Frame, ClaimNextItem, LeaseActive, HoldsLease
  <2>2. WorksOnLeases(p)'
    BY <1>0, <2>1, SameTask DEF ExecClaimItem
  <2>3. /\ DOMAIN items'[t] = DOMAIN items[t] /\ items'[t][q].status = "processing"
        /\ \A r \in DOMAIN items[t] \ {q} : items'[t][r] = items[t][r]
        /\ IsNextItem(t, q)
    <3>1. items[t] \in [0..tasks[t].accepted - 1 -> ItemRow] /\ q \in DOMAIN items[t]
      BY <1>1, <2>1, <1>0, GoodTasks DEF Good, ClaimNextItem, IsNextItem, Undecided
    <3>2. items[t][q] \in ItemRow
      BY <3>1
    <3>3. items'[t] = [items[t] EXCEPT ![q].status = "processing"]
      BY <1>0, <1>1, <2>1 DEF ClaimNextItem, IInv
    <3> QED  BY <1>1, <3>1, <3>2, <3>3 DEF ClaimNextItem, ItemRow
  <2>4. Undecided(t)' = Undecided(t)
    BY <2>1, <2>3 DEF Undecided, IsNextItem, Running
  <2>5. KnowsTask(p)'
    BY <2>1, <2>3, <2>4 DEF KnowsTask, IsNextItem
  <2> QED  BY <2>2, <2>5 DEF Knows
<1>2. CASE /\ LeaseActive(t, w, exec[p].since) => Undecided(t) = {}
           /\ Goto(p, "returned") /\ storeUnchanged
  <2>1. exec'[p].next = "returned" /\ exec'[p].task = t /\ tasks' = tasks
    BY <1>0, <1>2 DEF Goto, Typed, Frame, storeUnchanged
  <2>2. ~HoldsLease(t, w)
    <3>1. HoldsLease(t, w) => tasks[t].lease_expires_at > exec[p].since
      BY <1>0 DEF ExecClaimItem, Knows, KnowsTask
    <3> QED  BY <1>0, <1>w, <1>2, <3>1, LeasedRow DEF LeaseActive
  <2>3. WorksOnLeases(p)'
    BY <1>0, <2>1, <2>2, SameTask DEF HoldsLease, ExecClaimItem
  <2>4. KnowsTask(p)'
    BY <2>1 DEF KnowsTask
  <2> QED  BY <2>3, <2>4 DEF Knows
<1> QED  BY <1>1, <1>2 DEF ExecClaimItem

\* An inference changes nothing.
LEMMA InferKnows ==
    ASSUME LeaseInv, NEW p \in Process, ProcessStep(p), ExecInfer(p)
    PROVE  Knows(p)'
<1>0. /\ Typed /\ Orderly(p) /\ Knows(p) /\ exec[p] \in Frame
      /\ UNCHANGED <<worker, tasks, items>>
  BY Reliable DEF ExecInfer, storeUnchanged
<1>1. /\ exec'[p].next = "finalize" /\ exec'[p].task = exec[p].task
      /\ exec'[p].position = exec[p].position
  BY <1>0 DEF ExecInfer, Typed, Frame
<1>2. WorksOnLeases(p)'
  BY <1>0, <1>1, SameTask DEF ExecInfer
<1>3. KnowsTask(p)'
  BY <1>0, <1>1 DEF Knows, KnowsTask, ExecInfer, Mutable, HoldsLease, IsNextItem, Undecided
<1> QED  BY <1>2, <1>3 DEF Knows

\* After an item the lease is renewed next, or the task is over.
LEMMA FinalizeKnows ==
    ASSUME LeaseInv, NEW p \in Process, ProcessStep(p), ExecFinalize(p)
    PROVE  Knows(p)'
<1>0. /\ IInv /\ IInv' /\ Typed /\ Orderly(p) /\ Knows(p) /\ exec[p] \in Frame
      /\ clock \in Nat /\ UNCHANGED worker
  BY Reliable DEF ExecFinalize
<1>w. worker[p].id \in WorkerId
  BY Holder DEF ExecFinalize
<1> DEFINE t == exec[p].task
           w == worker[p].id
           q == exec[p].position
<1>1. ASSUME NEW now \in exec[p].since..clock, FinalizeItem(t, w, q, exec[p].result, now),
             NEW next, next = IF tasks'[t].status \in Terminal THEN "returned" ELSE "renew",
             exec' = [exec EXCEPT ![p] = [@ EXCEPT !.next = next, !.position = 0,
                                                   !.result = "none", !.since = clock]]
      PROVE  Knows(p)'
  <2>1. /\ exec'[p].next = next /\ exec'[p].task = t /\ exec'[p].since = clock
    BY <1>0, <1>1 DEF Typed, Frame
  <2>2. /\ DOMAIN tasks' = DOMAIN tasks /\ \A u \in DOMAIN tasks : u # t => tasks'[u] = tasks[u]
        /\ t \in DOMAIN tasks
    BY <1>1 DEF FinalizeItem, Mutable, HoldsLease
  <2>3. next = "returned" => tasks'[t].lease_owner # w
    <3>1. Leased(tasks'[t], items'[t])
      BY <1>0, <2>2 DEF IInv, Good
    <3> QED  BY <1>1, <1>w, <3>1, SettingsAssumption DEF Leased, Terminal
  <2>4. WorksOnLeases(p)'
    BY <1>0, <2>1, <2>2, <2>3, SameTask DEF ExecFinalize
  <2>5. LeasesMove(w)
    BY StepMoves
  <2>6. KnowsTask(p)'
    BY <1>0, <1>1, <2>1, <2>2, <2>5 DEF KnowsTask, LeasesMove, HoldsLease
  <2> QED  BY <2>4, <2>6 DEF Knows
<1>2. CASE /\ Mutable(t, w) => q \notin Undecided(t)
           /\ Goto(p, "refused") /\ storeUnchanged
  <2>1. exec'[p].next = "refused" /\ exec'[p].task = t /\ tasks' = tasks
    BY <1>0, <1>2 DEF Goto, Typed, Frame, storeUnchanged
  <2>2. ~Mutable(t, w)
    BY <1>0, <1>2 DEF ExecFinalize, Knows, KnowsTask, IsNextItem
  <2>3. WorksOnLeases(p)'
    BY <1>0, <2>1, SameTask DEF ExecFinalize
  <2>4. KnowsTask(p)'
    BY <1>0, <2>1, <2>2 DEF KnowsTask, Mutable, HoldsLease
  <2> QED  BY <2>3, <2>4 DEF Knows
<1> QED  BY <1>1, <1>2 DEF ExecFinalize

\* After a failure there is no lease to know of.
LEMMA FailKnows ==
    ASSUME LeaseInv, NEW p \in Process, ProcessStep(p), ExecFail(p)
    PROVE  Knows(p)'
<1>0. /\ IInv /\ Typed /\ Orderly(p) /\ Knows(p) /\ exec[p] \in Frame
      /\ UNCHANGED worker
  BY Reliable DEF ExecFail
<1>w. worker[p].id \in WorkerId
  BY Holder DEF ExecFail
<1> DEFINE t == exec[p].task
           w == worker[p].id
<1>1. exec'[p].next = "returned" /\ exec'[p].task = t
  BY <1>0 DEF ExecFail, Goto, Typed, Frame
<1>2. KnowsTask(p)'
  BY <1>1 DEF KnowsTask
<1>3. /\ \A u \in DOMAIN tasks' : u # t => u \in DOMAIN tasks /\ tasks'[u] = tasks[u]
      /\ t \in DOMAIN tasks' => tasks'[t].lease_owner # w
  <2>1. ASSUME NEW now, FailTask(t, w, now)
        PROVE  /\ DOMAIN tasks' = DOMAIN tasks /\ t \in DOMAIN tasks
               /\ \A u \in DOMAIN tasks : u # t => tasks'[u] = tasks[u]
               /\ tasks'[t].lease_owner = NoWorker
    <3>1. t \in DOMAIN tasks /\ tasks' = [tasks EXCEPT ![t] = GivenUp(@, now)]
      BY <2>1 DEF FailTask, Mutable, HoldsLease
    <3>2. tasks[t] \in TaskRow
      BY <1>0, <3>1, GoodTasks DEF Good
    <3>3. GivenUp(tasks[t], now).lease_owner = NoWorker
      BY <3>2 DEF GivenUp, TaskRow
    <3> QED  BY <3>1, <3>3
  <2>2. CASE ~Mutable(t, w) /\ storeUnchanged
    BY <1>0, <1>w, <2>2, LeasedRow DEF storeUnchanged, HoldsLease
  <2> QED  BY <1>w, <2>1, <2>2, SettingsAssumption DEF ExecFail
<1>4. WorksOnLeases(p)'
  BY <1>0, <1>1, <1>3, SameTask DEF ExecFail
<1> QED  BY <1>2, <1>4 DEF Knows

\* A call that raises: the task may be failed from here on.
LEMMA FaultKnows ==
    ASSUME LeaseInv, NEW p \in Process, ProcessStep(p), ExecFault(p)
    PROVE  Knows(p)'
<1>0. /\ Typed /\ Orderly(p) /\ Knows(p) /\ exec[p] \in Frame
      /\ UNCHANGED <<worker, tasks, items>>
  BY Reliable DEF ExecFault, storeUnchanged
<1>1. exec'[p].next \in {"fail", "raised"} /\ exec'[p].task = exec[p].task
      /\ exec[p].next # "none"
  <2>1. PICK next \in {"fail", "raised"} : Goto(p, next) /\ exec[p].next # "none"
    BY DEF ExecFault
  <2> QED  BY <1>0, <2>1 DEF Goto, Typed, Frame
<1>2. WorksOnLeases(p)'
  BY <1>0, <1>1, SameTask
<1>3. KnowsTask(p)'
  BY <1>0, <1>1 DEF KnowsTask
<1> QED  BY <1>2, <1>3 DEF Knows

\* All steps.
LEMMA MoverKnows ==
    ASSUME LeaseInv, NEW p \in Process, ProcessStep(p)
    PROVE  Knows(p)'
BY LoopKnows, EndKnows, StartKnows, ClaimKnows, RenewKnows, ClaimItemKnows, InferKnows,
   FinalizeKnows, FailKnows, FaultKnows DEF ProcessStep, Poll, Execute, Failure

----------------------------------------------------------------------------
(* The invariant.                                                             *)

\* A process keeps its worker id until it starts again, with one never drawn.
LEMMA IdsMove ==
    ASSUME LeaseInv, NEW p \in Process, ProcessStep(p)
    PROVE  \/ worker'[p].id = worker[p].id
           \/ worker'[p].id \notin drawn \cup {NoWorker}
<1>0. Typed /\ worker[p] \in Coroutine
  BY Reliable
<1>1. CASE Start(p)
  BY <1>1, StartKnows, SettingsAssumption
<1>2. CASE Request(p) \/ Handler(p) \/ Maintain(p) \/ Execute(p) \/ Stop(p)
  BY <1>2 DEF Request, Arrive, Maintain, Stop, Handler, SubmitCreate, SubmitReload, StatusRead,
              ResultsRead, ResultsItems, SummaryRead, Execute, ExecRenew, ExecClaimItem,
              ExecInfer, ExecFinalize, ExecFail
<1>3. CASE Poll(p)
  <2>1. PICK s \in {"busy", "dead", "waiting", "ended"} :
           worker' = worker \/ worker' = [worker EXCEPT ![p].state = s]
    BY <1>3 DEF Poll, PollStart, PollClaim, Resume, WorkerEnds
  <2> QED  BY <1>0, <2>1 DEF Typed, Coroutine
<1>4. CASE Failure(p) \/ Stopped(p)
  BY <1>0, <1>4 DEF Failure, ExecFault, LoopFault, Crash, Stopped, Typed, Coroutine
<1> QED  BY <1>1, <1>2, <1>3, <1>4 DEF ProcessStep

\* Worker ids stay distinct.
LEMMA StepDistinct ==
    ASSUME LeaseInv, NEW p \in Process, ProcessStep(p)
    PROVE  Distinct'
<1>1. \A q \in Process : worker[q].id \in drawn \cup {NoWorker}
  BY DEF LeaseInv, ServiceInv, Orderly, WorkerOrderly
<1>2. \A q \in Process \ {p} : worker'[q] = worker[q]
  BY Reliable DEF InOrder, Alone
<1>3. Distinct
  BY DEF LeaseInv
<1> QED  BY <1>1, <1>2, <1>3, IdsMove DEF Distinct

\* Leases are still held by workers that have been there, and not for too long.
LEMMA StepBounded ==
    ASSUME LeaseInv, NEW p \in Process, ProcessStep(p)
    PROVE  Bounded' /\ OwnersDrawn'
<1>0. /\ clock \in Nat /\ clock' \in Nat /\ clock <= clock' /\ drawn \subseteq drawn'
      /\ LeasesMove(worker[p].id) /\ IInv' /\ LeaseSeconds \in Nat
      /\ worker[p].id \in drawn \cup {NoWorker} /\ OwnersDrawn
  BY Reliable, StepMoves, SettingsAssumption DEF InOrder, LeaseInv, Orderly, WorkerOrderly
<1>1. ASSUME NEW t \in DOMAIN tasks'
      PROVE  tasks'[t].lease_expires_at \in Int
  BY <1>0, <1>1 DEF IInv, Good, TaskRow, NoTime
<1>2. Bounded'
  BY <1>0, <1>1 DEF Bounded, LeasesMove
<1>3. OwnersDrawn'
  BY <1>0 DEF OwnersDrawn, LeasesMove
<1> QED  BY <1>2, <1>3

\* What the other workers know, they still know.
LEMMA OthersKnow ==
    ASSUME LeaseInv, NEW p \in Process, ProcessStep(p), NEW q \in Process \ {p}
    PROVE  Knows(q)'
<1>1. /\ worker'[q] = worker[q] /\ exec'[q] = exec[q]
  BY Reliable DEF InOrder, Alone
<1>2. worker[q].id # NoWorker => worker[q].id # worker[p].id
  BY DEF LeaseInv, Distinct
<1>3. worker[q].id # NoWorker => Keeps(worker[q].id)
  BY <1>2, StepMoves DEF LeasesMove, Keeps
<1> QED  BY <1>1, <1>3, KnowsStill

\* At first nobody has a lease.
LEMMA InitLeases == ServiceInit => LeaseInv
<1> SUFFICES ASSUME ServiceInit PROVE LeaseInv
  OBVIOUS
<1>1. ServiceInv
  BY InitOrderly
<1>2. DOMAIN tasks = {} /\ \A p \in Process : worker[p].id = NoWorker /\ exec[p].next = "none"
  BY DEF ServiceInit, Init, NoFrame
<1> QED  BY <1>1, <1>2 DEF LeaseInv, Bounded, Distinct, OwnersDrawn,
                           Knows, WorksOnLeases, KnowsTask

\* Every step keeps the invariant.
LEMMA StepLeases == LeaseInv /\ [ServiceNext]_allVars => LeaseInv'
<1> SUFFICES ASSUME LeaseInv, [ServiceNext]_allVars PROVE LeaseInv'
  OBVIOUS
<1>1. ServiceInv'
  BY StepOrderly DEF LeaseInv
<1>2. CASE \E p \in Process : ProcessStep(p)
  <2>1. PICK p \in Process : ProcessStep(p)
    BY <1>2
  <2>2. \A q \in Process : Knows(q)'
    BY <2>1, MoverKnows, OthersKnow
  <2> QED  BY <1>1, <2>1, <2>2, StepDistinct, StepBounded DEF LeaseInv
<1>3. CASE Time \/ UNCHANGED allVars
  <2>1. UNCHANGED <<tasks, items, worker, exec, drawn>>
    BY <1>3 DEF Time, Tick, allVars, threads
  <2>2. clock \in Nat /\ clock' \in Nat /\ clock <= clock' /\ IInv
    BY UsesStore, ClockAdvances, ServiceAssumption DEF LeaseInv, ServiceInv, IInv, Typed
  <2>3. Bounded'
    <3>1. \A t \in DOMAIN tasks : tasks[t].lease_expires_at \in Int
      BY <2>2, ExpiryIsInt
    <3> QED  BY <2>1, <2>2, <3>1, SettingsAssumption DEF LeaseInv, Bounded
  <2>4. Distinct' /\ OwnersDrawn'
    BY <2>1 DEF LeaseInv, Distinct, OwnersDrawn
  <2>5. ASSUME NEW q \in Process
        PROVE  Knows(q)'
    <3>1. Keeps(worker[q].id)
      BY <2>1, SameKeeps
    <3> QED  BY <2>1, <2>2, <3>1, KnowsStill
  <2> QED  BY <1>1, <2>3, <2>4, <2>5 DEF LeaseInv
<1> QED  BY <1>2, <1>3 DEF ServiceNext, ProcessStep

----------------------------------------------------------------------------
(* The theorems.                                                              *)

\* Whoever crashes, is delayed or loses its lease: what executors know of the
\* tasks they still hold is right.
THEOREM LeaseInvariance == ServiceSpec => []LeaseInv
BY InitLeases, StepLeases, PTL DEF ServiceSpec

\* A worker that still holds its lease finds its item undecided and next in line.
THEOREM HolderFindsItem == ServiceSpec => []ItemAwaitsItsHolder
<1>1. LeaseInv => ItemAwaitsItsHolder
  BY DEF LeaseInv, Knows, KnowsTask, ItemAwaitsItsHolder
<1> QED  BY <1>1, LeaseInvariance, PTL

\* Leases belong to what their holders are working on, or to dead workers.
THEOREM NoIdleLeases == ServiceSpec => []LeaseIsBeingWorked
<1>1. LeaseInv => LeaseIsBeingWorked
  BY DEF LeaseInv, Knows, WorksOnLeases, LeaseIsBeingWorked, HoldsLease
<1> QED  BY <1>1, LeaseInvariance, PTL

\* A worker that the store has refused does not get the lease back while it deals
\* with the exception, so fail_task refuses it as well.
THEOREM LostLeasesHarmless == ServiceSpec => []LostLeaseIsHarmless
<1>1. LeaseInv => LostLeaseIsHarmless
  BY DEF LeaseInv, Knows, KnowsTask, LostLeaseIsHarmless
<1> QED  BY <1>1, LeaseInvariance, PTL

\* A step of p's executor leaves every row but the one p holds.
LEMMA ExecWrites ==
    ASSUME LeaseInv, NEW p \in Process, Execute(p)
    PROVE  /\ DOMAIN tasks' = DOMAIN tasks
           /\ \A t \in DOMAIN tasks :
                 \/ tasks'[t] = tasks[t] /\ items'[t] = items[t]
                 \/ t = exec[p].task /\ HoldsLease(t, worker[p].id)
<1> DEFINE t == exec[p].task
           w == worker[p].id
<1>0. IInv
  BY DEF LeaseInv, ServiceInv
\* All its transactions look for the lease first.
<1>1. ASSUME HoldsLease(t, w), NEW row, NEW its,
             tasks' = [tasks EXCEPT ![t] = row], items' = [items EXCEPT ![t] = its]
      PROVE  /\ DOMAIN tasks' = DOMAIN tasks
             /\ \A u \in DOMAIN tasks : u # t => tasks'[u] = tasks[u] /\ items'[u] = items[u]
  BY <1>0, <1>1 DEF HoldsLease, IInv
<1>2. CASE storeUnchanged
  BY <1>2 DEF storeUnchanged
<1>3. ASSUME NEW now, RenewLease(t, w, now)
      PROVE  /\ HoldsLease(t, w) /\ DOMAIN tasks' = DOMAIN tasks
             /\ \A u \in DOMAIN tasks : u # t => tasks'[u] = tasks[u] /\ items'[u] = items[u]
  BY <1>3 DEF RenewLease, Renewable
<1>4. ASSUME NEW q, NEW now, ClaimNextItem(t, w, q, now)
      PROVE  /\ HoldsLease(t, w) /\ DOMAIN tasks' = DOMAIN tasks
             /\ \A u \in DOMAIN tasks : u # t => tasks'[u] = tasks[u] /\ items'[u] = items[u]
  BY <1>0, <1>4 DEF ClaimNextItem, LeaseActive, IInv
<1>5. ASSUME NEW q, NEW r, NEW now, FinalizeItem(t, w, q, r, now)
      PROVE  /\ HoldsLease(t, w) /\ DOMAIN tasks' = DOMAIN tasks
             /\ \A u \in DOMAIN tasks : u # t => tasks'[u] = tasks[u] /\ items'[u] = items[u]
  BY <1>0, <1>5 DEF FinalizeItem, Mutable, IInv
<1>6. ASSUME NEW now, FailTask(t, w, now)
      PROVE  /\ HoldsLease(t, w) /\ DOMAIN tasks' = DOMAIN tasks
             /\ \A u \in DOMAIN tasks : u # t => tasks'[u] = tasks[u] /\ items'[u] = items[u]
  BY <1>0, <1>6 DEF FailTask, Mutable, IInv
<1>7. \/ storeUnchanged
      \/ \E now : RenewLease(t, w, now) \/ FailTask(t, w, now)
      \/ \E q, now : ClaimNextItem(t, w, q, now)
      \/ \E q, r, now : FinalizeItem(t, w, q, r, now)
  BY DEF Execute, ExecRenew, ExecClaimItem, ExecInfer, ExecFinalize, ExecFail
<1> QED  BY <1>2, <1>3, <1>4, <1>5, <1>6, <1>7

\* An executor writes to its task only, and only while its worker holds the lease.
THEOREM OnlyHoldersWrite == ServiceSpec => OnlyHolderWrites
<1> DEFINE Holds(p) ==
          exec[p].next # "none" /\ exec'[p] # exec[p] =>
              /\ DOMAIN tasks' = DOMAIN tasks
              /\ \A t \in DOMAIN tasks :
                    \/ tasks'[t] = tasks[t] /\ items'[t] = items[t]
                    \/ t = exec[p].task /\ HoldsLease(t, worker[p].id)
<1>1. ASSUME LeaseInv, NEW q \in Process, ProcessStep(q), NEW p \in Process,
             exec[p].next # "none", exec'[p] # exec[p]
      PROVE  Execute(p) \/ storeUnchanged
  <2>1. p = q
    BY <1>1, Reliable DEF InOrder, Alone
  <2>2. ~SubmitCreate(p) /\ ~Maintain(p)
    BY <1>1 DEF SubmitCreate, Maintain
  <2>3. ~PollClaim(p) \/ storeUnchanged
    BY <1>1, <2>1, Reliable DEF PollClaim, Orderly, WorkerOrderly
  <2> QED  BY <1>1, <2>1, <2>2, <2>3, ProcessWrites DEF Execute
<1>2. ASSUME LeaseInv, ServiceNext, NEW p \in Process
      PROVE  Holds(p)
  <2>1. CASE \E q \in Process : ProcessStep(q)
    BY <1>1, <1>2, <2>1, ExecWrites DEF storeUnchanged
  <2>2. CASE Time
    BY <2>2 DEF Time, threads
  <2> QED  BY <1>2, <2>1, <2>2 DEF ServiceNext, ProcessStep
<1>3. LeaseInv /\ [ServiceNext]_allVars => [\A p \in Process : Holds(p)]_allVars
  BY <1>2
<1> QED  BY <1>3, LeaseInvariance, PTL DEF ServiceSpec, OnlyHolderWrites

\* A lease in one worker's hands never moves towards expiry.
THEOREM LeasesGrow == ServiceSpec => LeaseNeverShrinks
<1> DEFINE Grows == \A t \in Kept :
          tasks[t].lease_owner # NoWorker /\ tasks'[t].lease_owner = tasks[t].lease_owner
          => tasks'[t].lease_expires_at >= tasks[t].lease_expires_at
<1>1. ASSUME LeaseInv, ServiceNext
      PROVE  Grows
  <2>1. CASE \E p \in Process : ProcessStep(p)
    <3>1. PICK p \in Process : ProcessStep(p)
      BY <2>1
    <3>2. LeasesMove(worker[p].id)
      BY <1>1, <3>1, StepMoves
    <3> QED  BY <3>2 DEF LeasesMove, Kept
  <2>2. CASE Time
    BY <1>1, <2>2, ExpiryIsInt DEF Time, Tick, Kept, LeaseInv, ServiceInv
  <2> QED  BY <1>1, <2>1, <2>2 DEF ServiceNext, ProcessStep
<1>2. LeaseInv /\ [ServiceNext]_allVars => [Grows]_allVars
  BY <1>1
<1> QED  BY <1>2, LeaseInvariance, PTL DEF ServiceSpec, LeaseNeverShrinks

=============================================================================
