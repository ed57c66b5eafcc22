----------------------- MODULE TaskServiceAnswerProofs -----------------------
(* Proofs about what TaskService tells its clients: answers never go back,    *)
(* the results served are whole, and a summary accounts for every item.       *)
(* Results are read in two steps.  Another process may purge the task between *)
(* them, and does in the run torn_results: so the theorems assume that this   *)
(* does not happen (Patient); it cannot with one process, nor where nobody    *)
(* asks for results (Calm).                                                   *)
EXTENDS TaskServiceProofs

Calm == "results" \notin Jobs \/ \A p, q \in Process : p = q

\* A step neither purges nor deletes t ...
Spares(t) ==
    t \in DOMAIN tasks => t \in DOMAIN tasks' /\ (tasks'[t].purged => tasks[t].purged)

\* ... nor any task whose results are being read.
Patient == \A p \in Process : loop[p].next = "items" => Spares(loop[p].task)

Undisturbed == Calm \/ Patient

\* The row's counters are final, and are the answer's.
Settled(a, t) ==
    /\ tasks[t].status \in Terminal
    /\ a.processed = tasks[t].processed /\ a.successful = tasks[t].successful

Served(t) == [q \in DOMAIN items[t] |-> Restored(items[t][q])]

ServedAs(a, c) == Cardinality({q \in DOMAIN a.body : a.body[q] = c})

Whole(a) ==
    /\ ServedAs(a, "completed") = a.successful
    /\ ServedAs(a, "failed") = a.processed - a.successful
    /\ ServedAs(a, "blank") = 0

\* What an answer that o got about t once says of the table now.
Truth(a, o, t) ==
    /\ a.code = "none" => a = NoAnswer
    /\ a.code # "none" => t \in issued
    /\ a.code = "missing" => ~Visible(o, t)
    /\ a.results => a.code \in {"final", "expired", "missing"} /\ Whole(a)
    /\ Visible(o, t) =>
          /\ a.code = "expired" => tasks[t].purged
          /\ a.processed <= tasks[t].processed /\ a.successful <= tasks[t].successful
          /\ a.code = "final" => Settled(a, t)
          /\ a.results /\ ~tasks[t].purged => a.body = Served(t)

\* No client has two requests under way.
OneRequest ==
    \A p, q \in Process : p # q /\ loop[p].owner = loop[q].owner => loop[p].owner = NoWorker

\* What a request may rely on.
RequestTrue(p) ==
    LET c == loop[p]
        a == seen[c.owner][c.task]
    IN  /\ c.job = "none" => c.owner = NoWorker
        /\ c.next \in {"create", "reload", "items"} \/ c.job \in {"status", "results"}
              => c.owner # NoWorker
        /\ c.next = "create" => c.job = "submit"
        /\ c.next = "reload" => a.code = "none"
        /\ c.job \in {"status", "results"} => a.code # "none"
        /\ c.job = "results" => "results" \in Jobs
        /\ c.next = "items" => /\ c.job = "results"
                               /\ Located(c.owner, c.task) = "final"
                               /\ c.row = AnswerOf(c.owner, c.task)

AnswersInv ==
    /\ OneRequest
    /\ \A o \in OwnerId, t \in TaskId : Truth(seen[o][t], o, t)
    /\ \A p \in Process : RequestTrue(p)

\* What AnswersAdvance says of two answers.
Advances(old, new) ==
    /\ Rank[old.code] <= Rank[new.code]
    /\ old.processed <= new.processed /\ old.successful <= new.successful
    /\ Rank[old.code] >= Rank["final"] =>
          old.processed = new.processed /\ old.successful = new.successful
    /\ old.results => new.results /\ new.body = old.body

----------------------------------------------------------------------------
(* The rows go on.                                                            *)

\* Rows keep their owner, stay purged, and make progress; ids are not reused.
Onward ==
    /\ issued \subseteq issued'
    /\ \A t \in DOMAIN tasks' \ DOMAIN tasks : t \notin issued
    /\ \A t \in Kept :
          /\ tasks'[t].owner = tasks[t].owner
          /\ tasks[t].purged => tasks'[t].purged
          /\ tasks[t].processed <= tasks'[t].processed
          /\ tasks[t].successful <= tasks'[t].successful

\* Only retention purges and deletes.
Unretained == \A t \in DOMAIN tasks : Spares(t)

\* A row that keeps its owner and loses no progress goes on.
LEMMA RowOnward ==
    ASSUME IInv, NEW t \in DOMAIN tasks, NEW row,
           tasks' = [tasks EXCEPT ![t] = row], issued' = issued,
           row.owner = tasks[t].owner, row.purged = tasks[t].purged,
           tasks[t].processed <= row.processed, tasks[t].successful <= row.successful
    PROVE  Onward /\ Unretained
<1>1. /\ DOMAIN tasks' = DOMAIN tasks /\ tasks'[t] = row
      /\ \A u \in DOMAIN tasks : u # t => tasks'[u] = tasks[u]
  BY DEF IInv
<1>2. \A u \in DOMAIN tasks : tasks[u].processed \in Nat /\ tasks[u].successful \in Nat
  BY GoodTasks DEF Good, TaskRow
<1> QED  BY <1>1, <1>2 DEF Onward, Unretained, Spares, Kept

\* So do rows that stay as they are.
LEMMA SameOnward ==
    ASSUME IInv, UNCHANGED <<tasks, issued>>
    PROVE  Onward /\ Unretained
<1>1. \A u \in DOMAIN tasks : tasks[u].processed \in Nat /\ tasks[u].successful \in Nat
  BY GoodTasks DEF Good, TaskRow
<1> QED  BY <1>1 DEF Onward, Unretained, Spares, Kept

\* A worker's transaction lets a task go on.
LEMMA WorkOnward ==
    ASSUME IInv, NEW now, NEW w, NEW t \in DOMAIN tasks, Work(w, t, now)
    PROVE  Onward /\ Unretained
<1>0. Good(tasks[t], items[t]) /\ tasks[t] \in TaskRow
  BY GoodTasks DEF Good
<1>1. CASE ClaimTask(t, w, now)
  <2> DEFINE row == Claimed(tasks[t], w, now)
  <2>1. /\ row.owner = tasks[t].owner /\ row.purged = tasks[t].purged
        /\ tasks[t].processed <= row.processed /\ tasks[t].successful <= row.successful
    BY <1>0 DEF Claimed, TaskRow
  <2>2. tasks' = [tasks EXCEPT ![t] = row] /\ issued' = issued
    BY <1>1 DEF ClaimTask
  <2> HIDE DEF row
  <2> QED  BY <2>1, <2>2, RowOnward
<1>2. CASE RenewLease(t, w, now)
  <2> DEFINE row == [tasks[t] EXCEPT !.lease_expires_at = now + LeaseSeconds, !.updated_at = now]
  <2>1. /\ row.owner = tasks[t].owner /\ row.purged = tasks[t].purged
        /\ tasks[t].processed <= row.processed /\ tasks[t].successful <= row.successful
    BY <1>0 DEF TaskRow
  <2>2. tasks' = [tasks EXCEPT ![t] = row] /\ issued' = issued
    BY <1>2 DEF RenewLease
  <2> HIDE DEF row
  <2> QED  BY <2>1, <2>2, RowOnward
<1>3. CASE \E p \in DOMAIN items[t] : ClaimNextItem(t, w, p, now)
  BY <1>3, SameOnward DEF ClaimNextItem
<1>4. ASSUME NEW p \in DOMAIN items[t], NEW r \in ItemFinal, FinalizeItem(t, w, p, r, now)
      PROVE  Onward /\ Unretained
  <2> DEFINE row == Advanced(tasks[t], r, now)
  <2>1. /\ row.owner = tasks[t].owner /\ row.purged = tasks[t].purged
        /\ row.processed = tasks[t].processed + 1
        /\ row.successful = tasks[t].successful + (IF r = "completed" THEN 1 ELSE 0)
    BY <1>0 DEF Advanced, TaskRow
  <2>2. tasks' = [tasks EXCEPT ![t] = row] /\ issued' = issued
    BY <1>4 DEF FinalizeItem
  <2> HIDE DEF row
  <2>3. tasks[t].processed <= row.processed /\ tasks[t].successful <= row.successful
    BY <1>0, <2>1 DEF TaskRow
  <2> QED  BY <2>1, <2>2, <2>3, RowOnward
<1>5. CASE FailTask(t, w, now)
  <2> DEFINE row == GivenUp(tasks[t], now)
  <2>1. /\ row.owner = tasks[t].owner /\ row.purged = tasks[t].purged
        /\ row.processed = tasks[t].accepted /\ row.successful = tasks[t].successful
    BY <1>0 DEF GivenUp, TaskRow
  <2>2. tasks' = [tasks EXCEPT ![t] = row] /\ issued' = issued
    BY <1>5 DEF FailTask
  <2> HIDE DEF row
  <2>3. tasks[t].processed <= row.processed /\ tasks[t].successful <= row.successful
    BY <1>0, <2>1, ImpliesLoad DEF RecordsLoad, Loadable, TaskRow
  <2> QED  BY <2>1, <2>2, <2>3, RowOnward
<1> QED  BY <1>1, <1>2, <1>3, <1>4, <1>5 DEF Work

\* A new task leaves the others as they are.
LEMMA CreateOnward ==
    ASSUME IInv, NEW t, NEW o, NEW n, NEW now, CreateTask(t, o, n, now)
    PROVE  Onward /\ Unretained
<1>1. /\ t \notin issued /\ DOMAIN tasks' = DOMAIN tasks \cup {t} /\ issued \subseteq issued'
      /\ \A u \in DOMAIN tasks : tasks'[u] = tasks[u]
  BY DEF IInv, CreateTask
<1>2. \A u \in DOMAIN tasks : tasks[u].processed \in Nat /\ tasks[u].successful \in Nat
  BY GoodTasks DEF Good, TaskRow
<1> QED  BY <1>1, <1>2 DEF Onward, Unretained, Spares, Kept

\* Retention expires rows, and purges expired ones.
LEMMA RetentionOnward ==
    ASSUME IInv, NEW now, MaintainRetention(now)
    PROVE  Onward
<1>1. DOMAIN tasks' \subseteq DOMAIN tasks /\ issued' = issued
  BY DEF MaintainRetention
<1>2. ASSUME NEW t \in DOMAIN tasks'
      PROVE  /\ tasks'[t].owner = tasks[t].owner
             /\ tasks[t].purged => tasks'[t].purged
             /\ tasks[t].processed <= tasks'[t].processed
             /\ tasks[t].successful <= tasks'[t].successful
  <2>1. tasks[t] \in TaskRow
    BY <1>1, GoodTasks DEF Good
  <2>2. tasks'[t] = Purged(tasks[t], now) \/ tasks'[t] = tasks[t]
    BY <1>2 DEF MaintainRetention
  <2>3. /\ \A c \in {"owner", "processed", "successful"} : Purged(tasks[t], now)[c] = tasks[t][c]
        /\ Purged(tasks[t], now).purged
    BY <2>1 DEF Purged, TaskRow
  <2> QED  BY <2>1, <2>2, <2>3 DEF TaskRow
<1> QED  BY <1>1, <1>2 DEF Onward, Kept

\* All transactions.
LEMMA StepOnward ==
    ASSUME IInv, [Next]_vars
    PROVE  Onward
<1>1. CASE Tick \/ UNCHANGED vars
  BY <1>1, SameOnward DEF Tick, vars
<1>2. ASSUME NEW now, Submission(now)
      PROVE  Onward
  BY <1>2, CreateOnward DEF Submission
<1> QED  BY <1>1, <1>2, WorkOnward, RetentionOnward DEF Next

\* In the service only a callback that maintains retention takes anything away.
LEMMA StepUnretained ==
    ASSUME ServiceInv, NEW p \in Process, ProcessStep(p)
    PROVE  Unretained \/ Maintain(p)
<1>0. IInv
  BY DEF ServiceInv
<1>1. ASSUME NEW w, NEW t, NEW now, t \in DOMAIN tasks => Work(w, t, now), HoldsLease(t, w)
      PROVE  Unretained
  BY <1>0, <1>1, WorkOnward DEF HoldsLease
<1>2. CASE SubmitCreate(p)
  BY <1>0, <1>2, CreateOnward DEF SubmitCreate
<1>3. CASE PollClaim(p)
  <2>1. ASSUME NEW now, NEW t \in Oldest(now), ClaimTask(t, worker[p].id, now)
        PROVE  Unretained
    <3>1. t \in DOMAIN tasks /\ Work(worker[p].id, t, now)
      BY <2>1 DEF Oldest, Work
    <3> QED  BY <1>0, <3>1, WorkOnward
  <2> QED  BY <1>0, <1>3, <2>1, SameOnward DEF PollClaim, storeUnchanged
<1>4. CASE ExecRenew(p)
  <2>1. ASSUME NEW now, RenewLease(exec[p].task, worker[p].id, now)
        PROVE  Unretained
    BY <1>1, <2>1 DEF RenewLease, Renewable, Work
  <2> QED  BY <1>0, <1>4, <2>1, SameOnward DEF ExecRenew, storeUnchanged
<1>5. CASE ExecClaimItem(p)
  <2>1. ASSUME NEW q, ClaimNextItem(exec[p].task, worker[p].id, q, exec[p].since)
        PROVE  Unretained
    BY <1>0, <2>1, SameOnward DEF ClaimNextItem
  <2> QED  BY <1>0, <1>5, <2>1, SameOnward DEF ExecClaimItem, storeUnchanged
<1>6. CASE ExecFinalize(p)
  <2>1. ASSUME NEW now,
               FinalizeItem(exec[p].task, worker[p].id, exec[p].position, exec[p].result, now)
        PROVE  Unretained
    <3>1. exec[p].result \in ItemFinal
      BY <1>6 DEF ExecFinalize, ServiceInv, Orderly, FramesOrderly
    <3> QED  BY <1>1, <2>1, <3>1 DEF FinalizeItem, Mutable, Work
  <2> QED  BY <1>0, <1>6, <2>1, SameOnward DEF ExecFinalize, storeUnchanged
<1>7. CASE ExecFail(p)
  <2>1. ASSUME NEW now, FailTask(exec[p].task, worker[p].id, now)
        PROVE  Unretained
    BY <1>1, <2>1 DEF FailTask, Mutable, Work
  <2> QED  BY <1>0, <1>7, <2>1, SameOnward DEF ExecFail, storeUnchanged
<1>8. CASE storeUnchanged
  BY <1>0, <1>8, SameOnward DEF storeUnchanged
<1> QED  BY <1>2, <1>3, <1>4, <1>5, <1>6, <1>7, <1>8, ProcessWrites

\* A terminal task has no item left.
LEMMA TerminalDecided ==
    ASSUME IInv, NEW t \in DOMAIN tasks, tasks[t].status \in Terminal
    PROVE  Undecided(t) = {}
<1>1. StatusIsTruthful
  BY ImpliesTruthful
<1>2. CASE tasks[t].status = "completed"
  <2>1. WithStatus(t, "completed") = DOMAIN items[t]
    BY <1>1, <1>2 DEF StatusIsTruthful, Running
  <2> QED  BY <2>1 DEF WithStatus, Undecided, Running
<1>3. CASE tasks[t].status \in {"partially_completed", "failed"}
  BY <1>1, <1>3 DEF StatusIsTruthful, Running
<1> QED  BY <1>2, <1>3 DEF Terminal

\* The same of the next state.
LEMMA ImpliesLoadNext == IInv' => RecordsLoad'
<1>1. IInv => RecordsLoad
  BY ImpliesLoad
<1> QED  BY <1>1, PTL

----------------------------------------------------------------------------
(* Answers.                                                                   *)

\* The order of the answers, in numbers.
LEMMA Ranks ==
    /\ Rank["none"] = 0 /\ Rank["running"] = 1 /\ Rank["final"] = 2
    /\ Rank["expired"] = 3 /\ Rank["missing"] = 4
BY DEF Rank

\* An answer stays true while the rows go on.
LEMMA TruthStays ==
    ASSUME IInv, IInv', Rightful, Onward, NEW o \in OwnerId, NEW t \in TaskId,
           NEW a \in Answer, Truth(a, o, t)
    PROVE  Truth(a, o, t)'
<1>1. ASSUME Visible(o, t)'
      PROVE  a.code = "none" \/ (t \in Kept /\ Visible(o, t))
  <2>1. t \in DOMAIN tasks' /\ tasks'[t].owner = o
    BY <1>1 DEF Visible
  <2>2. t \notin DOMAIN tasks => t \notin issued
    BY <2>1 DEF Onward
  <2> QED  BY <2>1, <2>2 DEF Truth, Onward, Kept, Visible
<1>2. ASSUME Visible(o, t)', a.code = "none"
      PROVE  /\ a.processed = 0 /\ a.successful = 0 /\ ~a.results
             /\ tasks'[t].processed \in Nat /\ tasks'[t].successful \in Nat
  <2>1. tasks'[t] \in TaskRow
    BY <1>2 DEF Visible, IInv, Good
  <2> QED  BY <1>2, <2>1 DEF Truth, NoAnswer, TaskRow
<1>3. ASSUME t \in Kept, Visible(o, t), Visible(o, t)'
      PROVE  /\ a.code = "expired" => tasks'[t].purged
             /\ a.processed <= tasks'[t].processed /\ a.successful <= tasks'[t].successful
             /\ a.code = "final" => Settled(a, t)'
             /\ a.results /\ ~tasks'[t].purged => a.body = Served(t)'
  <2>1. /\ tasks[t] \in TaskRow /\ tasks'[t] \in TaskRow /\ t \in DOMAIN tasks
        /\ t \in DOMAIN tasks' /\ StaysDecided(t)
        /\ Good(tasks[t], items[t]) /\ Good(tasks'[t], items'[t])
    BY <1>3 DEF Kept, IInv, Good, Rightful
  <2>2. a.code = "expired" => tasks'[t].purged
    BY <1>3 DEF Onward, Truth
  <2>3. a.processed <= tasks'[t].processed /\ a.successful <= tasks'[t].successful
    BY <1>3, <2>1 DEF Onward, Truth, TaskRow, Answer
  <2>4. tasks[t].status \in Terminal =>
           /\ tasks'[t].status = tasks[t].status
           /\ tasks'[t].processed = tasks[t].processed
           /\ tasks'[t].successful = tasks[t].successful
    BY <2>1 DEF StaysDecided
  <2>5. a.code = "final" => Settled(a, t)'
    BY <1>3, <2>4 DEF Truth, Settled
  <2>6. ASSUME a.results, ~tasks'[t].purged
        PROVE  a.body = Served(t)'
    <3>1. ~tasks[t].purged
      BY <1>3, <2>6 DEF Onward
    <3>2. a.body = Served(t) /\ tasks[t].status \in Terminal
      BY <1>3, <2>6, <3>1 DEF Truth, Settled
    <3>3. Undecided(t) = {}
      BY <2>1, <3>2, TerminalDecided
    <3>4. \A q \in DOMAIN items[t] : items'[t][q] = items[t][q]
      BY <2>1, <2>6, <3>3 DEF StaysDecided, Decided
    <3>5. DOMAIN items'[t] = DOMAIN items[t]
      <4>1. tasks'[t].accepted = tasks[t].accepted
        <5>1. Loadable(tasks[t]) /\ Loadable(tasks'[t])
          BY <2>1, ImpliesLoad, ImpliesLoadNext DEF RecordsLoad
        <5> QED  BY <3>2, <2>4, <5>1 DEF Loadable
      <4> QED  BY <2>1, <4>1 DEF Good
    <3> QED  BY <3>2, <3>4, <3>5 DEF Served
  <2> QED  BY <2>2, <2>3, <2>5, <2>6
<1>4. a.code = "none" => a = NoAnswer
  BY DEF Truth
<1>5. /\ a.code # "none" => t \in issued'
      /\ a.code = "missing" => ~Visible(o, t)'
      /\ a.results => a.code \in {"final", "expired", "missing"} /\ Whole(a)
  BY <1>1 DEF Truth, Onward
<1> QED  BY <1>1, <1>2, <1>3, <1>4, <1>5 DEF Truth

\* What the code answers about a task its client knows: true, and no step back.
LEMMA AnswerOfTrue ==
    ASSUME ServiceInv, NEW o \in OwnerId, NEW t \in TaskId,
           Truth(seen[o][t], o, t), seen[o][t].code # "none"
    PROVE  Truth(AnswerOf(o, t), o, t) /\ Advances(seen[o][t], AnswerOf(o, t))
<1> DEFINE old == seen[o][t]
           new == AnswerOf(o, t)
<1>0. /\ old \in Answer /\ IInv
      /\ old.processed \in Nat /\ old.successful \in Nat
      /\ old.code \in {"running", "final", "expired", "missing"}
  BY DEF ServiceInv, Typed, Answer
<1>1. CASE Located(o, t) \in {"missing", "expired"}
  <2>1. new = [old EXCEPT !.code = Located(o, t)]
    BY <1>1 DEF AnswerOf
  <2>2. /\ new.code = Located(o, t) /\ new.processed = old.processed
        /\ new.successful = old.successful /\ new.results = old.results
        /\ new.body = old.body
    BY <1>0, <2>1 DEF Answer
  <2>3. Whole(old) => Whole(new)
    BY <2>2 DEF Whole, ServedAs
  <2>4. CASE Located(o, t) = "missing"
    <3>1. ~Visible(o, t)
      BY <2>4 DEF Located, Reported
    <3>2. Truth(new, o, t)
      BY <2>2, <2>3, <2>4, <3>1 DEF Truth
    <3>3. Advances(old, new)
      BY <1>0, <2>2, <2>4, Ranks DEF Advances
    <3> QED  BY <3>2, <3>3
  <2>5. CASE Located(o, t) = "expired"
    <3>1. Visible(o, t) /\ tasks[t].purged
      BY <2>5 DEF Located, Reported
    <3>2. Truth(new, o, t)
      BY <2>2, <2>3, <2>5, <3>1 DEF Truth
    <3>3. old.code # "missing"
      BY <3>1 DEF Truth
    <3>4. Advances(old, new)
      BY <1>0, <2>2, <2>5, <3>3, Ranks DEF Advances
    <3> QED  BY <3>2, <3>4
  <2> QED  BY <1>1, <2>4, <2>5
<1>2. CASE Located(o, t) \notin {"missing", "expired"}
  <2>1. new = [old EXCEPT !.code = Located(o, t), !.processed = tasks[t].processed,
                          !.successful = tasks[t].successful]
    BY <1>2 DEF AnswerOf
  <2>2. /\ new.code = Located(o, t) /\ new.processed = tasks[t].processed
        /\ new.successful = tasks[t].successful /\ new.results = old.results
        /\ new.body = old.body
    BY <1>0, <2>1 DEF Answer
  <2>3. Visible(o, t) /\ ~tasks[t].purged /\ t \in DOMAIN tasks
    BY <1>2 DEF Located, Reported, Visible
  <2>4. tasks[t].processed \in Nat /\ tasks[t].successful \in Nat /\ t \in issued
    BY <1>0, <2>3, GoodTasks DEF IInv, Good, TaskRow
  <2>5. old.code \in {"running", "final"}
    BY <1>0, <2>3 DEF Truth
  <2>6. old.processed <= new.processed /\ old.successful <= new.successful
    BY <2>2, <2>3 DEF Truth
  <2>7. old.code = "final" => Settled(old, t)
    BY <2>3 DEF Truth
  <2>8. CASE tasks[t].status \in Terminal
    <3>1. new.code = "final"
      BY <2>2, <2>3, <2>8 DEF Located, Reported
    <3>2. old.code = "final" => old.processed = new.processed /\ old.successful = new.successful
      BY <2>2, <2>7 DEF Settled
    <3>3. old.results => old.code = "final" /\ Whole(old) /\ old.body = Served(t)
      BY <2>3, <2>5 DEF Truth
    <3>4. old.results => Whole(new)
      BY <2>2, <3>2, <3>3 DEF Whole, ServedAs
    <3>5. Truth(new, o, t)
      BY <2>2, <2>4, <2>8, <3>1, <3>3, <3>4 DEF Truth, Settled
    <3>6. Advances(old, new)
      BY <1>0, <2>2, <2>5, <2>6, <3>1, <3>2, Ranks DEF Advances
    <3> QED  BY <3>5, <3>6
  <2>9. CASE tasks[t].status \notin Terminal
    <3>1. new.code = "running"
      BY <2>2, <2>3, <2>9 DEF Located, Reported
    <3>2. old.code = "running" /\ ~old.results
      BY <2>5, <2>7, <2>9 DEF Settled, Truth
    <3>3. Truth(new, o, t)
      BY <2>2, <2>4, <3>1, <3>2 DEF Truth
    <3>4. Advances(old, new)
      BY <2>2, <2>6, <3>1, <3>2, Ranks DEF Advances
    <3> QED  BY <3>3, <3>4
  <2> QED  BY <2>8, <2>9
<1> QED  BY <1>1, <1>2

\* The items of a terminal task that is not purged, as they are served, agree
\* with its counters.
LEMMA ServedIsWhole ==
    ASSUME IInv, NEW t \in DOMAIN tasks, tasks[t].status \in Terminal, ~tasks[t].purged,
           NEW a, Settled(a, t), a.body = Served(t)
    PROVE  Whole(a)
<1>1. Good(tasks[t], items[t]) /\ Undecided(t) = {}
  BY GoodTasks, TerminalDecided
<1>2. \A q \in DOMAIN items[t] :
         /\ items[t][q].status \in ItemFinal
         /\ items[t][q].outcome <=> items[t][q].status = "completed"
         /\ items[t][q].error <=> items[t][q].status = "failed"
  <2>1. ASSUME NEW q \in DOMAIN items[t]
        PROVE  items[t][q].status \in ItemFinal
    BY <1>1, <2>1 DEF Good, ItemRow, Undecided
  <2> QED  BY <1>1, <2>1 DEF Good, Kempt
<1>3. \A q \in DOMAIN items[t] : Restored(items[t][q]) = items[t][q].status
  BY <1>2 DEF Restored, ItemFinal
<1>4. /\ {q \in DOMAIN a.body : a.body[q] = "completed"} = Having(items[t], "completed")
      /\ {q \in DOMAIN a.body : a.body[q] = "failed"} = Having(items[t], "failed")
      /\ {q \in DOMAIN a.body : a.body[q] = "blank"} = {}
  BY <1>2, <1>3 DEF Served, Having, ItemFinal
<1>5. /\ tasks[t].successful = Cardinality(Having(items[t], "completed"))
      /\ tasks[t].failed = Cardinality(Having(items[t], "failed"))
      /\ tasks[t].processed = tasks[t].successful + tasks[t].failed
      /\ tasks[t].successful \in Nat /\ tasks[t].failed \in Nat
  BY <1>1 DEF Good, Counted, TaskRow
<1>6. Cardinality({}) = 0
  BY FS_EmptySet
<1>7. /\ ServedAs(a, "completed") = tasks[t].successful
      /\ ServedAs(a, "failed") = tasks[t].failed
  BY <1>4, <1>5 DEF ServedAs
<1>8. ServedAs(a, "blank") = 0
  BY <1>4, <1>6 DEF ServedAs
<1>9. tasks[t].failed = tasks[t].processed - tasks[t].successful
  BY <1>5
<1> QED  BY <1>7, <1>8, <1>9 DEF Whole, Settled

\* The body of an answer has its type.
LEMMA BodyTyped ==
    ASSUME ServiceInv, NEW p \in Process, NEW t \in DOMAIN items
    PROVE  [loop[p].row EXCEPT !.results = TRUE, !.body = Served(t)] \in Answer
<1>1. TypeOK /\ loop[p].row \in Answer
  BY ImpliesTypeOK DEF ServiceInv, Typed, Callback
<1> DEFINE B == UNION {[0..m - 1 -> {"completed", "failed", "blank"}] : m \in 0..MaxItems}
<1>2. Served(t) \in B
  <2>1. t \in DOMAIN tasks
    BY <1>1 DEF TypeOK
  <2>2. tasks[t].accepted \in 0..MaxItems /\ DOMAIN items[t] = 0..tasks[t].accepted - 1
    BY <1>1, <2>1, SettingsAssumption DEF TypeOK, TaskRow
  <2>3. Served(t) \in [0..tasks[t].accepted - 1 -> {"completed", "failed", "blank"}]
    BY <2>2 DEF Served, Restored
  <2> QED  BY <2>2, <2>3
<1>3. Answer = [code : {"none", "running", "final", "expired", "missing"},
                processed : Nat, successful : Nat, results : BOOLEAN, body : B]
  BY DEF Answer
<1> HIDE DEF B
<1> QED  BY <1>1, <1>2, <1>3

----------------------------------------------------------------------------
(* What a step does to the answers.                                           *)

\* p answers its client, with the truth, and is free.
Tells(p) ==
    LET o == loop[p].owner
        t == loop[p].task
    IN  /\ o \in OwnerId /\ t \in TaskId
        /\ storeUnchanged
        /\ loop' = [loop EXCEPT ![p] = Idle]
        /\ \E a \in Answer : /\ seen' = [seen EXCEPT ![o][t] = a]
                             /\ Truth(a, o, t) /\ Advances(seen[o][t], a)

\* A step shows its client what is true, or nothing.
LEMMA StepTells ==
    ASSUME ServiceInv, AnswersInv, NEW p \in Process, ProcessStep(p)
    PROVE  UNCHANGED seen \/ Tells(p)
<1> DEFINE o == loop[p].owner
           t == loop[p].task
<1>0. /\ Typed /\ Orderly(p) /\ loop[p] \in Callback /\ IInv /\ RequestTrue(p)
      /\ \A u \in OwnerId, v \in TaskId : Truth(seen[u][v], u, v) /\ seen[u][v] \in Answer
  BY DEF ServiceInv, AnswersInv, Typed
<1>1. loop[p].next \in {"reload", "items"} \/ loop[p].job \in {"status", "results"}
         => o \in OwnerId /\ t \in TaskId
  BY <1>0 DEF Orderly, FramesOrderly
<1>2. ASSUME loop[p].job \in {"status", "results"}
      PROVE  /\ Truth(AnswerOf(o, t), o, t) /\ Advances(seen[o][t], AnswerOf(o, t))
             /\ AnswerOf(o, t) \in Answer
  <2>1. seen[o][t].code # "none"
    BY <1>0, <1>2 DEF RequestTrue
  <2> QED  BY <1>0, <1>1, <1>2, <2>1, AnswerOfTrue, AnswerTyped
<1>3. CASE StatusRead(p)
  BY <1>1, <1>2, <1>3 DEF StatusRead, Respond, Tells
<1>4. CASE ResultsRead(p)
  BY <1>1, <1>2, <1>4 DEF ResultsRead, Respond, Tells
<1>5. CASE SubmitReload(p)
  <2> DEFINE a == [NoAnswer EXCEPT !.code = Reported(t), !.processed = tasks[t].processed,
                                   !.successful = tasks[t].successful]
  <2>0. o \in OwnerId /\ t \in TaskId /\ seen[o][t] = NoAnswer
    BY <1>0, <1>1, <1>5 DEF SubmitReload, RequestTrue, Truth
  <2>1. CASE Visible(o, t)
    <3>1. tasks[t].processed \in Nat /\ tasks[t].successful \in Nat /\ t \in issued
      BY <1>0, <2>1, GoodTasks DEF Visible, IInv, Good, TaskRow
    <3>2. /\ Reported(t) \in {"running", "final"}
          /\ Reported(t) = "final" => tasks[t].status \in Terminal
      BY DEF Reported
    <3>3. /\ a.code = Reported(t) /\ a.processed = tasks[t].processed
          /\ a.successful = tasks[t].successful /\ a.results = FALSE /\ a.body = NoBody
      BY DEF NoAnswer
    <3>4. a \in Answer
      <4>1. /\ \A b \in Answer : [b EXCEPT !.code = Reported(t)] \in Answer
            /\ \A b \in Answer : [b EXCEPT !.processed = tasks[t].processed,
                                           !.successful = tasks[t].successful] \in Answer
        BY <3>1, <3>2 DEF Answer
      <4> QED  BY <4>1, IdleIsCallback
    <3>5. Truth(a, o, t)
      BY <3>1, <3>2, <3>3 DEF Truth, Settled
    <3>6. Advances(NoAnswer, a)
      <4>1. /\ NoAnswer.code = "none" /\ NoAnswer.processed = 0 /\ NoAnswer.successful = 0
            /\ NoAnswer.results = FALSE
        BY DEF NoAnswer
      <4> QED  BY <3>1, <3>2, <3>3, <4>1, Ranks DEF Advances
    <3>7. Respond(p, a) /\ storeUnchanged
      BY <1>5, <2>1 DEF SubmitReload
    <3> HIDE DEF a
    <3> QED  BY <2>0, <3>4, <3>5, <3>6, <3>7 DEF Respond, Tells
  <2>2. CASE ~Visible(o, t)
    BY <1>5, <2>2 DEF SubmitReload
  <2> QED  BY <2>1, <2>2
<1>6. CASE ResultsItems(p)
  <2> DEFINE row == AnswerOf(o, t)
             a == [loop[p].row EXCEPT !.results = TRUE, !.body = Served(t)]
  <2>0. /\ o \in OwnerId /\ t \in TaskId /\ loop[p].job = "results"
        /\ Located(o, t) = "final" /\ loop[p].row = row
    BY <1>0, <1>1, <1>6 DEF ResultsItems, RequestTrue
  <2>1. Visible(o, t) /\ ~tasks[t].purged /\ tasks[t].status \in Terminal /\ t \in DOMAIN tasks
    BY <2>0 DEF Located, Reported, Visible
  <2>2. Truth(row, o, t) /\ Advances(seen[o][t], row) /\ row \in Answer
    BY <1>2, <2>0
  <2>3. row.code = "final"
    <3>1. row = [seen[o][t] EXCEPT !.code = "final", !.processed = tasks[t].processed,
                                   !.successful = tasks[t].successful]
      BY <2>0 DEF AnswerOf
    <3> QED  BY <1>0, <2>0, <3>1 DEF Answer
  <2>4. t \in DOMAIN items
    BY <1>0, <2>1 DEF IInv
  <2>5. Respond(p, a) /\ storeUnchanged
    BY <1>6, <2>4 DEF ResultsItems, Served
  <2>6. /\ a.code = row.code /\ a.processed = row.processed /\ a.successful = row.successful
        /\ a.results /\ a.body = Served(t)
    <3> HIDE DEF row
    <3> QED  BY <2>0, <2>2 DEF Answer
  <2>7. a \in Answer
    BY <1>0, <1>6, <2>0, <2>4, BodyTyped
  <2> HIDE DEF a, row
  <2>8. Settled(row, t) /\ Settled(a, t)
    BY <2>1, <2>2, <2>3, <2>6 DEF Truth, Settled
  <2>9. Whole(a)
    BY <1>0, <2>1, <2>6, <2>8, ServedIsWhole
  <2>10. Truth(a, o, t)
    BY <2>1, <2>2, <2>3, <2>6, <2>8, <2>9 DEF Truth
  <2>11. Advances(seen[o][t], a)
    BY <2>1, <2>2, <2>6 DEF Advances, Truth
  <2> QED  BY <2>0, <2>5, <2>7, <2>10, <2>11 DEF Respond, Tells
<1>7. \/ StatusRead(p) \/ ResultsRead(p) \/ SubmitReload(p) \/ ResultsItems(p)
      \/ UNCHANGED seen
  BY DEF ProcessStep, Request, Arrive, Handler, SubmitCreate, SummaryRead, Maintain, Poll,
         PollStart, PollClaim, Resume, WorkerEnds, Execute, ExecRenew, ExecClaimItem, ExecInfer,
         ExecFinalize, ExecFail, Failure, ExecFault, LoopFault, Crash, Halt, Start, Stop, Stopped
<1> QED  BY <1>3, <1>4, <1>5, <1>6, <1>7

----------------------------------------------------------------------------
(* Requests.                                                                  *)

\* A final task that is spared stays final.
LEMMA FinalStays ==
    ASSUME Rightful, Onward, NEW o, NEW t, Spares(t), Located(o, t) = "final"
    PROVE  Located(o, t)' = "final" /\ (UNCHANGED seen[o][t] => AnswerOf(o, t)' = AnswerOf(o, t))
<1>1. Visible(o, t) /\ ~tasks[t].purged /\ tasks[t].status \in Terminal
  BY DEF Located, Reported
<1>2. t \in Kept /\ ~tasks'[t].purged
  BY <1>1 DEF Visible, Spares, Kept
<1>3. /\ tasks'[t].status = tasks[t].status /\ tasks'[t].processed = tasks[t].processed
      /\ tasks'[t].successful = tasks[t].successful /\ tasks'[t].owner = tasks[t].owner
  BY <1>1, <1>2 DEF Rightful, StaysDecided, Onward
<1>4. Visible(o, t)'
  BY <1>1, <1>2, <1>3 DEF Visible, Kept
<1>5. Located(o, t)' = "final"
  BY <1>1, <1>2, <1>3, <1>4 DEF Located, Reported
<1> QED  BY <1>3, <1>5 DEF AnswerOf

\* A request that does not move.
LEMMA RequestStays ==
    ASSUME Rightful, Onward, NEW q \in Process, RequestTrue(q), loop'[q] = loop[q],
           loop[q].owner # NoWorker => UNCHANGED seen[loop[q].owner][loop[q].task],
           loop[q].next = "items" => Spares(loop[q].task)
    PROVE  RequestTrue(q)'
<1>1. CASE loop[q].next = "items"
  <2>1. loop[q].owner # NoWorker
    BY <1>1 DEF RequestTrue
  <2> QED  BY <1>1, <2>1, FinalStays DEF RequestTrue
<1>2. CASE loop[q].next # "items"
  BY <1>2 DEF RequestTrue
<1> QED  BY <1>1, <1>2

\* No request at all.
LEMMA NoRequest ==
    ASSUME NEW q, loop'[q].owner = NoWorker, loop'[q].job \in {"none", "poll"},
           loop'[q].next \notin {"create", "reload", "items"}
    PROVE  RequestTrue(q)'
BY DEF RequestTrue

\* Requests of others.
LEMMA OthersRequest ==
    ASSUME ServiceInv, AnswersInv, Undisturbed, Rightful, Onward,
           NEW p \in Process, ProcessStep(p), NEW q \in Process \ {p}
    PROVE  RequestTrue(q)' /\ loop'[q] = loop[q]
<1>1. loop'[q] = loop[q] /\ RequestTrue(q)
  BY ProcessInOrder DEF InOrder, Alone, AnswersInv
<1>2. loop[q].owner # NoWorker => UNCHANGED seen[loop[q].owner][loop[q].task]
  <2>1. loop[q].owner # NoWorker => loop[q].owner # loop[p].owner
    BY DEF AnswersInv, OneRequest
  <2>2. UNCHANGED seen \/ Tells(p)
    BY StepTells
  <2>3. seen \in [OwnerId -> [TaskId -> Answer]] /\ loop[q].owner \in OwnerId \cup {NoWorker}
    BY DEF ServiceInv, Typed, Callback
  <2>4. ASSUME Tells(p), loop[q].owner # NoWorker
        PROVE  seen'[loop[q].owner] = seen[loop[q].owner]
    <3>1. PICK a \in Answer : seen' = [seen EXCEPT ![loop[p].owner][loop[p].task] = a]
      BY <2>4 DEF Tells
    <3> QED  BY <2>1, <2>3, <2>4, <3>1
  <2> QED  BY <1>1, <2>2, <2>4
<1>3. loop[q].next = "items" => Spares(loop[q].task)
  <2>1. Calm => loop[q].next # "items"
    BY <1>1 DEF RequestTrue, AnswersInv, Calm
  <2> QED  BY <2>1 DEF Undisturbed, Patient
<1> QED  BY <1>1, <1>2, <1>3, RequestStays

\* The request of p itself, and its owner.
LEMMA OwnRequest ==
    ASSUME ServiceInv, AnswersInv, Rightful, Onward, NEW p \in Process, ProcessStep(p)
    PROVE  /\ RequestTrue(p)'
           /\ \/ loop'[p].owner \in {loop[p].owner, NoWorker}
              \/ ~Waiting(loop'[p].owner)
<1> DEFINE o == loop[p].owner
           t == loop[p].task
<1>0. /\ Typed /\ Orderly(p) /\ loop[p] \in Callback /\ RequestTrue(p)
  BY DEF ServiceInv, AnswersInv, Typed
<1>1. CASE loop' = [loop EXCEPT ![p] = Idle]
  <2>1. loop'[p] = Idle
    BY <1>0, <1>1 DEF Typed
  <2> QED  BY <2>1, NoRequest DEF Idle
<1>2. CASE loop' = loop /\ ~Maintain(p)
  <2>1. loop[p].owner # NoWorker => UNCHANGED seen
    <3>1. Tells(p) => loop[p].owner = NoWorker
      BY <1>0, <1>2 DEF Tells, Typed, Idle
    <3> QED  BY <3>1, StepTells
  <2>2. Unretained
    BY <1>2, StepUnretained
  <2> QED  BY <1>0, <1>2, <2>1, <2>2, RequestStays DEF Unretained, Spares
<1>3. ASSUME NEW u \in OwnerId, NEW job \in Jobs, NEW v \in TaskId \cup {NoTask},
             Arrive(p, u, job, v)
      PROVE  RequestTrue(p)' /\ loop'[p].owner = u /\ ~Waiting(u)
  <2> DEFINE next == IF job = "submit" THEN "create" ELSE "maintain"
             c == [Idle EXCEPT !.job = job, !.owner = u, !.task = v, !.since = clock,
                               !.next = next]
  <2>1. loop'[p] = c /\ seen' = seen /\ ~Waiting(u) /\ loop[p].job = "none"
        /\ (job \in {"status", "results"} => seen[u][v].code # "none")
    BY <1>0, <1>3 DEF Arrive, Typed, LoopIsFree
  <2>2. c.job = job /\ c.owner = u /\ c.task = v /\ c.next = next
    BY DEF Idle
  <2>3. job # "none" /\ next \notin {"reload", "items"} /\ (next = "create" => job = "submit")
    BY ServiceAssumption
  <2> HIDE DEF c, next
  <2>4. u # NoWorker
    BY <1>0, <2>1 DEF RequestTrue, Waiting
  <2>5. RequestTrue(p)'
    BY <2>1, <2>2, <2>3, <2>4 DEF RequestTrue
  <2> QED  BY <2>1, <2>2, <2>5
<1>4. CASE SubmitCreate(p)
  <2>1. PICK v \in TaskId, n \in 1..MaxItems, now \in loop[p].since..clock :
           /\ CreateTask(v, o, n, now)
           /\ loop' = [loop EXCEPT ![p] = [@ EXCEPT !.next = "reload", !.task = v, !.since = 0]]
    BY <1>4 DEF SubmitCreate
  <2> DEFINE c == [loop[p] EXCEPT !.next = "reload", !.task = v, !.since = 0]
  <2>2. /\ c.next = "reload" /\ c.task = v /\ c.owner = o /\ c.job = loop[p].job
    BY <1>0 DEF Callback
  <2>3. loop'[p] = c /\ seen' = seen /\ loop[p].next = "create"
    BY <1>0, <1>4, <2>1 DEF Typed, SubmitCreate
  <2> HIDE DEF c
  <2>4. o \in OwnerId /\ v \notin issued
    BY <1>0, <2>1, <2>3 DEF Orderly, FramesOrderly, CreateTask
  <2>5. seen[o][v].code = "none"
    BY <2>4 DEF AnswersInv, Truth
  <2>6. o # NoWorker /\ c.job \notin {"none", "status", "results"}
    BY <1>0, <2>2, <2>3 DEF RequestTrue
  <2>7. RequestTrue(p)'
    BY <2>2, <2>3, <2>5, <2>6 DEF RequestTrue
  <2>8. loop'[p].owner = o
    BY <2>2, <2>3
  <2> QED  BY <2>7, <2>8
<1>5. CASE Maintain(p)
  <2>1. PICK next \in {"claim", "read"}, since \in Nat :
           loop' = [loop EXCEPT ![p] = [loop[p] EXCEPT !.next = next, !.since = since]]
    BY <1>5 DEF Maintain, ServiceInv, IInv
  <2> DEFINE c == [loop[p] EXCEPT !.next = next, !.since = since]
  <2>2. c.next = next /\ c.job = loop[p].job /\ c.owner = o /\ c.task = t
    BY <1>0 DEF Callback
  <2>3. loop'[p] = c /\ seen' = seen
    BY <1>0, <1>5, <2>1 DEF Typed, Maintain
  <2> HIDE DEF c
  <2>4. RequestTrue(p)'
    BY <1>0, <2>2, <2>3 DEF RequestTrue
  <2>5. loop'[p].owner = o
    BY <2>2, <2>3
  <2> QED  BY <2>4, <2>5
<1>6. CASE ResultsRead(p) /\ AnswerOf(o, t).code = "final"
  <2> DEFINE row == AnswerOf(o, t)
             c == [loop[p] EXCEPT !.next = "items", !.row = row]
  <2>1. loop' = [loop EXCEPT ![p] = c] /\ UNCHANGED <<seen, tasks>> /\ loop[p].job = "results"
    BY <1>6 DEF ResultsRead, storeUnchanged
  <2>2. Located(o, t) = "final"
    <3>1. o \in OwnerId /\ t \in TaskId
      BY <1>0, <2>1 DEF Orderly, FramesOrderly
    <3>2. seen[o][t] \in Answer
      BY <1>0, <3>1 DEF Typed
    <3>3. row.code = Located(o, t)
      BY <3>2 DEF AnswerOf, Answer
    <3> QED  BY <1>6, <3>3
  <2>3. AnswerOf(o, t)' = AnswerOf(o, t) /\ Located(o, t)' = Located(o, t)
    BY <2>1 DEF AnswerOf, Located, Reported, Visible
  <2> HIDE DEF row
  <2>4. /\ c.next = "items" /\ c.row = row /\ c.job = "results" /\ c.owner = o /\ c.task = t
    BY <1>0, <2>1 DEF Callback
  <2> HIDE DEF c
  <2>5. loop'[p] = c
    BY <1>0, <2>1 DEF Typed
  <2>6. c.row = AnswerOf(o, t)
    BY <2>4 DEF row
  <2> QED  BY <1>0, <2>1, <2>2, <2>3, <2>4, <2>5, <2>6 DEF RequestTrue
<1>7. CASE PollStart(p)
  <2> DEFINE c == [Idle EXCEPT !.job = "poll", !.next = "maintain", !.since = clock]
  <2>1. loop'[p] = c
    BY <1>0, <1>7 DEF PollStart, Typed
  <2> QED  BY <2>1, NoRequest DEF Idle
<1>8. \/ loop' = [loop EXCEPT ![p] = Idle]
      \/ loop' = loop /\ ~Maintain(p)
      \/ Request(p) \/ SubmitCreate(p) \/ Maintain(p) \/ PollStart(p)
      \/ ResultsRead(p) /\ AnswerOf(o, t).code = "final"
  BY DEF ProcessStep, Handler, SubmitReload, StatusRead, ResultsRead, ResultsItems, SummaryRead,
         Respond, Poll, PollClaim, Resume, WorkerEnds, Execute, ExecRenew, ExecClaimItem,
         ExecInfer, ExecFinalize, ExecFail, Failure, ExecFault, LoopFault, Crash, Halt, Start,
         Stop, Stopped
<1>9. CASE Request(p)
  BY <1>3, <1>9 DEF Request
<1>10. ResultsRead(p) /\ AnswerOf(o, t).code = "final" => loop'[p].owner = o
  BY <1>0 DEF ResultsRead, Typed, Callback
<1>11. PollStart(p) => loop'[p].owner = NoWorker
  BY <1>0 DEF PollStart, Typed, Idle
<1>12. loop' = [loop EXCEPT ![p] = Idle] => loop'[p].owner = NoWorker
  BY <1>0 DEF Typed, Idle
<1> QED  BY <1>1, <1>2, <1>4, <1>5, <1>6, <1>7, <1>8, <1>9, <1>10, <1>11, <1>12

----------------------------------------------------------------------------
(* The invariant.                                                             *)

\* Before any answer all answers are true.
LEMMA InitAnswers == ServiceInit => AnswersInv
<1> SUFFICES ASSUME ServiceInit PROVE AnswersInv
  OBVIOUS
<1>1. \A o \in OwnerId, t \in TaskId : Truth(seen[o][t], o, t)
  BY DEF ServiceInit, Init, Truth, Visible, NoAnswer
<1>2. \A p \in Process : loop[p] = Idle
  BY DEF ServiceInit
<1>3. OneRequest /\ \A p \in Process : RequestTrue(p)
  BY <1>2 DEF OneRequest, RequestTrue, Idle
<1> QED  BY <1>1, <1>3 DEF AnswersInv

\* Every step keeps the answers true and takes none back.
LEMMA StepAnswers ==
    ASSUME ServiceInv, Elapsed, AnswersInv, [ServiceNext /\ Undisturbed]_allVars
    PROVE  /\ AnswersInv'
           /\ \A o \in OwnerId, t \in TaskId : Advances(seen[o][t], seen'[o][t])
<1>0. /\ IInv /\ IInv' /\ Rightful /\ Onward
      /\ \A o \in OwnerId, t \in TaskId : seen[o][t] \in Answer /\ Truth(seen[o][t], o, t)
  <2>1. [Next]_vars /\ IInv
    BY UsesStore DEF ServiceInv
  <2> QED  BY <2>1, ClockAdvances, StepRightful, StepOnward DEF ServiceInv, Typed, AnswersInv
<1>1. ASSUME NEW o \in OwnerId, NEW t \in TaskId, seen'[o][t] = seen[o][t]
      PROVE  Truth(seen[o][t], o, t)' /\ Advances(seen[o][t], seen'[o][t])
  <2>1. PICK a \in Answer : a = seen[o][t]
    BY <1>0
  <2>2. Truth(a, o, t)'
    BY <1>0, <2>1, TruthStays
  <2>3. Advances(a, a)
    <3>1. a.code \in {"none", "running", "final", "expired", "missing"}
          /\ a.processed \in Nat /\ a.successful \in Nat
      BY DEF Answer
    <3> QED  BY <3>1, Ranks DEF Advances
  <2>4. a = seen'[o][t]
    BY <1>1, <2>1
  <2>5. Truth(seen[o][t], o, t)'
    BY <2>2, <2>4 DEF Truth, Settled
  <2> QED  BY <1>1, <2>1, <2>3, <2>5
<1>2. CASE Undisturbed /\ \E p \in Process : ProcessStep(p)
  <2>1. PICK p \in Process : ProcessStep(p)
    BY <1>2
  <2>2. RequestTrue(p)' /\ \A q \in Process \ {p} : RequestTrue(q)' /\ loop'[q] = loop[q]
    BY <1>0, <1>2, <2>1, OwnRequest, OthersRequest
  <2>3. OneRequest'
    <3>1. /\ loop'[p].owner \in {loop[p].owner, NoWorker} \/ ~Waiting(loop'[p].owner)
          /\ OneRequest
      BY <1>0, <2>1, OwnRequest DEF AnswersInv
    <3> QED  BY <2>2, <3>1 DEF OneRequest, Waiting
  <2>4. ASSUME NEW o \in OwnerId, NEW t \in TaskId
        PROVE  Truth(seen[o][t], o, t)' /\ Advances(seen[o][t], seen'[o][t])
    <3>1. CASE seen'[o][t] = seen[o][t]
      BY <1>1, <3>1
    <3>2. CASE Tells(p) /\ seen'[o][t] # seen[o][t]
      <4>1. PICK a \in Answer :
               /\ seen' = [seen EXCEPT ![loop[p].owner][loop[p].task] = a]
               /\ Truth(a, loop[p].owner, loop[p].task)
               /\ Advances(seen[loop[p].owner][loop[p].task], a)
        BY <3>2 DEF Tells
      <4>2. /\ loop[p].owner = o /\ loop[p].task = t /\ seen'[o][t] = a
            /\ Truth(a, o, t) /\ Advances(seen[o][t], a)
        BY <3>2, <4>1 DEF Tells, ServiceInv, Typed
      <4>3. Truth(a, o, t)'
        BY <1>0, <4>2, TruthStays
      <4>4. Truth(seen[o][t], o, t)'
        BY <4>2, <4>3 DEF Truth, Settled
      <4> QED  BY <4>2, <4>4
    <3> QED  BY <2>1, <3>1, <3>2, StepTells
  <2> QED  BY <2>2, <2>3, <2>4 DEF AnswersInv
<1>3. CASE Time \/ UNCHANGED allVars
  <2>1. UNCHANGED <<tasks, issued, loop, seen>>
    BY <1>3 DEF Time, Tick, allVars, threads
  <2>2. Unretained
    BY <1>0, <2>1, SameOnward
  <2>3. \A q \in Process : RequestTrue(q)'
    BY <1>0, <2>1, <2>2, RequestStays DEF AnswersInv, Unretained, Spares
  <2>4. OneRequest' /\ \A o \in OwnerId, t \in TaskId : seen'[o][t] = seen[o][t]
    BY <2>1 DEF AnswersInv, OneRequest
  <2> QED  BY <1>1, <2>3, <2>4 DEF AnswersInv
<1> QED  BY <1>2, <1>3 DEF ServiceNext, ProcessStep

----------------------------------------------------------------------------
(* The summary.  SumFunction folds over the sets of a function's domain: the  *)
(* recursive function the fold defines exists on a finite domain (by          *)
(* induction on the size of the sets), and is linear.                         *)

\* The element the fold takes next.
Any(s) == CHOOSE x \in s : TRUE

\* A set that is not empty has the chosen element.
LEMMA AnyIn == ASSUME NEW s, s # {} PROVE Any(s) \in s
BY DEF Any

\* g sums f over every set of D.
Sums(g, f, D) ==
    g = [s \in D |-> IF s = {} THEN 0 ELSE f[Any(s)] + g[s \ {Any(s)}]]

\* The fold of the library is such a function, at the whole domain.
LEMMA SumIsSums == ASSUME NEW f
   PROVE SumFunction(f) = (CHOOSE g : Sums(g, f, SUBSET DOMAIN f))[DOMAIN f]
BY DEF SumFunction, SumFunctionOnSet, FoldFunctionOnSet, MapThenFoldSet, Sums, Any

\* The sets of S of at most k elements.
Small(S, k) == {s \in SUBSET S : Cardinality(s) <= k}

\* The recursion of the fold defines a function, on a finite set.
LEMMA SumsExist ==
    ASSUME NEW S, IsFiniteSet(S), NEW f
    PROVE  \E g : Sums(g, f, SUBSET S)
<1> DEFINE Bad == {k \in Nat : ~ \E g : Sums(g, f, Small(S, k))}
<1>1. \A s \in SUBSET S :
         IsFiniteSet(s) /\ Cardinality(s) \in Nat /\ Cardinality(s) <= Cardinality(S)
  BY FS_Subset, FS_CardinalityType
<1>2. Cardinality(S) \in Nat /\ SUBSET S = Small(S, Cardinality(S))
  BY <1>1 DEF Small
<1>3. ASSUME Bad # {} PROVE FALSE
  <2>1. PICK k \in Bad : \A m \in Bad : k <= m
    BY <1>3, LeastNumber
  <2>2. CASE k = 0
    <3> DEFINE g == [s \in Small(S, 0) |-> 0]
    <3>1. \A s \in Small(S, 0) : s = {}
      BY <1>1, FS_EmptySet DEF Small
    <3>2. Sums(g, f, Small(S, 0))
      BY <3>1 DEF Sums
    <3> QED  BY <2>1, <2>2, <3>2
  <2>3. CASE k # 0
    <3>1. k - 1 \in Nat /\ k - 1 \notin Bad
      BY <2>1, <2>3
    <3>2. PICK g : Sums(g, f, Small(S, k - 1))
      BY <3>1
    <3> DEFINE h == [s \in Small(S, k) |-> IF s = {} THEN 0 ELSE f[Any(s)] + g[s \ {Any(s)}]]
    <3>3. \A s \in Small(S, k - 1) : s \in Small(S, k) /\ h[s] = g[s]
      <4>1. \A s \in Small(S, k - 1) : s \in Small(S, k)
        BY <1>1, <2>1 DEF Small
      <4>2. \A s \in Small(S, k - 1) : g[s] = IF s = {} THEN 0 ELSE f[Any(s)] + g[s \ {Any(s)}]
        BY <3>2 DEF Sums
      <4> QED  BY <4>1, <4>2
    <3>4. ASSUME NEW s \in Small(S, k), s # {}
          PROVE  s \ {Any(s)} \in Small(S, k - 1)
      <4>1. /\ s \in SUBSET S /\ IsFiniteSet(s) /\ Any(s) \in s
            /\ Cardinality(s) \in Nat /\ Cardinality(s) <= k
        BY <1>1, <3>4, AnyIn DEF Small
      <4>2. Cardinality(s \ {Any(s)}) = Cardinality(s) - 1
        BY <4>1, FS_RemoveElement
      <4> QED  BY <2>1, <4>1, <4>2 DEF Small
    <3>5. \A s \in Small(S, k) : h[s] = IF s = {} THEN 0 ELSE f[Any(s)] + g[s \ {Any(s)}]
      OBVIOUS
    <3> HIDE DEF h
    <3>6. h = [s \in Small(S, k) |-> IF s = {} THEN 0 ELSE f[Any(s)] + h[s \ {Any(s)}]]
      <4>1. \A s \in Small(S, k) : h[s] = IF s = {} THEN 0 ELSE f[Any(s)] + h[s \ {Any(s)}]
        BY <3>3, <3>4, <3>5
      <4>2. h = [s \in Small(S, k) |-> h[s]]
        BY DEF h
      <4> QED  BY <4>1, <4>2
    <3> QED  BY <2>1, <3>6 DEF Sums
  <2> QED  BY <2>2, <2>3
<1>4. PICK g : Sums(g, f, Small(S, Cardinality(S)))
  BY <1>2, <1>3
<1>5. Sums(g, f, SUBSET S)
  BY <1>2, <1>4 DEF Sums
<1> QED  BY <1>5

\* The sum over a finite set of differences is the difference of the sums.
LEMMA SumLinear ==
    ASSUME NEW S, IsFiniteSet(S), NEW f \in [S -> Int], NEW g \in [S -> Int], NEW h \in [S -> Int],
           \A x \in S : f[x] - g[x] = h[x]
    PROVE  /\ SumFunction(f) \in Int /\ SumFunction(g) \in Int
           /\ SumFunction(f) - SumFunction(g) = SumFunction(h)
<1> DEFINE F == CHOOSE i : Sums(i, f, SUBSET S)
           G == CHOOSE i : Sums(i, g, SUBSET S)
           H == CHOOSE i : Sums(i, h, SUBSET S)
           Holds(s) == F[s] \in Int /\ G[s] \in Int /\ F[s] - G[s] = H[s]
           Bad == {s \in SUBSET S : ~ Holds(s)}
<1>1. Sums(F, f, SUBSET S) /\ Sums(G, g, SUBSET S) /\ Sums(H, h, SUBSET S)
  BY SumsExist
<1>2. SumFunction(f) = F[S] /\ SumFunction(g) = G[S] /\ SumFunction(h) = H[S]
  BY SumIsSums
<1>3. \A s \in SUBSET S : IsFiniteSet(s) /\ Cardinality(s) \in Nat
  BY FS_Subset, FS_CardinalityType
<1> HIDE DEF F, G, H
<1>4. ASSUME Bad # {} PROVE FALSE
  <2> DEFINE Sizes == {n \in Nat : \E s \in Bad : Cardinality(s) = n}
  <2>1. PICK n \in Sizes : \A m \in Sizes : n <= m
    <3>1. Sizes # {}
      BY <1>3, <1>4
    <3>2. Sizes \subseteq Nat
      OBVIOUS
    <3> HIDE DEF Sizes
    <3> QED  BY <3>1, <3>2, LeastNumber
  <2>2. PICK s \in Bad : Cardinality(s) = n
    BY <2>1
  <2>3. /\ F[s] = IF s = {} THEN 0 ELSE f[Any(s)] + F[s \ {Any(s)}]
        /\ G[s] = IF s = {} THEN 0 ELSE g[Any(s)] + G[s \ {Any(s)}]
        /\ H[s] = IF s = {} THEN 0 ELSE h[Any(s)] + H[s \ {Any(s)}]
    BY <1>1 DEF Sums
  <2>4. CASE s = {}
    BY <2>2, <2>3, <2>4
  <2>5. CASE s # {}
    <3>1. Any(s) \in s /\ Any(s) \in S /\ s \ {Any(s)} \in SUBSET S
      BY <2>5, AnyIn
    <3>2. Cardinality(s \ {Any(s)}) = Cardinality(s) - 1 /\ Cardinality(s) \in Nat
      BY <1>3, <3>1, FS_RemoveElement
    <3>3. Holds(s \ {Any(s)})
      <4>1. Cardinality(s \ {Any(s)}) \in Nat /\ ~(n <= Cardinality(s \ {Any(s)}))
        BY <1>3, <2>2, <3>1, <3>2
      <4>2. s \ {Any(s)} \notin Bad
        BY <2>1, <4>1
      <4> QED  BY <3>1, <4>2
    <3>4. f[Any(s)] \in Int /\ g[Any(s)] \in Int /\ f[Any(s)] - g[Any(s)] = h[Any(s)]
      BY <3>1
    <3> QED  BY <2>2, <2>3, <2>5, <3>3, <3>4
  <2> QED  BY <2>4, <2>5
<1>5. Holds(S)
  BY <1>4
<1> QED  BY <1>2, <1>5

\* There are never more tasks in the table than submissions were accepted.
LEMMA GrowsByOne == [Next]_vars => \E t : DOMAIN tasks' \subseteq DOMAIN tasks \cup {t}
<1> SUFFICES ASSUME [Next]_vars PROVE \E t : DOMAIN tasks' \subseteq DOMAIN tasks \cup {t}
  OBVIOUS
<1>1. ASSUME NEW t, NEW o, NEW n, NEW now, CreateTask(t, o, n, now)
      PROVE  DOMAIN tasks' \subseteq DOMAIN tasks \cup {t}
  BY <1>1 DEF CreateTask
<1>2. ASSUME NEW w, NEW t, NEW now, Work(w, t, now)
      PROVE  DOMAIN tasks' \subseteq DOMAIN tasks
  BY <1>2 DEF Work, ClaimTask, RenewLease, ClaimNextItem, FinalizeItem, FailTask
<1>3. ASSUME NEW now, MaintainRetention(now)
      PROVE  DOMAIN tasks' \subseteq DOMAIN tasks
  BY <1>3 DEF MaintainRetention
<1>4. Tick \/ UNCHANGED vars => DOMAIN tasks' \subseteq DOMAIN tasks
  BY DEF Tick, vars
<1> QED  BY <1>1, <1>2, <1>3, <1>4 DEF Next, Submission

Finite == IsFiniteSet(DOMAIN tasks)

\* So the table is finite, which is what lets a column be summed.
LEMMA AlwaysFinite == Spec => []Finite
<1>1. Init => Finite
  BY FS_EmptySet DEF Init, Finite
<1>2. Finite /\ [Next]_vars => Finite'
  <2> SUFFICES ASSUME Finite, [Next]_vars PROVE Finite'
    OBVIOUS
  <2>1. PICK t : DOMAIN tasks' \subseteq DOMAIN tasks \cup {t}
    BY GrowsByOne
  <2>2. IsFiniteSet(DOMAIN tasks \cup {t})
    BY FS_AddElement DEF Finite
  <2> QED  BY <2>1, <2>2, FS_Subset DEF Finite
<1> QED  BY <1>1, <1>2, PTL DEF Spec

\* What the summary of one owner's tasks adds up.
LEMMA SummaryOf ==
    ASSUME IInv, Finite, NEW o
    PROVE  LET s == RunningSummary(o)
           IN  /\ s.total = s.queued + s.processing
               /\ s.accepted - s.processed =
                     SumFunction([t \in RunningTasks(o) |-> Cardinality(Undecided(t))])
               /\ s.processed = s.successful + s.failed
<1> DEFINE R == RunningTasks(o)
           Column(c) == [t \in R |-> tasks[t][c]]
           Left == [t \in R |-> Cardinality(Undecided(t))]
           Q == {t \in R : tasks[t].status = "queued"}
           P == {t \in R : tasks[t].status = "processing"}
<1>1. R \subseteq DOMAIN tasks /\ IsFiniteSet(R) /\ \A t \in R : tasks[t].status \in Running
  BY FS_Subset DEF RunningTasks, Finite
<1>2. Cardinality(R) = Cardinality(Q) + Cardinality(P)
  <2>1. R = Q \cup P /\ Q \cap P = {}
    BY <1>1 DEF Running
  <2>2. IsFiniteSet(Q) /\ IsFiniteSet(P)
    BY <1>1, FS_Subset
  <2> QED  BY <2>1, <2>2, DisjointUnion
<1>3. ASSUME NEW t \in R
      PROVE  /\ tasks[t].accepted \in Int /\ tasks[t].processed \in Int
             /\ tasks[t].successful \in Int /\ tasks[t].failed \in Int
             /\ Cardinality(Undecided(t)) \in Int
             /\ tasks[t].accepted - tasks[t].processed = Cardinality(Undecided(t))
             /\ tasks[t].processed - tasks[t].successful = tasks[t].failed
  <2>1. /\ tasks[t] \in TaskRow /\ items[t] \in [0..tasks[t].accepted - 1 -> ItemRow]
        /\ Counted(tasks[t], items[t])
    BY <1>1, GoodTasks DEF Good
  <2>2. tasks[t].accepted \in Nat /\ Undecided(t) = Open(items[t])
    BY <2>1, SettingsAssumption DEF TaskRow, Undecided, Open
  <2> QED  BY <2>1, <2>2, Partition DEF Counted
<1>4. /\ Column("accepted") \in [R -> Int] /\ Column("processed") \in [R -> Int]
      /\ Column("successful") \in [R -> Int] /\ Column("failed") \in [R -> Int]
      /\ Left \in [R -> Int]
  BY <1>3
<1>5. SumFunction(Column("accepted")) - SumFunction(Column("processed")) = SumFunction(Left)
  BY <1>1, <1>3, <1>4, SumLinear
<1>6. /\ SumFunction(Column("processed")) \in Int /\ SumFunction(Column("successful")) \in Int
      /\ SumFunction(Column("processed")) - SumFunction(Column("successful"))
            = SumFunction(Column("failed"))
  BY <1>1, <1>3, <1>4, SumLinear
<1>7. SumFunction(Column("failed")) \in Int
  BY <1>6
<1>8. SumFunction(Column("processed"))
         = SumFunction(Column("successful")) + SumFunction(Column("failed"))
  BY <1>6, <1>7
<1> QED  BY <1>2, <1>5, <1>8 DEF RunningSummary

----------------------------------------------------------------------------
(* The theorems.                                                              *)

\* Every answer a client has stays true of the table, whoever works on it.
THEOREM AnswersTrue == ServiceSpec /\ [][Undisturbed]_allVars => []AnswersInv
<1>1. ServiceSpec => []Elapsed
  BY ServiceUsesRepository, PurgedHaveExpired, PTL DEF UsesRepository
<1>2. ServiceInv /\ Elapsed /\ AnswersInv /\ [ServiceNext /\ Undisturbed]_allVars => AnswersInv'
  BY StepAnswers
<1>3. [ServiceNext]_allVars /\ [Undisturbed]_allVars => [ServiceNext /\ Undisturbed]_allVars
  OBVIOUS
<1> QED  BY <1>1, <1>2, <1>3, InitAnswers, ServiceInvariance, PTL DEF ServiceSpec

\* A client that asks again is never taken back.
THEOREM AnswersNeverGoBack == ServiceSpec /\ [][Undisturbed]_allVars => AnswersAdvance
<1> DEFINE Forward == \A o \in OwnerId, t \in TaskId :
          LET old == seen[o][t]
              new == seen'[o][t]
          IN  /\ Rank[old.code] <= Rank[new.code]
              /\ old.processed <= new.processed /\ old.successful <= new.successful
              /\ Rank[old.code] >= Rank["final"] =>
                    old.processed = new.processed /\ old.successful = new.successful
              /\ old.results => new.results /\ new.body = old.body
<1>1. ServiceSpec => []Elapsed
  BY ServiceUsesRepository, PurgedHaveExpired, PTL DEF UsesRepository
<1>2. ServiceInv /\ Elapsed /\ AnswersInv /\ [ServiceNext /\ Undisturbed]_allVars => Forward
  BY StepAnswers DEF Advances
<1>3. [ServiceNext]_allVars /\ [Undisturbed]_allVars => [ServiceNext /\ Undisturbed]_allVars
  OBVIOUS
<1> QED  BY <1>1, <1>2, <1>3, AnswersTrue, ServiceInvariance, PTL
         DEF ServiceSpec, AnswersAdvance

\* Results that were served are an outcome for every accepted source.
THEOREM ResultsServedWhole == ServiceSpec /\ [][Undisturbed]_allVars => []ResultsAreWhole
<1>1. AnswersInv => ResultsAreWhole
  BY DEF AnswersInv, Truth, Whole, ServedAs, ResultsAreWhole
<1> QED  BY <1>1, AnswersTrue, PTL

\* The aggregates of a summary account for every item of the tasks it counts,
\* however many there are.
THEOREM SummaryAccounts == ServiceSpec => []SummaryMatchesItems
<1>1. IInv /\ Finite => SummaryMatchesItems
  BY SummaryOf DEF SummaryMatchesItems
<1> QED  BY <1>1, ServiceUsesRepository, Invariance, AlwaysFinite, PTL DEF UsesRepository
=============================================================================
