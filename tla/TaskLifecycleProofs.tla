------------------------- MODULE TaskLifecycleProofs -------------------------
(* A proof that TaskRepository implements TaskLifecycle: every transaction of *)
(* the store, whoever runs it, is a step of the promised life cycle of one    *)
(* task, or of retention, or is invisible to it.                              *)
EXTENDS TaskRepositoryProofs

\* The promise's view of the tables.
Phases   == [t \in TaskId |-> PhaseOf(t)]
Outcomes == [t \in TaskId |-> OutcomeOf(t)]

\* What the promise sees of a task that is in the table and not purged.
Seen(its) == [p \in DOMAIN its |-> IF its[p].status \in Running THEN "pending"
                                                               ELSE its[p].status]

LifecycleStep == [Lifecycle!Next]_(Lifecycle!vars)

----------------------------------------------------------------------------
(* The view.                                                                  *)

\* Task t is one of the table's.
LEMMA ViewOf ==
    ASSUME IInv, NEW t \in DOMAIN tasks, ~tasks[t].purged
    PROVE  /\ t \in TaskId
           /\ Phases[t] = tasks[t].status /\ Outcomes[t] = Seen(items[t])
<1>1. t \in TaskId /\ t \in issued
  BY DEF IInv
<1>2. PhaseOf(t) = tasks[t].status
  BY <1>1 DEF PhaseOf
<1>3. tasks[t].status \in Running \cup Terminal
  BY DEF IInv, Good, TaskRow
<1>4. OutcomeOf(t) = Seen(items[t])
  BY <1>2, <1>3 DEF OutcomeOf, Seen, Undecided, Running, Terminal
<1> QED  BY <1>1, <1>2, <1>4 DEF Phases, Outcomes

\* A transaction that rewrites one task and does not purge it changes the view
\* of that task only.
LEMMA ViewChange ==
    ASSUME IInv, NEW t \in DOMAIN tasks, NEW row, NEW its,
           ~tasks[t].purged, ~row.purged, row.status \in Running \cup Terminal,
           tasks' = [tasks EXCEPT ![t] = row], items' = [items EXCEPT ![t] = its],
           issued' = issued
    PROVE  /\ Phases' = [Phases EXCEPT ![t] = row.status]
           /\ Outcomes' = [Outcomes EXCEPT ![t] = Seen(its)]
<1>1. t \in TaskId /\ t \in issued /\ DOMAIN tasks' = DOMAIN tasks /\ t \in DOMAIN items
  BY DEF IInv
<1>2. tasks'[t] = row /\ items'[t] = its
  BY <1>1
<1>3. PhaseOf(t)' = row.status
  BY <1>1, <1>2 DEF PhaseOf
<1>4. OutcomeOf(t)' = Seen(its)
  BY <1>2, <1>3 DEF OutcomeOf, Seen, Undecided, Running, Terminal
<1>5. ASSUME NEW u \in TaskId, u # t
      PROVE  PhaseOf(u)' = PhaseOf(u) /\ OutcomeOf(u)' = OutcomeOf(u)
  <2>1. u \in DOMAIN tasks => tasks'[u] = tasks[u] /\ items'[u] = items[u]
    BY <1>5 DEF IInv
  <2>2. PhaseOf(u)' = PhaseOf(u)
    BY <1>1, <2>1 DEF PhaseOf
  <2>3. CASE u \in DOMAIN tasks
    BY <2>1, <2>2, <2>3 DEF OutcomeOf, Undecided
  <2>4. CASE u \notin DOMAIN tasks
    BY <1>1, <2>2, <2>4 DEF OutcomeOf, PhaseOf
  <2> QED  BY <2>2, <2>3, <2>4
<1> QED  BY <1>1, <1>3, <1>4, <1>5 DEF Phases, Outcomes

----------------------------------------------------------------------------
(* The transactions.                                                          *)

\* create_task is the promise's Accept.
LEMMA CreateImplements ==
    ASSUME IInv, NEW now \in Nat, NEW t \in TaskId, NEW o \in OwnerId, NEW n \in 1..MaxItems,
           CreateTask(t, o, n, now)
    PROVE  Lifecycle!Accept(t, n)
<1>1. t \notin issued /\ t \notin DOMAIN tasks /\ DOMAIN items = DOMAIN tasks
  BY DEF IInv, CreateTask
<1>2. /\ tasks' = [u \in DOMAIN tasks \cup {t} |->
                      IF u = t THEN NewTask(o, n, now) ELSE tasks[u]]
      /\ items' = [u \in DOMAIN tasks \cup {t} |->
                      IF u = t THEN [p \in 0..n - 1 |-> NewItem] ELSE items[u]]
      /\ issued' = issued \cup {t}
  BY <1>1 DEF CreateTask
<1>3. PhaseOf(t) = "unknown"
  BY <1>1 DEF PhaseOf
<1>4. PhaseOf(t)' = "queued"
  BY <1>2 DEF PhaseOf, NewTask
<1>5. OutcomeOf(t)' = [p \in 0..n - 1 |-> "pending"]
  <2>1. items'[t] = [p \in 0..n - 1 |-> NewItem]
    BY <1>2
  <2> QED  BY <1>4, <2>1 DEF OutcomeOf, Undecided, NewItem, Running
<1>6. ASSUME NEW u \in TaskId, u # t
      PROVE  PhaseOf(u)' = PhaseOf(u) /\ OutcomeOf(u)' = OutcomeOf(u)
  <2>1. /\ u \in issued' <=> u \in issued
        /\ u \in DOMAIN tasks' <=> u \in DOMAIN tasks
        /\ u \in DOMAIN tasks => tasks'[u] = tasks[u] /\ items'[u] = items[u]
    BY <1>2, <1>6
  <2>2. PhaseOf(u)' = PhaseOf(u)
    BY <2>1 DEF PhaseOf
  <2>3. CASE u \in DOMAIN tasks
    BY <2>1, <2>2, <2>3 DEF OutcomeOf, Undecided
  <2>4. CASE u \notin DOMAIN tasks
    BY <2>2, <2>4 DEF OutcomeOf, PhaseOf
  <2> QED  BY <2>2, <2>3, <2>4
<1>7. Phases' = [Phases EXCEPT ![t] = "queued"]
  BY <1>4, <1>6 DEF Phases
<1>8. Outcomes' = [Outcomes EXCEPT ![t] = [p \in 0..n - 1 |-> "pending"]]
  BY <1>5, <1>6 DEF Outcomes
<1> QED  BY <1>3, <1>7, <1>8 DEF Lifecycle!Accept, Phases, Outcomes

\* claim_task is Begin for a queued task, and invisible for one taken over.
LEMMA ClaimImplements ==
    ASSUME IInv, NEW now \in Nat, NEW t \in DOMAIN tasks, NEW w \in WorkerId,
           ClaimTask(t, w, now)
    PROVE  LifecycleStep
<1> DEFINE row == Claimed(tasks[t], w, now)
<1>1. /\ tasks[t] \in TaskRow /\ tasks[t].status \in Running /\ ~tasks[t].purged
      /\ tasks' = [tasks EXCEPT ![t] = row] /\ items' = [items EXCEPT ![t] = items[t]]
      /\ issued' = issued
  BY DEF IInv, Good, ClaimTask, Oldest, Claimable
<1>2. row.status = "processing" /\ ~row.purged
  BY <1>1 DEF Claimed, TaskRow
<1>3. /\ Phases' = [Phases EXCEPT ![t] = "processing"]
      /\ Outcomes' = [Outcomes EXCEPT ![t] = Seen(items[t])]
  <2>1. row.status \in Running \cup Terminal
    BY <1>2 DEF Running
  <2> HIDE DEF row
  <2> QED  BY <1>1, <1>2, <2>1, ViewChange
<1>4. t \in TaskId /\ Phases[t] = tasks[t].status /\ Outcomes[t] = Seen(items[t])
  BY <1>1, ViewOf
<1>5. Outcomes' = Outcomes
  BY <1>3, <1>4 DEF Outcomes
<1>6. CASE tasks[t].status = "queued"
  <2>1. Lifecycle!Begin(t)
    BY <1>3, <1>4, <1>5, <1>6 DEF Lifecycle!Begin, Phases, Outcomes
  <2> QED  BY <1>4, <2>1 DEF LifecycleStep, Lifecycle!Next
<1>7. CASE tasks[t].status = "processing"
  <2>1. Phases' = Phases
    BY <1>3, <1>4, <1>7 DEF Phases
  <2> QED  BY <1>5, <2>1 DEF LifecycleStep, Lifecycle!vars, Phases, Outcomes
<1> QED  BY <1>1, <1>6, <1>7 DEF Running

\* renew_lease and claim_next_item are invisible.
LEMMA RenewImplements ==
    ASSUME IInv, NEW now \in Nat, NEW t \in DOMAIN tasks, NEW w \in WorkerId,
           RenewLease(t, w, now)
    PROVE  Phases' = Phases /\ Outcomes' = Outcomes
<1> DEFINE row == [tasks[t] EXCEPT !.lease_expires_at = now + LeaseSeconds, !.updated_at = now]
<1>1. /\ Good(tasks[t], items[t]) /\ tasks[t].lease_owner # NoWorker
      /\ tasks' = [tasks EXCEPT ![t] = row] /\ items' = [items EXCEPT ![t] = items[t]]
      /\ issued' = issued
  BY SettingsAssumption DEF IInv, RenewLease, Renewable, HoldsLease
<1>2. /\ row.status = tasks[t].status /\ ~row.purged /\ ~tasks[t].purged
      /\ row.status \in Running \cup Terminal
  BY <1>1 DEF Good, Leased, TaskRow
<1>3. /\ Phases' = [Phases EXCEPT ![t] = tasks[t].status]
      /\ Outcomes' = [Outcomes EXCEPT ![t] = Seen(items[t])]
  BY <1>1, <1>2, ViewChange
<1>4. Phases[t] = tasks[t].status /\ Outcomes[t] = Seen(items[t])
  BY <1>2, ViewOf
<1> QED  BY <1>3, <1>4 DEF Phases, Outcomes

\* Claiming an item leaves it pending in the promise's view.
LEMMA ClaimItemImplements ==
    ASSUME IInv, NEW now \in Nat, NEW t \in DOMAIN tasks, NEW w \in WorkerId,
           NEW p \in DOMAIN items[t], ClaimNextItem(t, w, p, now)
    PROVE  Phases' = Phases /\ Outcomes' = Outcomes
<1> DEFINE its == [items[t] EXCEPT ![p].status = "processing"]
<1>1. /\ Good(tasks[t], items[t]) /\ ~tasks[t].purged /\ items[t][p].status \in Running
      /\ tasks' = [tasks EXCEPT ![t] = tasks[t]] /\ items' = [items EXCEPT ![t] = its]
      /\ issued' = issued
  BY DEF IInv, ClaimNextItem, LeaseActive, IsNextItem, Undecided
<1>2. tasks[t].status \in Running \cup Terminal
  BY <1>1 DEF Good, TaskRow
<1>3. /\ Phases' = [Phases EXCEPT ![t] = tasks[t].status]
      /\ Outcomes' = [Outcomes EXCEPT ![t] = Seen(its)]
  BY <1>1, <1>2, ViewChange
<1>4. Seen(its) = Seen(items[t])
  BY <1>1 DEF Seen, Running, Good, ItemRow
<1>5. Phases[t] = tasks[t].status /\ Outcomes[t] = Seen(items[t])
  BY <1>1, ViewOf
<1> QED  BY <1>3, <1>4, <1>5 DEF Phases, Outcomes

\* The verdict of the outcomes seen, in terms of the items.
LEMMA VerdictSeen ==
    ASSUME NEW n \in Nat, NEW its \in [0..n - 1 -> ItemRow]
    PROVE  Lifecycle!VerdictOf(Seen(its)) =
              IF Open(its) # {} THEN "processing"
              ELSE IF Having(its, "completed") = DOMAIN its THEN "completed"
              ELSE IF Having(its, "completed") = {} THEN "failed"
              ELSE "partially_completed"
<1>1. \A p \in DOMAIN its : its[p].status \in {"queued", "processing", "completed", "failed"}
  BY DEF ItemRow, Running, ItemFinal
<1>2. (\E p \in DOMAIN its : Seen(its)[p] = "pending") <=> Open(its) # {}
  BY <1>1 DEF Seen, Open, Running
<1>3. (\A p \in DOMAIN its : Seen(its)[p] = "completed") <=> Having(its, "completed") = DOMAIN its
  BY <1>1 DEF Seen, Having, Running
<1>4. Open(its) = {} => ((\A p \in DOMAIN its : Seen(its)[p] = "failed")
                            <=> Having(its, "completed") = {})
  BY <1>1 DEF Seen, Having, Open, Running
<1>5. DOMAIN Seen(its) = DOMAIN its
  BY DEF Seen
<1> QED  BY <1>2, <1>3, <1>4, <1>5 DEF Lifecycle!VerdictOf

\* finalize_item is Record: the status it derives from counters is the verdict.
LEMMA FinalizeImplements ==
    ASSUME IInv, NEW now \in Nat, NEW t \in DOMAIN tasks, NEW w \in WorkerId,
           NEW p \in DOMAIN items[t], NEW r \in ItemFinal, FinalizeItem(t, w, p, r, now)
    PROVE  /\ t \in TaskId /\ p \in DOMAIN Outcomes[t]
           /\ Lifecycle!Record(t, p, r)
<1> DEFINE row == Advanced(tasks[t], r, now)
           its == Recorded(items[t], p, r)
<1>1. /\ Good(tasks[t], items[t]) /\ tasks[t].lease_owner # NoWorker
      /\ tasks' = [tasks EXCEPT ![t] = row] /\ items' = [items EXCEPT ![t] = its]
      /\ issued' = issued /\ items[t][p].status \notin ItemFinal
  BY SettingsAssumption DEF IInv, FinalizeItem, Mutable, HoldsLease, Recorded
<1>2. items[t][p].status \in Running
  BY <1>1 DEF Good, ItemRow
<1>3. Good(row, its)
  BY <1>1, <1>2, RecordGood DEF Open
<1>4. tasks[t].status = "processing" /\ ~tasks[t].purged /\ tasks[t] \in TaskRow
  BY <1>1 DEF Good, Leased
<1>5. /\ ~row.purged
      /\ row.status = DerivedStatus(row.processed, row.successful, row.accepted)
  BY <1>4 DEF Advanced, TaskRow
<1>6. row \in TaskRow /\ its \in [0..row.accepted - 1 -> ItemRow] /\ Counted(row, its)
  BY <1>3 DEF Good
<1> HIDE DEF row, its
<1>7. row.accepted \in Nat /\ row.accepted > 0 /\ row.status \in Running \cup Terminal
  BY <1>6, SettingsAssumption DEF TaskRow
<1>8. row.status = Lifecycle!VerdictOf(Seen(its))
  <2>1. /\ Open(its) = {} <=> row.processed = row.accepted
        /\ Having(its, "completed") = DOMAIN its <=> row.successful = row.accepted
        /\ Having(its, "completed") = {} <=> row.successful = 0
    BY <1>6, <1>7, CountsDecide DEF Counted
  <2>2. row.successful \in Nat
    BY <1>6 DEF TaskRow
  <2>3. row.status = IF Open(its) # {} THEN "processing"
                     ELSE IF Having(its, "completed") = DOMAIN its THEN "completed"
                     ELSE IF Having(its, "completed") = {} THEN "failed"
                     ELSE "partially_completed"
    BY <1>5, <2>1, <2>2 DEF DerivedStatus
  <2> QED  BY <1>6, <1>7, <2>3, VerdictSeen
<1>9. /\ Phases' = [Phases EXCEPT ![t] = row.status]
      /\ Outcomes' = [Outcomes EXCEPT ![t] = Seen(its)]
  BY <1>1, <1>4, <1>5, <1>7, ViewChange
<1>10. t \in TaskId /\ Phases[t] = "processing" /\ Outcomes[t] = Seen(items[t])
  BY <1>4, ViewOf
<1>11. Outcomes[t][p] = "pending" /\ p \in DOMAIN Outcomes[t]
  BY <1>2, <1>10 DEF Seen
<1>12. Seen(its) = [Outcomes[t] EXCEPT ![p] = r]
  BY <1>1, <1>10 DEF Seen, its, Recorded, Good, ItemRow, ItemFinal, Running
<1> QED  BY <1>8, <1>9, <1>10, <1>11, <1>12 DEF Lifecycle!Record, Phases, Outcomes

\* fail_task is Abandon.
LEMMA FailImplements ==
    ASSUME IInv, NEW now \in Nat, NEW t \in DOMAIN tasks, NEW w \in WorkerId,
           FailTask(t, w, now)
    PROVE  t \in TaskId /\ Lifecycle!Abandon(t)
<1> DEFINE row == GivenUp(tasks[t], now)
           its == AllFailed(items[t])
<1>1. /\ Good(tasks[t], items[t]) /\ tasks[t].lease_owner # NoWorker
      /\ tasks' = [tasks EXCEPT ![t] = row] /\ items' = [items EXCEPT ![t] = its]
      /\ issued' = issued
  BY SettingsAssumption DEF IInv, FailTask, Mutable, HoldsLease, AllFailed, Open, Undecided
<1>2. tasks[t].status = "processing" /\ ~tasks[t].purged /\ tasks[t] \in TaskRow
  BY <1>1 DEF Good, Leased
<1>3. row.status = "failed" /\ ~row.purged
  BY <1>2 DEF GivenUp, TaskRow
<1>4. /\ Phases' = [Phases EXCEPT ![t] = "failed"]
      /\ Outcomes' = [Outcomes EXCEPT ![t] = Seen(its)]
  BY <1>1, <1>2, <1>3, ViewChange DEF Terminal
<1>5. t \in TaskId /\ Phases[t] = "processing" /\ Outcomes[t] = Seen(items[t])
  BY <1>2, ViewOf
<1>6. Seen(its) = [p \in DOMAIN Outcomes[t] |-> IF Outcomes[t][p] = "pending" THEN "failed"
                                                                     ELSE Outcomes[t][p]]
  <2>1. items[t] \in [0..tasks[t].accepted - 1 -> ItemRow]
    BY <1>1 DEF Good
  <2>2. DOMAIN its = DOMAIN items[t] /\ DOMAIN Outcomes[t] = DOMAIN items[t]
    BY <1>5 DEF AllFailed, Seen
  <2>3. ASSUME NEW p \in DOMAIN items[t]
        PROVE  Seen(its)[p] = IF Outcomes[t][p] = "pending" THEN "failed" ELSE Outcomes[t][p]
    <3>1. items[t][p] \in ItemRow
      BY <2>1
    <3>2. Outcomes[t][p] = IF items[t][p].status \in Running THEN "pending"
                                                             ELSE items[t][p].status
      BY <1>5 DEF Seen
    <3>3. Seen(its)[p] = IF its[p].status \in Running THEN "pending" ELSE its[p].status
      BY <2>2 DEF Seen
    <3>4. its[p].status = IF items[t][p].status \in Running THEN "failed"
                                                            ELSE items[t][p].status
      BY <2>1, <3>1 DEF AllFailed, Open, ItemRow
    <3> HIDE DEF its
    <3> QED  BY <3>1, <3>2, <3>3, <3>4 DEF ItemRow, Running, ItemFinal
  <2>4. Seen(its) = [p \in DOMAIN Outcomes[t] |-> Seen(its)[p]]
    BY <2>2 DEF Seen
  <2> HIDE DEF its
  <2> QED  BY <2>2, <2>3, <2>4
<1> QED  BY <1>4, <1>5, <1>6 DEF Lifecycle!Abandon, Phases, Outcomes

\* maintain_retention is Retire, of what it purges and what it deletes.
LEMMA RetentionImplements ==
    ASSUME IInv, NEW now \in Nat, MaintainRetention(now)
    PROVE  Lifecycle!Retire(ToPurge(now), ToDelete(now))
<1> DEFINE S == ToPurge(now)
           D == ToDelete(now)
<1>1. /\ DOMAIN tasks' = DOMAIN tasks \ D /\ issued' = issued
      /\ \A t \in DOMAIN tasks \ D :
            /\ tasks'[t] = IF t \in S THEN Purged(tasks[t], now) ELSE tasks[t]
            /\ t \notin S => items'[t] = items[t]
  BY DEF MaintainRetention
<1>2. S \subseteq DOMAIN tasks /\ D \subseteq DOMAIN tasks /\ DOMAIN tasks \subseteq issued
      /\ issued \subseteq TaskId
  BY DEF ToPurge, ToDelete, IInv
<1>3. \A t \in S : PhaseOf(t) \in Lifecycle!Live
  BY <1>2 DEF ToPurge, PhaseOf, IInv, Good, TaskRow, Running, Terminal,
              Lifecycle!Live, Lifecycle!Verdicts
<1>4. \A t \in D : PhaseOf(t) = "expired" \/ t \in S
  BY <1>2 DEF ToDelete, PhaseOf
<1>5. ASSUME NEW t \in TaskId
      PROVE  /\ PhaseOf(t)' = IF t \in D THEN "forgotten"
                              ELSE IF t \in S THEN "expired" ELSE PhaseOf(t)
             /\ OutcomeOf(t)' = IF t \in S \cup D THEN Lifecycle!Nothing ELSE OutcomeOf(t)
  <2>1. CASE t \in D
    BY <1>1, <1>2, <2>1 DEF PhaseOf, OutcomeOf, Lifecycle!Nothing
  <2>2. CASE t \in S \ D
    <3>1. tasks'[t].purged
      BY <1>1, <1>2, <2>2 DEF Purged, IInv, Good, TaskRow
    <3> QED  BY <1>1, <1>2, <2>2, <3>1 DEF PhaseOf, OutcomeOf, Lifecycle!Nothing
  <2>3. CASE t \notin S \cup D
    <3>1. /\ t \in DOMAIN tasks' <=> t \in DOMAIN tasks
          /\ t \in DOMAIN tasks => tasks'[t] = tasks[t] /\ items'[t] = items[t]
      BY <1>1, <2>3
    <3>2. PhaseOf(t)' = PhaseOf(t)
      BY <1>1, <3>1 DEF PhaseOf
    <3>3. OutcomeOf(t)' = OutcomeOf(t)
      <4>1. CASE t \in DOMAIN tasks
        BY <3>1, <3>2, <4>1 DEF OutcomeOf, Undecided
      <4>2. CASE t \notin DOMAIN tasks
        BY <3>2, <4>2 DEF OutcomeOf, PhaseOf
      <4> QED  BY <4>1, <4>2
    <3> QED  BY <2>3, <3>2, <3>3
  <2> QED  BY <2>1, <2>2, <2>3
<1> HIDE DEF S, D
<1> QED  BY <1>2, <1>3, <1>4, <1>5 DEF Lifecycle!Retire, S, D

----------------------------------------------------------------------------

\* The empty tables are a promise about nothing.
LEMMA InitImplements == Init => Lifecycle!Init
BY DEF Init, Lifecycle!Init, Lifecycle!Nothing, PhaseOf, OutcomeOf

\* Every step of the store is a step of the life cycle, or invisible.
LEMMA StepImplements == IInv /\ [Next]_vars => LifecycleStep
<1> SUFFICES ASSUME IInv, [Next]_vars PROVE LifecycleStep
  OBVIOUS
<1> USE DEF LifecycleStep
<1>1. ASSUME NEW now \in 0..clock, Submission(now)
      PROVE  LifecycleStep
  BY <1>1, CreateImplements DEF Submission, Lifecycle!Next
<1>2. ASSUME NEW now \in 0..clock, NEW w \in WorkerId, NEW t \in DOMAIN tasks, Work(w, t, now)
      PROVE  LifecycleStep
  <2>1. now \in Nat
    BY DEF IInv
  <2>2. CASE ClaimTask(t, w, now)
    BY <2>1, <2>2, ClaimImplements
  <2>3. CASE RenewLease(t, w, now)
    BY <2>1, <2>3, RenewImplements DEF Lifecycle!vars, Phases, Outcomes
  <2>4. CASE \E p \in DOMAIN items[t] : ClaimNextItem(t, w, p, now)
    BY <2>1, <2>4, ClaimItemImplements DEF Lifecycle!vars, Phases, Outcomes
  <2>5. ASSUME NEW p \in DOMAIN items[t], NEW r \in ItemFinal, FinalizeItem(t, w, p, r, now)
        PROVE  LifecycleStep
    <3>1. t \in TaskId /\ p \in DOMAIN Outcomes[t] /\ Lifecycle!Record(t, p, r)
      BY <2>1, <2>5, FinalizeImplements
    <3>2. r \in Lifecycle!Decision
      BY DEF ItemFinal, Lifecycle!Decision
    <3> QED  BY <3>1, <3>2 DEF Lifecycle!Next, Outcomes
  <2>6. CASE FailTask(t, w, now)
    BY <2>1, <2>6, FailImplements DEF Lifecycle!Next
  <2> QED  BY <1>2, <2>2, <2>3, <2>4, <2>5, <2>6 DEF Work
<1>3. ASSUME NEW now \in 0..clock, MaintainRetention(now)
      PROVE  LifecycleStep
  <2>1. ToPurge(now) \in SUBSET TaskId /\ ToDelete(now) \in SUBSET TaskId
    BY DEF ToPurge, ToDelete, IInv
  <2>2. Lifecycle!Retire(ToPurge(now), ToDelete(now))
    BY <1>3, RetentionImplements DEF IInv
  <2> QED  BY <2>1, <2>2 DEF Lifecycle!Next
<1>4. CASE Tick
  BY <1>4 DEF Tick, Lifecycle!vars, PhaseOf, OutcomeOf, Undecided
<1>5. CASE UNCHANGED vars
  BY <1>5 DEF vars, Lifecycle!vars, PhaseOf, OutcomeOf, Undecided
<1> QED  BY <1>1, <1>2, <1>3, <1>4, <1>5 DEF Next

\* The store of src/src/task_repository.py keeps the promise TaskLifecycle makes
\* about each task: items decided once, the verdict they justify, retired last.
THEOREM KeepsPromise == Spec => ImplementsLifecycle
BY InitImplements, StepImplements, Invariance, PTL
   DEF Spec, ImplementsLifecycle, Lifecycle!Spec, LifecycleStep
=============================================================================
