-------------------------- MODULE ExtractionProofs --------------------------
(* Proofs about Extraction: for all bodies, replies and limits, both routes   *)
(* answer what was asked and agree with each other.                           *)
EXTENDS Extraction, TLAPS

\* The outcomes and rows that can come about.
Outcomes == {Processed(Ids[p], r) : p \in DOMAIN request.texts, r \in Replies}

GivenUp(p) == Row(Failed(Ids[p], "task_processing_failed"))

Rows == {Row(o) : o \in Outcomes} \cup {GivenUp(p) : p \in DOMAIN request.texts}

\* o is what the provider's reply about source p amounts to.
IsOutcome(p, o) == p \in DOMAIN replies /\ o = Processed(Ids[p], replies[p])

Statuses == {0, 200, 413, 422, 500}

SyncCalls(outcomes) ==
    [state : {"sent", "working", "answered"}, status : Statuses,
     outcomes : Seq(outcomes)]

SubmitStatuses == {0, 202, 401, 413, 422}

ResultsStatuses == {0, 200, 409, 500}

Tasks(rows) ==
    [state : {"sent", "refused", "processing", "terminal"},
     status : SubmitStatuses, rows : Seq(rows), results : ResultsStatuses]

RequestSound ==
    /\ request \in Requests
    /\ DOMAIN replies \subseteq DOMAIN request.texts
    /\ \A p \in DOMAIN replies : replies[p] \in Replies

SyncSound ==
    /\ sync \in SyncCalls(Outcomes)
    /\ Len(sync.outcomes) <= Len(request.texts)
    /\ \A p \in DOMAIN sync.outcomes : IsOutcome(p, sync.outcomes[p])
    /\ sync.state = "sent" => sync.outcomes = << >>
    /\ sync.state # "answered" => sync.status = 0
    /\ sync.state = "answered" =>
          \/ sync.status \in {413, 422} /\ sync.outcomes = << >>
          \/ /\ Len(sync.outcomes) = Len(request.texts)
             /\ sync.status = AnswerStatus(sync.outcomes)

\* A row holds the outcome of its source, or was given up because some outcome
\* could not be stored.
Unstorable == \E q \in DOMAIN replies : ~Storable(Processed(Ids[q], replies[q]))

RowSound(p) ==
    \/ \E o \in Outcomes : IsOutcome(p, o) /\ task.rows[p] = Row(o)
    \/ task.rows[p] = GivenUp(p) /\ Unstorable

TaskSound ==
    /\ task \in Tasks(Rows)
    /\ Len(task.rows) <= Len(request.texts)
    /\ \A p \in DOMAIN task.rows : RowSound(p)
    /\ task.state \in {"sent", "refused"} => task.rows = << >> /\ task.results = 0
    /\ task.state = "processing" =>
          Len(task.rows) < Len(request.texts) /\ task.results \in {0, 409}
    /\ task.state = "terminal" => Len(task.rows) = Len(request.texts)
    /\ task.results \in {200, 500} =>
          task.state = "terminal" /\ task.results = AnswerStatus(TaskOutcomes)

Sound == RequestSound /\ SyncSound /\ TaskSound

----------------------------------------------------------------------------
(* Sequences.                                                                 *)

\* What appending does to a sequence.
LEMMA Appended ==
    ASSUME NEW S, NEW s \in Seq(S), NEW e \in S
    PROVE  /\ Append(s, e) \in Seq(S)
           /\ Len(s) \in Nat
           /\ Len(Append(s, e)) = Len(s) + 1
           /\ DOMAIN s = 1..Len(s)
           /\ DOMAIN Append(s, e) = 1..(Len(s) + 1)
           /\ \A p \in DOMAIN s : Append(s, e)[p] = s[p]
           /\ Append(s, e)[Len(s) + 1] = e
  OBVIOUS

\* The ids of the sources are as many as the texts.
LEMMA SourceCount ==
    ASSUME request \in Requests
    PROVE  /\ Len(request.texts) \in Nat
           /\ DOMAIN request.texts = 1..Len(request.texts)
           /\ DOMAIN Ids = DOMAIN request.texts
  <1> DEFINE Words == [word : STRING, padded : BOOLEAN]
             T == [id : Words, size : Nat]
  <1>1. request \in [texts : Seq(T), names : Seq(Words)]
    BY BoundaryAssumption
  <1>2. request.texts \in Seq(T)
    BY <1>1
  <1> HIDE DEF T
  <1> QED
    BY <1>2 DEF Ids

\* Whatever _restore_outcome reads is what finalize_item or fail_task wrote.
LEMMA RestoredRow ==
    ASSUME NEW id, NEW r
    PROVE  /\ Restored(Row(Processed(id, r))) = Processed(id, r)
           /\ Restored(Row(Failed(id, "task_processing_failed")))
                = Failed(id, "task_processing_failed")
  BY DEF Restored, Row, Processed, Failed, Completed, Blank

----------------------------------------------------------------------------
(* Steps.                                                                     *)

\* Before any reply all is sound.
LEMMA SoundInit ==
    ASSUME ExtractionInit
    PROVE  Sound
  <1>1. RequestSound
    BY DEF ExtractionInit, RequestSound
  <1>2. Len(request.texts) \in Nat
    BY <1>1, SourceCount DEF RequestSound
  <1>3. SyncSound
    BY <1>2 DEF ExtractionInit, SyncSound, SyncCalls, Statuses
  <1>4. TaskSound
    BY <1>2 DEF ExtractionInit, TaskSound, Tasks, SubmitStatuses, ResultsStatuses
  <1> QED
    BY <1>1, <1>3, <1>4 DEF Sound

\* Asking about a source only adds a reply, and keeps what is known of the others.
LEMMA AskingAdds ==
    ASSUME RequestSound, NEW p \in DOMAIN request.texts, NEW r \in Replies,
           Asked(p, r), UNCHANGED request
    PROVE  /\ RequestSound'
           /\ p \in DOMAIN replies' /\ replies'[p] = r
           /\ \A q \in DOMAIN replies : q \in DOMAIN replies' /\ replies'[q] = replies[q]
  <1>1. CASE p \in DOMAIN replies
    BY <1>1 DEF Asked, RequestSound
  <1>2. CASE p \notin DOMAIN replies
    BY <1>2 DEF Asked, RequestSound
  <1> QED
    BY <1>1, <1>2

\* The request never changes, so neither do the outcomes it can have.
LEMMA SameOutcomes ==
    ASSUME UNCHANGED request
    PROVE  /\ Ids' = Ids /\ Requested' = Requested
           /\ Outcomes' = Outcomes /\ Rows' = Rows
           /\ \A id, r : Processed(id, r)' = Processed(id, r)
           /\ \A p : GivenUp(p)' = GivenUp(p)
  BY DEF Ids, Requested, Names, Outcomes, Rows, GivenUp, Processed, Failed, Completed,
         PropertyResult, Row, Range

\* What is known of a reply stays true when others come in.
LEMMA RepliesStay ==
    ASSUME UNCHANGED request,
           \A q \in DOMAIN replies : q \in DOMAIN replies' /\ replies'[q] = replies[q]
    PROVE  /\ \A p, o : IsOutcome(p, o) => IsOutcome(p, o)'
           /\ Unstorable => Unstorable'
  <1>1. \A p, o : IsOutcome(p, o) => IsOutcome(p, o)'
    BY SameOutcomes DEF IsOutcome
  <1>2. ASSUME Unstorable
        PROVE  Unstorable'
    <2>1. PICK q \in DOMAIN replies : ~Storable(Processed(Ids[q], replies[q]))
      BY <1>2 DEF Unstorable
    <2>2. Processed(Ids[q], replies[q])' = Processed(Ids[q], replies[q])
      BY SameOutcomes
    <2>3. (~Storable(Processed(Ids[q], replies[q])))'
      BY <2>1, <2>2 DEF Storable
    <2> QED
      BY <2>3 DEF Unstorable
  <1> QED
    BY <1>1, <1>2

\* More replies leave what one route has done sound for the other.
LEMMA RepliesGrow ==
    ASSUME UNCHANGED request,
           \A q \in DOMAIN replies : q \in DOMAIN replies' /\ replies'[q] = replies[q]
    PROVE  /\ SyncSound /\ UNCHANGED sync => SyncSound'
           /\ TaskSound /\ UNCHANGED task => TaskSound'
  <1>1. ASSUME SyncSound, UNCHANGED sync
        PROVE  SyncSound'
    <2>1. AnswerStatus(sync.outcomes)' = AnswerStatus(sync.outcomes)
      BY <1>1 DEF AnswerStatus, Servable
    <2> QED
      BY <1>1, <2>1, RepliesStay, SameOutcomes DEF SyncSound
  <1>2. ASSUME TaskSound, UNCHANGED task
        PROVE  TaskSound'
    <2>1. AnswerStatus(TaskOutcomes)' = AnswerStatus(TaskOutcomes)
      BY <1>2 DEF AnswerStatus, Servable, TaskOutcomes, Restored, Failed, Completed
    <2>2. \A p : RowSound(p) => RowSound(p)'
      BY <1>2, RepliesStay, SameOutcomes DEF RowSound, Row
    <2> QED
      BY <1>2, <2>1, <2>2, SameOutcomes DEF TaskSound
  <1> QED
    BY <1>1, <1>2

\* Validation lets a batch pass, or answers 413 or 422.
LEMMA RefusalStatus ==
    \A a, b, c : Refusal(a, b, c) \in {0, 413, 422}
  BY DEF Refusal

\* The synchronous call is validated, and refused or begun.
LEMMA ArrivalSound ==
    ASSUME Sound, SyncArrives
    PROVE  Sound'
  <1>1. RequestSound'
    BY DEF Sound, RequestSound, SyncArrives
  <1>2. SyncSound'
    <2> DEFINE refusal == Refusal(SyncSchemaTexts, SyncMaxTexts, SyncMaxCharacters)
    <2>1. /\ sync' = IF refusal = 0 THEN [sync EXCEPT !.state = "working"]
                     ELSE [sync EXCEPT !.state = "answered", !.status = refusal]
          /\ sync.state = "sent" /\ UNCHANGED <<request, replies>>
      BY DEF SyncArrives
    <2>2. refusal \in {0, 413, 422}
      BY RefusalStatus
    <2>3. Outcomes' = Outcomes
      BY <2>1, SameOutcomes
    <2> HIDE DEF refusal
    <2>4. SyncSound /\ sync \in SyncCalls(Outcomes) /\ sync.outcomes = << >> /\ sync.status = 0
      BY <2>1 DEF Sound, SyncSound
    <2>5. Len(request.texts) \in Nat
      BY SourceCount DEF Sound, RequestSound
    <2>6. CASE refusal = 0
      <3>1. /\ sync' \in SyncCalls(Outcomes) /\ sync'.state = "working"
            /\ sync'.status = 0 /\ sync'.outcomes = << >>
        BY <2>1, <2>4, <2>6 DEF SyncCalls
      <3> QED
        BY <2>1, <2>3, <2>5, <3>1 DEF SyncSound
    <2>7. CASE refusal # 0
      <3>1. /\ sync' \in SyncCalls(Outcomes) /\ sync'.state = "answered"
            /\ sync'.status \in {413, 422} /\ sync'.outcomes = << >>
        <4>0. refusal \in {413, 422}
          BY <2>2, <2>7
        <4>1. refusal \in Statuses /\ sync \in SyncCalls(Outcomes)
          BY <2>4, <4>0 DEF Statuses
        <4>2. sync' = [sync EXCEPT !.state = "answered", !.status = refusal]
          BY <2>1, <2>7
        <4>3. /\ sync' \in SyncCalls(Outcomes) /\ sync'.state = "answered"
              /\ sync'.status = refusal /\ sync'.outcomes = sync.outcomes
          BY <4>1, <4>2 DEF SyncCalls
        <4> QED
          BY <2>4, <4>0, <4>3
      <3> QED
        BY <2>1, <2>3, <2>5, <3>1 DEF SyncSound
    <2> QED
      BY <2>6, <2>7
  <1>3. TaskSound'
    BY RepliesGrow DEF Sound, SyncArrives
  <1> QED
    BY <1>1, <1>2, <1>3 DEF Sound

\* It processes one source more.
LEMMA SyncSourceSound ==
    ASSUME Sound, SyncSource
    PROVE  Sound'
  <1>0. PICK p : p = Len(sync.outcomes) + 1
    OBVIOUS
  <1>1. /\ sync.state = "working" /\ p \in DOMAIN request.texts
        /\ UNCHANGED <<request, task>>
    BY <1>0 DEF SyncSource
  <1>2. PICK r \in Replies :
           /\ Asked(p, r)
           /\ sync' = [sync EXCEPT !.outcomes = Append(@, Processed(Ids[p], r))]
    BY <1>0 DEF SyncSource
  <1>a. PICK o : o = Processed(Ids[p], r)
    OBVIOUS
  <1>3. /\ RequestSound' /\ p \in DOMAIN replies' /\ replies'[p] = r
        /\ \A q \in DOMAIN replies : q \in DOMAIN replies' /\ replies'[q] = replies[q]
    BY <1>1, <1>2, AskingAdds DEF Sound
  <1>4. /\ Outcomes' = Outcomes /\ o \in Outcomes
        /\ \A id, x : Processed(id, x)' = Processed(id, x)
        /\ Ids' = Ids
    BY <1>1, <1>a, SameOutcomes DEF Outcomes
  <1>5. Len(request.texts) \in Nat /\ DOMAIN request.texts = 1..Len(request.texts)
    BY SourceCount DEF Sound, RequestSound
  <1>6. sync.outcomes \in Seq(Outcomes) /\ sync \in SyncCalls(Outcomes)
    BY DEF Sound, SyncSound, SyncCalls
  <1>7. /\ sync' \in SyncCalls(Outcomes)
        /\ sync'.state = "working" /\ sync'.status = sync.status
        /\ sync'.outcomes = Append(sync.outcomes, o)
    <2>1. Append(sync.outcomes, o) \in Seq(Outcomes)
      BY <1>4, <1>6, Appended
    <2>2. sync' = [sync EXCEPT !.outcomes = Append(sync.outcomes, o)]
      BY <1>2, <1>a
    <2>3. /\ sync' \in SyncCalls(Outcomes)
          /\ sync'.state = sync.state /\ sync'.status = sync.status
          /\ sync'.outcomes = Append(sync.outcomes, o)
      BY <1>6, <2>1, <2>2 DEF SyncCalls
    <2> QED
      BY <1>1, <2>3
  <1>8. TaskSound'
    BY <1>1, <1>3, RepliesGrow DEF Sound
  <1>9. \A q \in DOMAIN sync.outcomes : IsOutcome(q, sync.outcomes[q])'
    <2> TAKE q \in DOMAIN sync.outcomes
    <2>1. IsOutcome(q, sync.outcomes[q])
      BY DEF Sound, SyncSound
    <2>2. sync'.outcomes[q] = sync.outcomes[q]
      BY <1>4, <1>6, <1>7, Appended
    <2> QED
      BY <1>3, <1>4, <2>1, <2>2 DEF IsOutcome
  <1>10. IsOutcome(p, sync.outcomes[p])'
    <2>1. sync'.outcomes[p] = o
      BY <1>0, <1>4, <1>6, <1>7, Appended
    <2> QED
      BY <1>3, <1>4, <1>a, <2>1 DEF IsOutcome
  <1>11. SyncSound'
    <2>1. /\ Len(sync'.outcomes) = p
          /\ \A q \in DOMAIN sync'.outcomes : q \in DOMAIN sync.outcomes \/ q = p
      BY <1>0, <1>4, <1>6, <1>7, Appended
    <2>2. Len(sync'.outcomes) <= Len(request'.texts)
      BY <1>1, <1>5, <2>1
    <2>3. \A q \in DOMAIN sync'.outcomes : IsOutcome(q, sync.outcomes[q])'
      BY <1>9, <1>10, <2>1
    <2>4. sync.status = 0
      BY <1>1 DEF Sound, SyncSound
    <2> QED
      BY <1>4, <1>7, <2>2, <2>3, <2>4 DEF SyncSound
  <1> QED
    BY <1>3, <1>8, <1>11 DEF Sound

\* It answers with the outcomes in order.
LEMMA SyncAnswerSound ==
    ASSUME Sound, SyncAnswers
    PROVE  Sound'
  <1>1. RequestSound'
    BY DEF Sound, RequestSound, SyncAnswers
  <1>2. SyncSound'
    <2>1. /\ sync' = [sync EXCEPT !.state = "answered", !.status = AnswerStatus(sync.outcomes)]
          /\ Len(sync.outcomes) = Len(request.texts) /\ UNCHANGED <<request, replies>>
      BY DEF SyncAnswers
    <2>2. AnswerStatus(sync.outcomes) \in {200, 500}
      BY DEF AnswerStatus
    <2>3. Outcomes' = Outcomes /\ SyncSound
      BY <2>1, SameOutcomes DEF Sound
    <2>4. \A q, o : IsOutcome(q, o) => IsOutcome(q, o)'
      BY <2>1, SameOutcomes DEF IsOutcome
    <2>5. AnswerStatus(sync.outcomes) \in Statuses /\ sync \in SyncCalls(Outcomes)
      BY <2>2, <2>3 DEF SyncSound, Statuses
    <2>6. /\ sync' \in SyncCalls(Outcomes) /\ sync'.state = "answered"
          /\ sync'.status = AnswerStatus(sync.outcomes) /\ sync'.outcomes = sync.outcomes
      BY <2>1, <2>5 DEF SyncCalls
    <2>7. AnswerStatus(sync.outcomes)' = AnswerStatus(sync.outcomes)
      BY <2>6 DEF AnswerStatus, Servable
    <2> QED
      BY <2>1, <2>3, <2>4, <2>5, <2>6, <2>7 DEF SyncSound
  <1>3. TaskSound'
    BY RepliesGrow DEF Sound, SyncAnswers
  <1> QED
    BY <1>1, <1>2, <1>3 DEF Sound

\* A submission is refused, or accepted with no row written yet.
LEMMA SubmissionSound ==
    ASSUME Sound, TaskArrives
    PROVE  Sound'
  <1>1. task.state = "sent" /\ UNCHANGED <<request, replies, sync>>
    BY DEF TaskArrives
  <1>2. RequestSound'
    BY <1>1 DEF Sound, RequestSound
  <1>3. SyncSound'
    BY <1>1, RepliesGrow DEF Sound
  <1>4. task \in Tasks(Rows) /\ task.rows = << >> /\ task.results = 0
    BY <1>1 DEF Sound, TaskSound
  <1>5. Rows' = Rows
    BY <1>1, SameOutcomes
  <1>6. Len(request.texts) \in Nat
    BY SourceCount DEF Sound, RequestSound
  <1>7. PICK c \in Credentials : SubmissionRefused(c) \/ Submission(c)
    BY DEF TaskArrives
  <1>8. CASE SubmissionRefused(c)
    <2> DEFINE refusal == IF ~Authenticated(c) THEN 401
                          ELSE Refusal(TaskSchemaTexts, TaskMaxTexts, TaskMaxCharacters)
    <2>0. refusal # 0 /\ task' = [task EXCEPT !.state = "refused", !.status = refusal]
      BY <1>8 DEF SubmissionRefused
    <2>1. refusal \in SubmitStatuses
      BY <2>0, RefusalStatus DEF SubmitStatuses
    <2> HIDE DEF refusal
    <2>2. /\ task' \in Tasks(Rows) /\ task'.state = "refused"
          /\ task'.rows = << >> /\ task'.results = 0
      <3>1. task' = [state |-> "refused", status |-> refusal,
                     rows |-> task.rows, results |-> task.results]
        BY <1>4, <2>0 DEF Tasks
      <3>2. task.rows \in Seq(Rows) /\ task.results \in ResultsStatuses
        BY <1>4 DEF Tasks
      <3> QED
        BY <1>4, <2>1, <3>1, <3>2 DEF Tasks
    <2>3. TaskSound'
      BY <1>1, <1>5, <1>6, <2>2 DEF TaskSound
    <2> QED
      BY <1>2, <1>3, <2>3 DEF Sound
  <1>9. CASE Submission(c)
    <2>1. Refusal(TaskSchemaTexts, TaskMaxTexts, TaskMaxCharacters) = 0
      BY <1>9 DEF Submission
    <2>2. WellFormed(TaskSchemaTexts)
      BY <2>1 DEF Refusal
    <2>3. RowsAccept /\ Len(request.texts) > 0
      BY <1>6, <2>2, BoundaryAssumption DEF WellFormed, RowsAccept
    <2>4. task' = [task EXCEPT !.state = "processing", !.status = 202]
      BY <1>9, <2>3 DEF Submission
    <2>5. /\ task' \in Tasks(Rows) /\ task'.state = "processing"
          /\ task'.rows = << >> /\ task'.results = 0
      <3>1. 202 \in SubmitStatuses
        BY DEF SubmitStatuses
      <3> QED
        <4>1. task' = [state |-> "processing", status |-> 202,
                       rows |-> task.rows, results |-> task.results]
          BY <1>4, <2>4 DEF Tasks
        <4>2. task.rows \in Seq(Rows) /\ task.results \in ResultsStatuses
          BY <1>4 DEF Tasks
        <4> QED
          BY <1>4, <3>1, <4>1, <4>2 DEF Tasks
    <2>6. TaskSound'
      BY <1>1, <1>5, <1>6, <2>3, <2>5 DEF TaskSound
    <2> QED
      BY <1>2, <1>3, <2>6 DEF Sound
  <1> QED
    BY <1>7, <1>8, <1>9

\* An answer changes nothing but what the client was told.
LEMMA ResultsSound ==
    ASSUME Sound, ResultsAnswer
    PROVE  Sound'
  <1>1. /\ task.state \in {"processing", "terminal"}
        /\ task' = [task EXCEPT !.results = IF task.state = "processing" THEN 409
                                            ELSE AnswerStatus(TaskOutcomes)]
        /\ UNCHANGED <<request, replies, sync>>
    BY DEF ResultsAnswer
  <1>2. RequestSound'
    BY <1>1 DEF Sound, RequestSound
  <1>3. SyncSound'
    BY <1>1, RepliesGrow DEF Sound
  <1>4. PICK answer \in {200, 409, 500} :
           /\ task' = [task EXCEPT !.results = answer]
           /\ answer = IF task.state = "processing" THEN 409 ELSE AnswerStatus(TaskOutcomes)
    BY <1>1 DEF AnswerStatus
  <1>5. TaskSound /\ task \in Tasks(Rows)
    BY DEF Sound, TaskSound
  <1>6. /\ task' \in Tasks(Rows) /\ task'.state = task.state
        /\ task'.rows = task.rows /\ task'.results = answer
    BY <1>4, <1>5 DEF Tasks, ResultsStatuses
  <1>7. Rows' = Rows
    BY <1>1, SameOutcomes
  <1>8. AnswerStatus(TaskOutcomes)' = AnswerStatus(TaskOutcomes)
    BY <1>6 DEF AnswerStatus, Servable, TaskOutcomes, Restored, Failed, Completed
  <1>9. \A p : RowSound(p) => RowSound(p)'
    BY <1>1, <1>6, RepliesStay, SameOutcomes DEF RowSound, Row
  <1>10. TaskSound'
    BY <1>1, <1>4, <1>5, <1>6, <1>7, <1>8, <1>9 DEF TaskSound
  <1> QED
    BY <1>2, <1>3, <1>10 DEF Sound

\* The worker records one more row, or gives up the item at hand and all that follow.
LEMMA TaskSourceSound ==
    ASSUME Sound, TaskSource
    PROVE  Sound'
  <1>1. PICK p : p = Len(task.rows) + 1
    OBVIOUS
  <1>2. PICK r \in Replies : Asked(p, r) /\ WorkOnItem(p, Processed(Ids[p], r))
    BY <1>1 DEF TaskSource
  <1>3. PICK o : o = Processed(Ids[p], r)
    OBVIOUS
  <1>4. task.state = "processing" /\ UNCHANGED <<request, sync>>
    BY DEF TaskSource
  <1>5. /\ task \in Tasks(Rows) /\ task.rows \in Seq(Rows)
        /\ Len(task.rows) < Len(request.texts) /\ task.results \in {0, 409}
        /\ \A q \in DOMAIN task.rows : RowSound(q)
    BY <1>4 DEF Sound, TaskSound, Tasks
  <1>6. Len(request.texts) \in Nat /\ DOMAIN request.texts = 1..Len(request.texts)
    BY SourceCount DEF Sound, RequestSound
  <1>7. Len(task.rows) \in Nat /\ DOMAIN task.rows = 1..Len(task.rows)
    BY <1>5
  <1>8. p \in DOMAIN request.texts
    BY <1>1, <1>5, <1>6, <1>7
  <1>9. /\ RequestSound' /\ p \in DOMAIN replies' /\ replies'[p] = r
        /\ \A q \in DOMAIN replies : q \in DOMAIN replies' /\ replies'[q] = replies[q]
    BY <1>2, <1>4, <1>8, AskingAdds DEF Sound
  <1>10. SyncSound'
    BY <1>4, <1>9, RepliesGrow DEF Sound
  <1>11. o \in Outcomes /\ Row(o) \in Rows /\ Rows' = Rows /\ Outcomes' = Outcomes
    BY <1>3, <1>4, <1>8, SameOutcomes DEF Outcomes, Rows
  <1>12. IsOutcome(p, o)'
    BY <1>3, <1>4, <1>9, SameOutcomes DEF IsOutcome
  <1> DEFINE rows == IF Storable(o) THEN Append(task.rows, Row(o)) ELSE Abandoned(task.rows)
             state == IF Len(rows) < Len(request.texts) THEN task.state ELSE "terminal"
  <1>13. task' = [task EXCEPT !.rows = rows, !.state = state]
    BY <1>2, <1>3 DEF WorkOnItem
  <1>14. ASSUME rows \in Seq(Rows), Len(rows) <= Len(request.texts),
                \A q \in DOMAIN rows : task'.rows = rows => RowSound(q)'
         PROVE  TaskSound'
    <2> HIDE DEF rows
    <2>1. task' = [state |-> state, status |-> task.status, rows |-> rows, results |-> task.results]
      BY <1>5, <1>13 DEF Tasks
    <2> HIDE DEF state
    <2>2. task'.state = state /\ task'.rows = rows /\ task'.results = task.results
      BY <2>1
    <2>3. state \in {"processing", "terminal"}
      BY <1>4 DEF state
    <2>4. task.status \in SubmitStatuses /\ task.results \in ResultsStatuses
      BY <1>5 DEF Tasks
    <2>5. task' \in Tasks(Rows)
      BY <1>14, <2>1, <2>3, <2>4 DEF Tasks
    <2>6. Len(rows) \in Nat
      BY <1>14
    <2>7. /\ state = "processing" => Len(rows) < Len(request.texts)
          /\ state = "terminal" => Len(rows) = Len(request.texts)
      BY <1>4, <1>6, <1>14, <2>6 DEF state
    <2> QED
      BY <1>4, <1>5, <1>11, <1>14, <2>2, <2>3, <2>5, <2>7 DEF TaskSound
  <1>15. \A q \in DOMAIN task.rows : task'.rows[q] = task.rows[q] => RowSound(q)'
    BY <1>4, <1>5, <1>9, RepliesStay, SameOutcomes DEF RowSound
  <1>16. CASE Storable(o)
    <2>1. rows = Append(task.rows, Row(o))
      BY <1>16
    <2> HIDE DEF rows
    <2>2. /\ rows \in Seq(Rows) /\ Len(rows) = p /\ DOMAIN rows = 1..p /\ rows[p] = Row(o)
          /\ \A q \in DOMAIN task.rows : rows[q] = task.rows[q]
      BY <1>1, <1>5, <1>11, <2>1, Appended
    <2>3. ASSUME NEW q \in DOMAIN rows, task'.rows = rows
          PROVE  RowSound(q)'
      <3>1. CASE q = p
        BY <1>11, <1>12, <2>2, <2>3, <3>1 DEF RowSound, Row
      <3>2. CASE q # p
        BY <1>1, <1>7, <1>15, <2>2, <2>3, <3>2
      <3> QED
        BY <3>1, <3>2
    <2>4. TaskSound'
      BY <1>6, <1>8, <1>14, <2>2, <2>3
    <2> QED
      BY <1>9, <1>10, <2>4 DEF Sound
  <1>17. CASE ~Storable(o)
    <2>1. rows = Abandoned(task.rows)
      BY <1>17
    <2> HIDE DEF rows
    <2>2. /\ DOMAIN rows = DOMAIN request.texts
          /\ \A q \in DOMAIN rows :
                rows[q] = IF q \in DOMAIN task.rows THEN task.rows[q] ELSE GivenUp(q)
      BY <2>1 DEF Abandoned, GivenUp
    <2>3. \A q \in DOMAIN rows : rows[q] \in Rows
      BY <1>5, <1>7, <2>2 DEF Rows
    <2>4. rows \in Seq(Rows) /\ Len(rows) = Len(request.texts)
      <3>1. rows = [q \in 1..Len(request.texts) |-> rows[q]]
        BY <1>6, <2>1, <2>2 DEF Abandoned
      <3> QED
        BY <1>6, <2>2, <2>3, <3>1
    <2>5. Unstorable'
      <3>1. Processed(Ids[p], replies[p])' = o
        BY <1>3, <1>4, <1>9, SameOutcomes
      <3>2. (~Storable(Processed(Ids[p], replies[p])))'
        BY <1>17, <3>1 DEF Storable
      <3> QED
        BY <1>9, <3>2 DEF Unstorable
    <2>6. ASSUME NEW q \in DOMAIN rows, task'.rows = rows
          PROVE  RowSound(q)'
      <3>1. CASE q \in DOMAIN task.rows
        BY <1>15, <2>2, <2>6, <3>1
      <3>2. CASE q \notin DOMAIN task.rows
        BY <1>4, <2>2, <2>5, <2>6, <3>2, SameOutcomes DEF RowSound
      <3> QED
        BY <3>1, <3>2
    <2>7. TaskSound'
      BY <1>6, <1>14, <2>4, <2>6
    <2> QED
      BY <1>9, <1>10, <2>7 DEF Sound
  <1> QED
    BY <1>16, <1>17

\* Every step keeps the invariant.
LEMMA SoundStep ==
    ASSUME Sound, [ExtractionNext]_extractionVars
    PROVE  Sound'
  <1>1. CASE SyncArrives
    BY <1>1, ArrivalSound
  <1>2. CASE SyncSource
    BY <1>2, SyncSourceSound
  <1>3. CASE SyncAnswers
    BY <1>3, SyncAnswerSound
  <1>4. CASE TaskArrives
    BY <1>4, SubmissionSound
  <1>5. CASE TaskSource
    BY <1>5, TaskSourceSound
  <1>6. CASE ResultsAnswer
    BY <1>6, ResultsSound
  <1>7. CASE UNCHANGED extractionVars
    <2>1. RequestSound'
      BY <1>7 DEF Sound, RequestSound, extractionVars
    <2> QED
      BY <1>7, <2>1, RepliesGrow DEF Sound, extractionVars
  <1> QED
    BY <1>1, <1>2, <1>3, <1>4, <1>5, <1>6, <1>7 DEF ExtractionNext

----------------------------------------------------------------------------
(* What the invariant says of the answers.                                    *)

\* Every source that has a row has its outcome there, if all outcomes can be stored.
LEMMA AllStored ==
    ASSUME Sound, ~Unstorable, NEW p \in DOMAIN task.rows
    PROVE  /\ p \in DOMAIN replies
           /\ Restored(task.rows[p]) = Processed(Ids[p], replies[p])
  <1>1. PICK o \in Outcomes : IsOutcome(p, o) /\ task.rows[p] = Row(o)
    BY DEF Sound, TaskSound, RowSound
  <1> QED
    BY <1>1, RestoredRow DEF IsOutcome

\* A reply without odd values has an outcome that can be stored.
LEMMA PlainIsStorable ==
    ASSUME NEW id, NEW r, Plain(r)
    PROVE  Storable(Processed(id, r))
  BY DEF Plain, Storable, Processed, Failed, Completed, PropertyResult

\* The invariant types the variables.
LEMMA TypeFromSound ==
    ASSUME Sound
    PROVE  ExtractionTypeOK
  <1>1. Len(request.texts) \in Nat /\ DOMAIN request.texts = 1..Len(request.texts)
    BY SourceCount DEF Sound, RequestSound
  <1>2. RequestSound /\ DOMAIN sync.outcomes \subseteq DOMAIN replies
    BY DEF Sound, SyncSound, IsOutcome
  <1>3. /\ sync.state \in {"sent", "working", "answered"}
        /\ sync.status \in {0, 200, 413, 422, 500}
    BY DEF Sound, SyncSound, SyncCalls, Statuses
  <1>4. task \in Tasks(Rows) /\ Len(task.rows) <= Len(request.texts)
    BY DEF Sound, TaskSound
  <1>5. /\ task.state \in {"sent", "refused", "processing", "terminal"}
        /\ task.status \in {0, 202, 401, 413, 422} /\ task.results \in {0, 200, 409, 500}
        /\ task.rows \in Seq(Rows)
    BY <1>4 DEF Tasks, SubmitStatuses, ResultsStatuses
  <1>6. DOMAIN task.rows \subseteq DOMAIN request.texts
    BY <1>1, <1>4, <1>5
  <1> QED
    BY <1>2, <1>3, <1>5, <1>6 DEF ExtractionTypeOK, RequestSound

\* Outcomes in the order of the replies match the request.
LEMMA AnswersFromSound ==
    ASSUME Sound
    PROVE  AnswersMatchRequest
  <1>1. /\ Len(request.texts) \in Nat /\ DOMAIN request.texts = 1..Len(request.texts)
        /\ DOMAIN Ids = DOMAIN request.texts
    BY SourceCount DEF Sound, RequestSound
  <1>2. \A id, r : /\ Processed(id, r).source_id = id
                   /\ Processed(id, r).status = "completed" =>
                         DOMAIN Processed(id, r).properties = Requested
    BY DEF Processed, Failed, Completed
  <1>3. ASSUME sync.status = 200
        PROVE  Matches(sync.outcomes)
    <2>1. sync.outcomes \in Seq(Outcomes) /\ Len(sync.outcomes) = Len(request.texts)
      BY <1>3 DEF Sound, SyncSound, SyncCalls
    <2>2. \A p \in DOMAIN sync.outcomes : sync.outcomes[p] = Processed(Ids[p], replies[p])
      BY DEF Sound, SyncSound, IsOutcome
    <2>3. DOMAIN sync.outcomes = DOMAIN Ids
      BY <1>1, <2>1
    <2>4. \A p \in DOMAIN sync.outcomes : sync.outcomes[p].source_id = Ids[p]
      BY <1>2, <2>2
    <2>5. [p \in DOMAIN sync.outcomes |-> sync.outcomes[p].source_id] = Ids
      BY <2>3, <2>4 DEF Ids
    <2> QED
      BY <1>2, <2>2, <2>5 DEF Matches
  <1>4. ASSUME task.results = 200
        PROVE  Matches(TaskOutcomes)
    <2>1. task.rows \in Seq(Rows) /\ Len(task.rows) = Len(request.texts)
      BY <1>4 DEF Sound, TaskSound, Tasks
    <2>2. DOMAIN TaskOutcomes = DOMAIN Ids /\ DOMAIN TaskOutcomes = DOMAIN task.rows
      BY <1>1, <2>1 DEF TaskOutcomes
    <2>3. ASSUME NEW p \in DOMAIN TaskOutcomes
          PROVE  /\ TaskOutcomes[p].source_id = Ids[p]
                 /\ TaskOutcomes[p].status = "completed" =>
                       DOMAIN TaskOutcomes[p].properties = Requested
      <3>1. p \in DOMAIN task.rows /\ TaskOutcomes[p] = Restored(task.rows[p])
        BY <2>2 DEF TaskOutcomes
      <3>2. RowSound(p)
        BY <3>1 DEF Sound, TaskSound
      <3>3. \/ \E r : TaskOutcomes[p] = Processed(Ids[p], r)
            \/ TaskOutcomes[p] = Failed(Ids[p], "task_processing_failed")
        BY <3>1, <3>2, RestoredRow DEF RowSound, IsOutcome, GivenUp
      <3> QED
        BY <1>2, <3>3 DEF Failed
    <2>4. [p \in DOMAIN TaskOutcomes |-> TaskOutcomes[p].source_id] = Ids
      BY <2>2, <2>3 DEF Ids
    <2> QED
      BY <2>3, <2>4 DEF Matches
  <1> QED
    BY <1>3, <1>4 DEF AnswersMatchRequest

\* Rows restored as they were stored are the outcomes of the call.
LEMMA AgreementFromSound ==
    ASSUME Sound
    PROVE  RoutesAgree
  <1> SUFFICES ASSUME \A p \in DOMAIN replies : Plain(replies[p]),
                      sync.status = 200, task.results = 200
               PROVE  sync.outcomes = TaskOutcomes
    BY DEF RoutesAgree
  <1>1. ~Unstorable
    BY PlainIsStorable DEF Unstorable
  <1>2. /\ sync.outcomes \in Seq(Outcomes) /\ Len(sync.outcomes) = Len(request.texts)
        /\ task.rows \in Seq(Rows) /\ Len(task.rows) = Len(request.texts)
    BY DEF Sound, SyncSound, SyncCalls, TaskSound, Tasks
  <1>3. DOMAIN sync.outcomes = DOMAIN task.rows
        /\ sync.outcomes = [p \in DOMAIN sync.outcomes |-> sync.outcomes[p]]
    BY <1>2
  <1>4. \A p \in DOMAIN task.rows : sync.outcomes[p] = Restored(task.rows[p])
    BY <1>1, <1>3, AllStored DEF Sound, SyncSound, IsOutcome
  <1> QED
    BY <1>3, <1>4 DEF TaskOutcomes

\* Where nothing is given up, a good source completes.
LEMMA IsolationFromSound ==
    ASSUME Sound
    PROVE  RaisedFailureIsIsolated
  <1> SUFFICES ASSUME \A p \in DOMAIN replies : Presentable(replies[p]),
                      NEW p \in DOMAIN replies, Good(replies[p])
               PROVE  CompletesOnItsOwn(p)
    BY DEF RaisedFailureIsIsolated
  <1>1. ~Unstorable
    BY PlainIsStorable DEF Unstorable, Presentable
  <1>2. \A id, r : Presentable(r) => Servable(Processed(id, r))
    BY DEF Presentable, Servable, Processed, Failed, Completed, PropertyResult
  <1>3. Processed(Ids[p], replies[p]).status = "completed"
    BY DEF Good, Processed, Completed
  <1>4. ASSUME sync.state = "answered", p \in DOMAIN sync.outcomes
        PROVE  sync.status = 200 /\ sync.outcomes[p].status = "completed"
    <2>1. \A q \in DOMAIN sync.outcomes :
             q \in DOMAIN replies /\ sync.outcomes[q] = Processed(Ids[q], replies[q])
      BY DEF Sound, SyncSound, IsOutcome
    <2>2. AnswerStatus(sync.outcomes) = 200
      BY <1>2, <2>1 DEF AnswerStatus
    <2> QED
      BY <1>3, <1>4, <2>1, <2>2 DEF Sound, SyncSound
  <1>5. ASSUME task.state = "terminal"
        PROVE  Restored(task.rows[p]).status = "completed"
    <2>1. Len(request.texts) \in Nat /\ DOMAIN request.texts = 1..Len(request.texts)
      BY SourceCount DEF Sound, RequestSound
    <2>2. task.rows \in Seq(Rows) /\ Len(task.rows) = Len(request.texts)
      BY <1>5 DEF Sound, TaskSound, Tasks
    <2>3. p \in DOMAIN task.rows
      BY <2>1, <2>2 DEF Sound, RequestSound
    <2> QED
      BY <1>1, <1>3, <2>3, AllStored
  <1>6. task.results # 500
    <2>1. \A q \in DOMAIN TaskOutcomes : Servable(TaskOutcomes[q])
      BY <1>1, <1>2, AllStored DEF TaskOutcomes
    <2>2. AnswerStatus(TaskOutcomes) = 200
      BY <2>1 DEF AnswerStatus
    <2> QED
      BY <2>2 DEF Sound, TaskSound
  <1> QED
    BY <1>4, <1>5, <1>6 DEF CompletesOnItsOwn

----------------------------------------------------------------------------

\* The inductive invariant: a call's outcomes are what the replies amount to, in
\* order, and a row that is not was given up after one that could not be stored.
THEOREM ExtractionInvariance == ExtractionSpec => []Sound
  <1>1. ExtractionInit => Sound
    BY SoundInit
  <1>2. Sound /\ [ExtractionNext]_extractionVars => Sound'
    BY SoundStep
  <1> QED
    BY <1>1, <1>2, PTL DEF ExtractionSpec

\* No route processes more than was sent, and every status is one it may answer.
THEOREM ExtractionTypeCorrect == ExtractionSpec => []ExtractionTypeOK
  BY ExtractionInvariance, TypeFromSound, PTL

\* Whatever provider and estimator do: a served batch has the sources sent, in
\* their order, and a completed one exactly the properties asked for.
THEOREM RequestAnswered == ExtractionSpec => []AnswersMatchRequest
  BY ExtractionInvariance, AnswersFromSound, PTL

\* The synchronous and the asynchronous route serve the same outcomes.
THEOREM SameOnBothRoutes == ExtractionSpec => []RoutesAgree
  BY ExtractionInvariance, AgreementFromSound, PTL

\* A source that raises takes no other with it, on either route.
THEOREM FailuresIsolated == ExtractionSpec => []RaisedFailureIsIsolated
  BY ExtractionInvariance, IsolationFromSound, PTL
=============================================================================
