----------------------------- MODULE Extraction -----------------------------
(* One extraction request from its body to its answer, on the two routes that *)
(* serve it: POST /extractions works on it in the handler, POST               *)
(* /extraction-tasks stores it for the worker and GET .../results answers     *)
(* later.  src/src/service.py, src/src/extraction.py, the validators of       *)
(* src/src/schemas.py and what submit, _process_claimed_task and get_results  *)
(* of src/src/task_service.py do with outcomes.                               *)
(*                                                                            *)
(* The same body is sent to both, and the provider is deterministic: what it  *)
(* replies about a source it replies whichever route asks, in the handler's   *)
(* thread or an executor's, of one process or of two. TaskService has the     *)
(* leases, crashes, takeovers and the retention of tasks; here a task has one *)
(* worker and is kept.                                                        *)
(* Definitions marked "Fault" are not the code.                               *)
EXTENDS Integers, Sequences, FiniteSets, Functions

CONSTANTS Requests,          \* the bodies that may arrive
          Replies,           \* what provider and estimator may do about a source
          SyncSchemaTexts,   \* max_length of ExtractionRequest.texts
          SyncMaxTexts, SyncMaxCharacters,   \* EXTRACTION_MAX_...
          TaskSchemaTexts,   \* max_length of ExtractionTaskRequest.texts
          TaskMaxTexts, TaskMaxCharacters    \* ASYNC_EXTRACTION_MAX_...

(* A name or identifier is what strip() leaves of it and whether there was    *)
(* more; a text is the number of characters strip() leaves.  Nothing left is  *)
(* Blank, or 0.                                                               *)
Blank == ""

\* infer raises, or returns values for some names, requested or not: a "plain"
\* value survives JSON, a "rich" one (a Decimal, a date) json.dumps refuses though
\* the response encoder does not.  estimate raises for a name, or returns an
\* uncertainty in [0, 1] ("unit") or not ("beyond").
ASSUME BoundaryAssumption ==
    /\ LET Words == [word : STRING, padded : BOOLEAN]
       IN  \A q \in Requests : q \in [texts : Seq([id : Words, size : Nat]), names : Seq(Words)]
    /\ \A r \in Replies :
          /\ r.raises \in BOOLEAN
          /\ \A x \in DOMAIN r.values : r.values[x] \in {"plain", "rich"}
          /\ \A x \in DOMAIN r.estimates : r.estimates[x] \in {"unit", "beyond", "raises"}
    /\ {SyncSchemaTexts, SyncMaxTexts, SyncMaxCharacters,
        TaskSchemaTexts, TaskMaxTexts, TaskMaxCharacters} \subseteq Nat \ {0}

VARIABLES request,   \* the body
          replies,   \* source position -> reply, once the provider was asked
          sync,      \* the call of POST /extractions
          task       \* the task, from its submission to the answer with its results

extractionVars == <<request, replies, sync, task>>

----------------------------------------------------------------------------
(* Validation.                                                                *)

Ids   == [p \in DOMAIN request.texts |-> request.texts[p].id.word]
Names == [i \in DOMAIN request.names |-> request.names[i].word]

Requested == Range(Names)

\* The body passes the schema: its identifiers and names are compared after strip.
WellFormed(most) ==
    /\ Len(request.texts) \in 1..most
    /\ \A p \in DOMAIN request.texts : Ids[p] # Blank /\ request.texts[p].size > 0
    /\ IsInjective(Ids)
    /\ request.names # << >>
    /\ Blank \notin Requested
    /\ IsInjective(Names)

Characters == SumFunction([p \in DOMAIN request.texts |-> request.texts[p].size])

\* The status that refuses the request, or 0.
Refusal(schemaTexts, maxTexts, maxCharacters) ==
    IF ~WellFormed(schemaTexts) \/ Len(request.texts) > maxTexts THEN 422
    ELSE IF Characters > maxCharacters THEN 413
    ELSE 0

----------------------------------------------------------------------------
(* Processing one source.                                                     *)

Failed(id, code) == [source_id |-> id, status |-> "failed", code |-> code,
                     properties |-> [x \in {} |-> Blank]]

Completed(id, properties) == [source_id |-> id, status |-> "completed", code |-> Blank,
                              properties |-> properties]

PropertyResult(r, x) ==
    [value |-> IF x \in DOMAIN r.values THEN r.values[x] ELSE "none",
     inference_status |-> IF x \in DOMAIN r.values THEN "inferred" ELSE "not_found",
     uncertainty |-> r.estimates[x]]

\* (Fault: the provider's names, not the requested ones.)
Processed_AsInferred(id, r) ==
    IF r.raises \/ \E x \in DOMAIN r.values : r.estimates[x] = "raises"
    THEN Failed(id, "processing_failed")
    ELSE Completed(id, [x \in DOMAIN r.values |-> PropertyResult(r, x)])

\* process_source_with_model: whatever is raised becomes the outcome.
Processed(id, r) ==
    IF r.raises \/ \E x \in Requested : r.estimates[x] = "raises"
    THEN Failed(id, "processing_failed")
    ELSE Completed(id, [x \in Requested |-> PropertyResult(r, x)])

\* The response models take an uncertainty between 0 and 1.
Servable(outcome) ==
    \A x \in DOMAIN outcome.properties : outcome.properties[x].uncertainty # "beyond"

\* canonical_json takes plain values.
Storable(outcome) ==
    \A x \in DOMAIN outcome.properties : outcome.properties[x].value # "rich"

\* Source p is asked about, or was by the other route.
Asked(p, r) ==
    IF p \in DOMAIN replies THEN r = replies[p] /\ UNCHANGED replies
    ELSE /\ r \in Replies
         /\ replies' = [q \in DOMAIN replies \cup {p} |-> IF q = p THEN r ELSE replies[q]]

----------------------------------------------------------------------------
(* POST /extractions                                                          *)

ExtractionInit ==
    /\ request \in Requests
    /\ replies = [p \in {} |-> Blank]
    /\ sync = [state |-> "sent", status |-> 0, outcomes |-> << >>]
    /\ task = [state |-> "sent", status |-> 0, rows |-> << >>, results |-> 0]

SyncArrives ==
    /\ sync.state = "sent"
    /\ LET refusal == Refusal(SyncSchemaTexts, SyncMaxTexts, SyncMaxCharacters)
       IN  sync' = IF refusal = 0 THEN [sync EXCEPT !.state = "working"]
                   ELSE [sync EXCEPT !.state = "answered", !.status = refusal]
    /\ UNCHANGED <<request, replies, task>>

\* (Fault: a failed source ends the batch.)
SyncSource_Escapes ==
    /\ sync.state = "working"
    /\ LET p == Len(sync.outcomes) + 1
       IN  /\ p \in DOMAIN request.texts
           /\ \E r \in Replies :
                 /\ Asked(p, r)
                 /\ sync' = IF Processed(Ids[p], r).status = "failed"
                            THEN [sync EXCEPT !.state = "answered", !.status = 500]
                            ELSE [sync EXCEPT !.outcomes = Append(@, Processed(Ids[p], r))]
    /\ UNCHANGED <<request, task>>

SyncSource ==
    /\ sync.state = "working"
    /\ LET p == Len(sync.outcomes) + 1
       IN  /\ p \in DOMAIN request.texts
           /\ \E r \in Replies :
                 /\ Asked(p, r)
                 /\ sync' = [sync EXCEPT !.outcomes = Append(@, Processed(Ids[p], r))]
    /\ UNCHANGED <<request, task>>

AnswerStatus(outcomes) ==
    IF \A i \in DOMAIN outcomes : Servable(outcomes[i]) THEN 200 ELSE 500

SyncAnswers ==
    /\ sync.state = "working"
    /\ Len(sync.outcomes) = Len(request.texts)
    /\ sync' = [sync EXCEPT !.state = "answered", !.status = AnswerStatus(sync.outcomes)]
    /\ UNCHANGED <<request, replies, task>>

----------------------------------------------------------------------------
(* POST /extraction-tasks, the worker, and GET /extraction-tasks/{id}/results *)

\* What a client shows, and what the injected authenticator makes of it.
Credentials == [scheme : {"none", "basic", "bearer"}, verdict : {"owner", "nobody", "raises"}]

Authenticated(c) == c.scheme = "bearer" /\ c.verdict = "owner"

\* The constraints of the item rows: UNIQUE (task_id, source_id) and NOT NULL.
RowsAccept == IsInjective(Ids)

SubmissionRefused(c) ==
    LET refusal == IF ~Authenticated(c) THEN 401
                   ELSE Refusal(TaskSchemaTexts, TaskMaxTexts, TaskMaxCharacters)
    IN  /\ refusal # 0
        /\ task' = [task EXCEPT !.state = "refused", !.status = refusal]

Submission(c) ==
    /\ Authenticated(c)
    /\ Refusal(TaskSchemaTexts, TaskMaxTexts, TaskMaxCharacters) = 0
    /\ task' = IF RowsAccept THEN [task EXCEPT !.state = "processing", !.status = 202]
                             ELSE [task EXCEPT !.state = "refused", !.status = 500]

TaskArrives ==
    /\ task.state = "sent"
    /\ \E c \in Credentials : SubmissionRefused(c) \/ Submission(c)
    /\ UNCHANGED <<request, replies, sync>>

\* (Fault: values that were not inferred are left out.)
Row_Inferred(outcome) ==
    LET found == {x \in DOMAIN outcome.properties : outcome.properties[x].value # "none"}
    IN  [source_id |-> outcome.source_id, error |-> outcome.code,
         outcome |-> [x \in found |-> outcome.properties[x]]]

\* The columns finalize_item writes and _restore_outcome reads.
Row(outcome) == [source_id |-> outcome.source_id, error |-> outcome.code,
                 outcome |-> outcome.properties]

Restored(row) == IF row.error # Blank THEN Failed(row.source_id, row.error)
                                      ELSE Completed(row.source_id, row.outcome)

\* (Fault: fail_task begins with the first item again.)
Abandoned_All(rows) ==
    rows \o [i \in DOMAIN request.texts |-> Row(Failed(Ids[i], "task_processing_failed"))]

\* fail_task: the item at hand and all that follow fail.
Abandoned(rows) ==
    [p \in DOMAIN request.texts |->
        IF p \in DOMAIN rows THEN rows[p] ELSE Row(Failed(Ids[p], "task_processing_failed"))]

WorkOnItem(p, outcome) ==
    LET rows == IF Storable(outcome) THEN Append(task.rows, Row(outcome)) ELSE Abandoned(task.rows)
    IN  task' = [task EXCEPT !.rows = rows,
                             !.state = IF Len(rows) < Len(request.texts) THEN @ ELSE "terminal"]

TaskSource ==
    /\ task.state = "processing"
    /\ LET p == Len(task.rows) + 1
       IN  \E r \in Replies : Asked(p, r) /\ WorkOnItem(p, Processed(Ids[p], r))
    /\ UNCHANGED <<request, sync>>

TaskOutcomes == [p \in DOMAIN task.rows |-> Restored(task.rows[p])]

ResultsAnswer ==
    /\ task.state \in {"processing", "terminal"}
    /\ task' = [task EXCEPT !.results = IF task.state = "processing" THEN 409
                                        ELSE AnswerStatus(TaskOutcomes)]
    /\ UNCHANGED <<request, replies, sync>>

ExtractionNext ==
    \/ SyncArrives \/ SyncSource \/ SyncAnswers
    \/ TaskArrives \/ TaskSource \/ ResultsAnswer

ExtractionSpec == ExtractionInit /\ [][ExtractionNext]_extractionVars

----------------------------------------------------------------------------
(* Properties.                                                                *)

\* No route processes more sources than were sent, none the provider was not asked
\* about, and every answer has one of the statuses the route documents or is 500.
ExtractionTypeOK ==
    /\ request \in Requests
    /\ DOMAIN replies \subseteq DOMAIN request.texts
    /\ DOMAIN sync.outcomes \subseteq DOMAIN replies
    /\ DOMAIN task.rows \subseteq DOMAIN request.texts
    /\ sync.state \in {"sent", "working", "answered"}
    /\ sync.status \in {0, 200, 413, 422, 500}
    /\ task.state \in {"sent", "refused", "processing", "terminal"}
    /\ task.status \in {0, 202, 401, 413, 422, 500}
    /\ task.results \in {0, 200, 409, 500}

\* Served outcomes are those of the sources sent, in their order, and a completed
\* one has exactly the requested properties, whatever names the provider returned
\* and whether the outcome was stored in between.
Matches(outcomes) ==
    /\ [p \in DOMAIN outcomes |-> outcomes[p].source_id] = Ids
    /\ \A p \in DOMAIN outcomes :
          outcomes[p].status = "completed" => DOMAIN outcomes[p].properties = Requested

AnswersMatchRequest ==
    /\ sync.status = 200 => Matches(sync.outcomes)
    /\ task.results = 200 => Matches(TaskOutcomes)

\* Both routes serve the same outcomes for the same request, as long as the
\* provider's values survive JSON.
Plain(r) == \A x \in Requested \cap DOMAIN r.values : r.values[x] = "plain"

RoutesAgree ==
    /\ \A p \in DOMAIN replies : Plain(replies[p])
    /\ sync.status = 200 /\ task.results = 200
    => sync.outcomes = TaskOutcomes

Good(r) == ~r.raises /\ Plain(r) /\ \A x \in Requested : r.estimates[x] = "unit"

Presentable(r) == Plain(r) /\ \A x \in Requested : r.estimates[x] # "beyond"

CompletesOnItsOwn(p) ==
    /\ sync.state = "answered" /\ p \in DOMAIN sync.outcomes =>
          sync.status = 200 /\ sync.outcomes[p].status = "completed"
    /\ task.state = "terminal" => Restored(task.rows[p]).status = "completed"
    /\ task.results # 500

\* A source that provider and estimator serve completes on both routes, whichever
\* others raised before or after it, if what they returned can be presented.
RaisedFailureIsIsolated ==
    (\A p \in DOMAIN replies : Presentable(replies[p])) =>
        \A p \in DOMAIN replies : Good(replies[p]) => CompletesOnItsOwn(p)

\* README.md: "Runtime failure of one accepted source produces a failed item
\* outcome while preserving the remaining results and original order."
\* The code preserves them only from what process_source_with_model raises, not
\* from a value that cannot be stored or an uncertainty that cannot be served.
FailureIsIsolated == \A p \in DOMAIN replies : Good(replies[p]) => CompletesOnItsOwn(p)
=============================================================================
