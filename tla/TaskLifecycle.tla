---------------------------- MODULE TaskLifecycle ----------------------------
(* What the asynchronous extraction promises about a task, with nothing about *)
(* rows, counters, leases, workers or clocks.  A task is accepted with some   *)
(* number of items, begins, has each item decided once, takes the verdict     *)
(* its items justify, and is finally retired.  The life cycle is the one      *)
(* ExtractionTaskStatus names (src/src/models.py), extended with the two      *)
(* states retention adds; TaskRepository implements it.                       *)
EXTENDS Naturals

CONSTANTS TaskId,    \* the identifiers submissions may receive
          MaxItems   \* the most sources one submission may carry

VARIABLES phase,     \* phase[t]: where task t is in its life
          outcome    \* outcome[t][p]: what is promised about item p of t

vars == <<phase, outcome>>

----------------------------------------------------------------------------

Verdicts == {"completed", "partially_completed", "failed"}
Live     == {"queued", "processing"} \cup Verdicts
Retired  == {"expired", "forgotten"}
Phase    == {"unknown"} \cup Live \cup Retired

Decision == {"completed", "failed"}
Outcome  == {"pending"} \cup Decision

\* No outcome is kept for a task that is unknown or retired.
Nothing == [p \in {} |-> "pending"]

\* The verdict a family of outcomes justifies: none while an item is pending.
VerdictOf(family) ==
    IF \E p \in DOMAIN family : family[p] = "pending" THEN "processing"
    ELSE IF \A p \in DOMAIN family : family[p] = "completed" THEN "completed"
    ELSE IF \A p \in DOMAIN family : family[p] = "failed" THEN "failed"
    ELSE "partially_completed"

----------------------------------------------------------------------------

Init ==
    /\ phase = [t \in TaskId |-> "unknown"]
    /\ outcome = [t \in TaskId |-> Nothing]

\* A batch of n sources is durably accepted.
Accept(t, n) ==
    /\ phase[t] = "unknown"
    /\ phase' = [phase EXCEPT ![t] = "queued"]
    /\ outcome' = [outcome EXCEPT ![t] = [p \in 0..n - 1 |-> "pending"]]

Begin(t) ==
    /\ phase[t] = "queued"
    /\ phase' = [phase EXCEPT ![t] = "processing"]
    /\ UNCHANGED outcome

\* Item p is decided, once; the last decision also fixes the verdict.
Record(t, p, r) ==
    /\ phase[t] = "processing"
    /\ outcome[t][p] = "pending"
    /\ LET decided == [outcome[t] EXCEPT ![p] = r]
       IN  /\ outcome' = [outcome EXCEPT ![t] = decided]
           /\ phase' = [phase EXCEPT ![t] = VerdictOf(decided)]

\* The task is given up: what is undecided has failed, what is decided stays.
Abandon(t) ==
    /\ phase[t] = "processing"
    /\ phase' = [phase EXCEPT ![t] = "failed"]
    /\ outcome' = [outcome EXCEPT ![t] =
                      [p \in DOMAIN outcome[t] |->
                          IF outcome[t][p] = "pending" THEN "failed"
                                                       ELSE outcome[t][p]]]

\* Retention: the tasks of S lose their payload, those of D every trace.
Retire(S, D) ==
    /\ \A t \in S : phase[t] \in Live
    /\ \A t \in D : phase[t] = "expired" \/ t \in S
    /\ phase' = [t \in TaskId |-> IF t \in D THEN "forgotten"
                                  ELSE IF t \in S THEN "expired" ELSE phase[t]]
    /\ outcome' = [t \in TaskId |-> IF t \in S \cup D THEN Nothing ELSE outcome[t]]

Next ==
    \/ \E t \in TaskId : \/ \E n \in 1..MaxItems : Accept(t, n)
                         \/ Begin(t)
                         \/ \E p \in DOMAIN outcome[t], r \in Decision : Record(t, p, r)
                         \/ Abandon(t)
    \/ \E S, D \in SUBSET TaskId : Retire(S, D)

Spec == Init /\ [][Next]_vars
=============================================================================
