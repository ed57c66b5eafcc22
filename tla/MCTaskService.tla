---------------------------- MODULE MCTaskService ----------------------------
(* TaskService on small instances; every run's .cfg says what it is for.      *)
(* Processes, tasks and worker ids are only compared, so they are symmetric   *)
(* (the symmetry is used by the runs without liveness properties).            *)
EXTENDS TaskService, TLC

Identities == Permutations(TaskId) \cup Permutations(WorkerId) \cup Permutations(Process)

\* Ids are alike, so a run draws any of those left (and is reduced by symmetry)
\* or, where it has no symmetry, always one and the same.
AnyId(S) == S
OneId(S) == IF S = {} THEN {} ELSE {CHOOSE w \in S : TRUE}
=============================================================================
