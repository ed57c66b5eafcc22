-------------------------- MODULE MCTaskRepository --------------------------
(* TaskRepository on a small instance.  Task and worker identifiers are       *)
(* random and only compared, so they are symmetric.                           *)
EXTENDS TaskTimes, TLC

Identities == Permutations(TaskId) \cup Permutations(WorkerId)
=============================================================================
