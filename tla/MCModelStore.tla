--------------------------- MODULE MCModelStore ---------------------------
(* ModelStore on small instances.  Contents are only compared, and so are the *)
(* processes and the names.                                                   *)
EXTENDS ModelStore, TLC

Alike == Permutations(Process) \cup Permutations(Name) \cup Permutations(Digest)
=============================================================================
