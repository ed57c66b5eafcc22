------------------------ MODULE TaskRepositoryProofs ------------------------
(* Proofs about TaskRepository, for every set of tasks, workers and owners,   *)
(* every batch size and every setting.                                        *)
(*                                                                            *)
(* The invariant is stated one task at a time: Good(row, its) relates a row   *)
(* of extraction_tasks to its items.  Each transaction rewrites one row (or,  *)
(* in retention, each row on its own), so the proof has one lemma per rewrite *)
(* and one step per transaction that lifts it to the tables.                  *)
EXTENDS TaskRepository, FiniteSetTheorems, WellFoundedInduction, TLAPS

----------------------------------------------------------------------------
(* Numbers.                                                                   *)

\* A set of numbers has a least one: induction, as a fact to argue by.
LEMMA LeastNumber ==
    ASSUME NEW T, T \subseteq Nat, T # {}
    PROVE  \E n \in T : \A m \in T : n <= m
<1>1. PICK n \in T : \A m \in T : ~ (<<m, n>> \in OpToRel(<, Nat))
  BY NatLessThanWellFounded, WFMin
<1>2. ASSUME NEW m \in T PROVE ~ (m < n)
  <2>1. \A x, y \in Nat : x < y => <<x, y>> \in OpToRel(<, Nat)
    BY DEF OpToRel
  <2>2. m \in Nat /\ n \in Nat
    OBVIOUS
  <2> QED  BY <1>1, <2>1, <2>2, Zenon
<1>3. \A m \in T : n <= m
  <2>1. \A m \in T : ~ (m < n)
    BY <1>2
  <2> QED  BY ONLY <2>1, T \subseteq Nat, n \in T
<1> QED  BY <1>3

----------------------------------------------------------------------------
(* The items of a task.                                                       *)

Having(its, s) == {p \in DOMAIN its : its[p].status = s}
Open(its)      == {p \in DOMAIN its : its[p].status \in Running}

\* Disjoint finite sets add up (the counts of items in different states).
LEMMA DisjointUnion ==
    ASSUME NEW S, NEW T, IsFiniteSet(S), IsFiniteSet(T), S \cap T = {}
    PROVE  /\ IsFiniteSet(S \cup T)
           /\ Cardinality(S \cup T) = Cardinality(S) + Cardinality(T)
<1>1. /\ IsFiniteSet(S \cup T)
      /\ Cardinality(S \cup T) = Cardinality(S) + Cardinality(T) - Cardinality(S \cap T)
  BY FS_Union
<1>2. Cardinality(S \cap T) = 0
  BY FS_EmptySet
<1>3. Cardinality(S) \in Nat /\ Cardinality(T) \in Nat
  BY FS_CardinalityType
<1> QED  BY <1>1, <1>2, <1>3

\* Every item is completed, failed or open, so the three counts make up the whole.
LEMMA Partition ==
    ASSUME NEW n \in Nat, NEW its \in [0..n - 1 -> ItemRow]
    PROVE  /\ IsFiniteSet(Having(its, "completed")) /\ IsFiniteSet(Having(its, "failed"))
           /\ IsFiniteSet(Open(its))
           /\ Cardinality(Having(its, "completed")) \in Nat
           /\ Cardinality(Having(its, "failed")) \in Nat
           /\ Cardinality(Open(its)) \in Nat
           /\ Cardinality(Having(its, "completed")) + Cardinality(Having(its, "failed"))
                + Cardinality(Open(its)) = n
<1> DEFINE C == Having(its, "completed")
           F == Having(its, "failed")
           O == Open(its)
<1>1. IsFiniteSet(0..n - 1) /\ Cardinality(0..n - 1) = n
  BY FS_Interval
<1>2. C \subseteq 0..n - 1 /\ F \subseteq 0..n - 1 /\ O \subseteq 0..n - 1
  BY DEF Having, Open
<1>3. IsFiniteSet(C) /\ IsFiniteSet(F) /\ IsFiniteSet(O)
  BY <1>1, <1>2, FS_Subset
<1>4. Cardinality(C) \in Nat /\ Cardinality(F) \in Nat /\ Cardinality(O) \in Nat
  BY <1>3, FS_CardinalityType
<1>5. C \cup F \cup O = 0..n - 1 /\ C \cap F = {} /\ (C \cup F) \cap O = {}
  <2>1. \A p \in 0..n - 1 : its[p].status \in Running \cup ItemFinal
    BY DEF ItemRow
  <2> QED  BY <2>1 DEF Having, Open, Running, ItemFinal
<1> HIDE DEF C, F, O
<1>6. IsFiniteSet(C \cup F) /\ Cardinality(C \cup F) = Cardinality(C) + Cardinality(F)
  BY <1>3, <1>5, DisjointUnion
<1>7. Cardinality((C \cup F) \cup O) = Cardinality(C \cup F) + Cardinality(O)
  BY <1>3, <1>5, <1>6, DisjointUnion
<1> QED  BY <1>1, <1>3, <1>4, <1>5, <1>6, <1>7 DEF C, F, O

\* What finalize_item writes to the item table.
Recorded(its, p, r) ==
    [its EXCEPT ![p].status = r, ![p].outcome = (r = "completed"), ![p].error = (r = "failed")]

\* Recording an open item moves one unit to the count of its result.
LEMMA RecordCounts ==
    ASSUME NEW n \in Nat, NEW its \in [0..n - 1 -> ItemRow],
           NEW p \in Open(its), NEW r \in ItemFinal
    PROVE  /\ Recorded(its, p, r) \in [0..n - 1 -> ItemRow]
           /\ Cardinality(Having(Recorded(its, p, r), r)) = Cardinality(Having(its, r)) + 1
           /\ \A s \in ItemFinal \ {r} : Having(Recorded(its, p, r), s) = Having(its, s)
<1> DEFINE new == Recorded(its, p, r)
<1>1. p \in 0..n - 1 /\ its[p].status \in Running
  BY DEF Open
<1>2. new \in [0..n - 1 -> ItemRow]
  <2>1. its[p] \in ItemRow
    BY <1>1
  <2>2. [its[p] EXCEPT !.status = r, !.outcome = (r = "completed"), !.error = (r = "failed")]
          \in ItemRow
    BY <2>1 DEF ItemRow
  <2> QED  BY <1>1, <2>2 DEF Recorded
<1>3. /\ new[p].status = r
      /\ \A q \in 0..n - 1 : q # p => new[q] = its[q]
  BY <1>1 DEF Recorded, ItemRow
<1>4. p \notin Having(its, "completed") /\ p \notin Having(its, "failed")
  BY <1>1 DEF Having, Running
<1>5. Having(new, r) = Having(its, r) \cup {p}
  BY <1>1, <1>2, <1>3 DEF Having
<1>6. \A s \in ItemFinal \ {r} : Having(new, s) = Having(its, s)
  BY <1>1, <1>2, <1>3, <1>4 DEF Having, ItemFinal
<1>7. p \notin Having(its, r) /\ IsFiniteSet(Having(its, r))
  BY <1>4, Partition DEF ItemFinal
<1>8. Cardinality(Having(new, r)) = Cardinality(Having(its, r)) + 1
  BY <1>5, <1>7, FS_AddElement
<1> QED  BY <1>2, <1>6, <1>8

\* What fail_task writes to the item table.
AllFailed(its) ==
    [p \in DOMAIN its |-> IF p \in Open(its)
                          THEN [its[p] EXCEPT !.status = "failed", !.error = TRUE]
                          ELSE its[p]]

\* Failing the remaining items adds them all to the failed count.
LEMMA FailCounts ==
    ASSUME NEW n \in Nat, NEW its \in [0..n - 1 -> ItemRow]
    PROVE  /\ AllFailed(its) \in [0..n - 1 -> ItemRow]
           /\ Having(AllFailed(its), "completed") = Having(its, "completed")
           /\ Open(AllFailed(its)) = {}
           /\ Cardinality(Having(AllFailed(its), "failed"))
                = n - Cardinality(Having(its, "completed"))
<1> DEFINE new == AllFailed(its)
<1>1. new \in [0..n - 1 -> ItemRow]
  BY DEF AllFailed, ItemRow, ItemFinal
<1>2. \A q \in 0..n - 1 : /\ its[q].status \in Running => new[q].status = "failed"
                          /\ its[q].status \notin Running => new[q] = its[q]
  BY DEF AllFailed, Open, ItemRow
<1>3. Having(new, "completed") = Having(its, "completed")
  BY <1>1, <1>2 DEF Having, Running
<1>4. Open(new) = {}
  BY <1>1, <1>2 DEF Open, Running
<1>5. Cardinality(Open(new)) = 0
  BY <1>4, FS_EmptySet
<1> HIDE DEF new
<1>6. Cardinality(Having(new, "failed")) = n - Cardinality(Having(its, "completed"))
  BY <1>1, <1>3, <1>5, Partition
<1> QED  BY <1>1, <1>3, <1>4, <1>6 DEF new

----------------------------------------------------------------------------
(* The invariant of one task.                                                 *)

Counted(row, its) ==
    /\ row.successful = Cardinality(Having(its, "completed"))
    /\ row.failed = Cardinality(Having(its, "failed"))
    /\ row.processed = row.successful + row.failed

\* StatusIsTruthful in terms of the counters, which is what the code tests.
Judged(row) ==
    /\ row.status \in Running <=> row.processed < row.accepted
    /\ row.status = "completed" <=> row.successful = row.accepted
    /\ row.status = "partially_completed" =>
          0 < row.successful /\ row.successful < row.accepted
    /\ row.status = "failed" => row.successful = 0 \/ row.task_error \/ row.purged
    /\ row.status \in Terminal => row.completed_at # NoTime

Leased(row, its) ==
    /\ row.lease_owner # NoWorker <=> row.status = "processing" /\ ~row.purged
    /\ row.lease_owner = NoWorker <=> row.lease_expires_at = NoTime
    /\ row.status = "queued" => \A p \in DOMAIN its : its[p].status = "queued"

Kempt(row, its) ==
    IF row.purged
    THEN /\ ~row.payload /\ ~row.task_error
         /\ \A p \in DOMAIN its : its[p] = Erased(its[p])
    ELSE /\ row.payload
         /\ \A p \in DOMAIN its :
               /\ its[p].text
               /\ its[p].outcome <=> its[p].status = "completed"
               /\ its[p].error <=> its[p].status = "failed"

Good(row, its) ==
    /\ row \in TaskRow
    /\ its \in [0..row.accepted - 1 -> ItemRow]
    /\ Counted(row, its)
    /\ Judged(row)
    /\ Leased(row, its)
    /\ Kempt(row, its)

----------------------------------------------------------------------------
(* Each rewrite of a task keeps it good.                                      *)

\* create_task: a task of n queued items, nothing counted, leased to nobody.
LEMMA NewGood ==
    ASSUME NEW o \in OwnerId, NEW n \in 1..MaxItems, NEW now \in Nat
    PROVE  Good(NewTask(o, n, now), [p \in 0..n - 1 |-> NewItem])
<1> DEFINE its == [p \in 0..n - 1 |-> NewItem]
           row == NewTask(o, n, now)
<1> USE SettingsAssumption
<1>1. row \in TaskRow
  BY DEF NewTask, TaskRow, Running, NoTime
<1>2. its \in [0..n - 1 -> ItemRow]
  BY DEF NewItem, ItemRow, Running
<1>3. Having(its, "completed") = {} /\ Having(its, "failed") = {}
  BY DEF Having, NewItem
<1>4. Counted(row, its)
  <2>1. row.successful = 0 /\ row.failed = 0 /\ row.processed = 0
    BY DEF NewTask
  <2> HIDE DEF its, row
  <2> QED  BY <1>3, <2>1, FS_EmptySet DEF Counted
<1>5. Judged(row)
  BY DEF Judged, NewTask, Running, Terminal, NoTime
<1>6. Leased(row, its)
  BY DEF Leased, NewTask, NewItem, NoTime
<1>7. Kempt(row, its)
  BY DEF Kempt, NewTask, NewItem
<1>8. row.accepted = n
  BY DEF NewTask
<1> QED  BY <1>1, <1>2, <1>4, <1>5, <1>6, <1>7, <1>8 DEF Good

\* claim_task, of a queued task or of one whose lease has expired.
LEMMA ClaimGood ==
    ASSUME NEW row, NEW its, Good(row, its), NEW w \in WorkerId, NEW now \in Nat,
           row.status \in Running, ~row.purged
    PROVE  Good(Claimed(row, w, now), its)
<1> DEFINE new == Claimed(row, w, now)
<1> USE SettingsAssumption
<1>1. new \in TaskRow
  <2>1. row \in TaskRow /\ now + LeaseSeconds \in Nat
    BY DEF Good
  <2> QED  BY <2>1 DEF Claimed, TaskRow, Running
<1>2. /\ new.status = "processing" /\ new.lease_owner = w
      /\ new.lease_expires_at = now + LeaseSeconds
      /\ \A c \in {"accepted", "processed", "successful", "failed", "task_error", "purged",
                    "payload", "completed_at"} : new[c] = row[c]
  BY DEF Good, Claimed, TaskRow
<1>3. Counted(new, its)
  BY <1>2 DEF Good, Counted
<1>4. Judged(new)
  BY <1>2 DEF Good, Judged, Running, Terminal
<1>5. Leased(new, its)
  BY <1>2 DEF Leased, NoTime
<1>6. Kempt(new, its)
  BY <1>2 DEF Good, Kempt
<1> QED  BY <1>1, <1>2, <1>3, <1>4, <1>5, <1>6 DEF Good

\* renew_lease: only the expiry of an existing lease moves.
LEMMA RenewGood ==
    ASSUME NEW row, NEW its, Good(row, its), NEW now \in Nat, row.lease_owner # NoWorker
    PROVE  Good([row EXCEPT !.lease_expires_at = now + LeaseSeconds, !.updated_at = now], its)
<1> DEFINE new == [row EXCEPT !.lease_expires_at = now + LeaseSeconds, !.updated_at = now]
<1> USE SettingsAssumption
<1>1. new \in TaskRow
  <2>1. row \in TaskRow /\ now + LeaseSeconds \in Nat
    BY DEF Good
  <2> QED  BY <2>1 DEF TaskRow
<1>2. /\ new.lease_expires_at = now + LeaseSeconds
      /\ \A c \in {"status", "accepted", "processed", "successful", "failed", "task_error",
                    "purged", "payload", "completed_at", "lease_owner"} : new[c] = row[c]
  BY DEF Good, TaskRow
<1>3. Counted(new, its) /\ Judged(new) /\ Kempt(new, its)
  BY <1>2 DEF Good, Counted, Judged, Kempt
<1>4. Leased(new, its)
  BY <1>2 DEF Good, Leased, NoTime
<1> QED  BY <1>1, <1>2, <1>3, <1>4 DEF Good

\* claim_next_item: an open item stays open, so no count changes.
LEMMA ItemClaimGood ==
    ASSUME NEW row, NEW its, Good(row, its), row.status = "processing", NEW p \in Open(its)
    PROVE  Good(row, [its EXCEPT ![p].status = "processing"])
<1> DEFINE new == [its EXCEPT ![p].status = "processing"]
<1>1. its \in [0..row.accepted - 1 -> ItemRow] /\ p \in 0..row.accepted - 1
      /\ its[p].status \in Running
  BY DEF Good, Open
<1>2. new \in [0..row.accepted - 1 -> ItemRow]
  BY <1>1 DEF ItemRow, Running
<1>3. /\ new[p] = [its[p] EXCEPT !.status = "processing"]
      /\ \A q \in 0..row.accepted - 1 : q # p => new[q] = its[q]
  BY <1>1
<1>4. /\ new[p].status = "processing" /\ new[p].text = its[p].text
      /\ new[p].outcome = its[p].outcome /\ new[p].error = its[p].error
  BY <1>1, <1>3 DEF ItemRow
<1>5. Having(new, "completed") = Having(its, "completed")
      /\ Having(new, "failed") = Having(its, "failed")
  BY <1>1, <1>2, <1>3, <1>4 DEF Having, Running
<1>6. Counted(row, new)
  BY <1>5 DEF Good, Counted
<1>7. Leased(row, new)
  BY DEF Good, Leased
<1>8. Kempt(row, new)
  <2>1. CASE row.purged
    <3>1. new[p] = Erased(new[p])
      <4>1. its[p] \in ItemRow /\ its[p] = Erased(its[p])
        BY <1>1, <2>1 DEF Good, Kempt
      <4>2. ~its[p].text /\ ~its[p].outcome /\ ~its[p].error
        BY <4>1 DEF Erased, ItemRow
      <4>3. new[p] \in ItemRow /\ ~new[p].text /\ ~new[p].outcome /\ ~new[p].error
        BY <1>1, <1>2, <1>4, <4>2
      <4> HIDE DEF new
      <4> QED  BY <4>3 DEF Erased, ItemRow
    <3> QED  BY <1>1, <1>2, <1>3, <2>1, <3>1 DEF Good, Kempt
  <2>2. CASE ~row.purged
    BY <1>1, <1>2, <1>3, <1>4, <2>2 DEF Good, Kempt, Running
  <2> QED  BY <2>1, <2>2
<1> QED  BY <1>2, <1>6, <1>7, <1>8 DEF Good

\* The heart of finalize_item: the counters and the derived status after it are
\* those of the items after it.
LEMMA RecordGood ==
    ASSUME NEW row, NEW its, Good(row, its), NEW now \in Nat,
           NEW p \in Open(its), NEW r \in ItemFinal,
           row.lease_owner # NoWorker
    PROVE  Good(Advanced(row, r, now), Recorded(its, p, r))
<1> DEFINE new  == Advanced(row, r, now)
           newIts == Recorded(its, p, r)
           gain == IF r = "completed" THEN 1 ELSE 0
           loss == IF r = "failed" THEN 1 ELSE 0
<1>1. /\ row \in TaskRow /\ its \in [0..row.accepted - 1 -> ItemRow]
      /\ row.accepted \in Nat /\ row.accepted > 0
  BY SettingsAssumption DEF Good, TaskRow
<1>2. /\ new.processed = row.processed + 1
      /\ new.successful = row.successful + gain /\ new.failed = row.failed + loss
      /\ new.status = DerivedStatus(row.processed + 1, row.successful + gain, row.accepted)
      /\ new.completed_at = IF row.processed + 1 = row.accepted THEN now ELSE NoTime
      /\ new.lease_owner = IF row.processed + 1 = row.accepted THEN NoWorker
                                                               ELSE row.lease_owner
      /\ new.lease_expires_at = IF row.processed + 1 = row.accepted THEN NoTime
                                                               ELSE row.lease_expires_at
      /\ \A c \in {"accepted", "task_error", "purged", "payload"} : new[c] = row[c]
  BY <1>1 DEF Advanced, TaskRow
<1>3. row.status = "processing" /\ ~row.purged
  BY DEF Good, Leased
<1>4. /\ row.processed \in Nat /\ row.successful \in Nat /\ row.failed \in Nat
      /\ row.processed = row.successful + row.failed /\ row.processed < row.accepted
      /\ gain + loss = 1 /\ gain \in {0, 1} /\ loss \in {0, 1}
  BY <1>1, <1>3 DEF Good, Counted, Judged, TaskRow, Running, ItemFinal
<1>5. new \in TaskRow
  <2>1. DerivedStatus(row.processed + 1, row.successful + gain, row.accepted)
          \in {"processing"} \cup Terminal
    BY DEF DerivedStatus, Terminal
  <2> DEFINE status == DerivedStatus(row.processed + 1, row.successful + gain, row.accepted)
             processed == row.processed + 1
             successful == row.successful + gain
             failed == row.failed + loss
             completed == IF processed = row.accepted THEN now ELSE NoTime
             owner == IF processed = row.accepted THEN NoWorker ELSE row.lease_owner
             expires == IF processed = row.accepted THEN NoTime ELSE row.lease_expires_at
  <2>2. new = [row EXCEPT !.status = status, !.processed = processed, !.successful = successful,
                          !.failed = failed, !.updated_at = now, !.completed_at = completed,
                          !.lease_owner = owner, !.lease_expires_at = expires]
    BY <1>1 DEF Advanced, TaskRow
  <2>3. /\ processed \in Nat /\ successful \in Nat /\ failed \in Nat
        /\ completed \in Nat \cup {NoTime} /\ owner \in WorkerId \cup {NoWorker}
        /\ expires \in Nat \cup {NoTime} /\ status \in Running \cup Terminal
    <3>1. /\ row.lease_owner \in WorkerId \cup {NoWorker}
          /\ row.lease_expires_at \in Nat \cup {NoTime}
      BY <1>1 DEF TaskRow
    <3>2. processed \in Nat /\ successful \in Nat /\ failed \in Nat
      BY <1>4
    <3>3. status \in Running \cup Terminal
      BY <2>1 DEF Running
    <3> QED  BY <1>1, <3>1, <3>2, <3>3
  <2> HIDE DEF status, processed, successful, failed, completed, owner, expires, new
  <2> QED  BY <1>1, <2>2, <2>3 DEF TaskRow
<1>6. newIts \in [0..row.accepted - 1 -> ItemRow]
  BY <1>1, RecordCounts
<1>7. Counted(new, newIts)
  <2>1. /\ Cardinality(Having(newIts, r)) = Cardinality(Having(its, r)) + 1
        /\ \A s \in ItemFinal \ {r} : Having(newIts, s) = Having(its, s)
    BY <1>1, RecordCounts
  <2>2. CASE r = "completed"
    BY <1>2, <1>4, <2>1, <2>2 DEF Good, Counted, ItemFinal
  <2>3. CASE r = "failed"
    BY <1>2, <1>4, <2>1, <2>3 DEF Good, Counted, ItemFinal
  <2> QED  BY <2>2, <2>3 DEF ItemFinal
<1>8. Judged(new)
  <2> DEFINE successful == row.successful + gain
  <2>1. CASE row.processed + 1 < row.accepted
    <3>1. /\ new.status = "processing"
          /\ new.processed < new.accepted /\ new.successful # new.accepted
      BY <1>1, <1>2, <1>4, <2>1 DEF DerivedStatus
    <3> QED  BY <3>1 DEF Judged, Running, Terminal
  <2>2. CASE row.processed + 1 = row.accepted
    <3>1. /\ new.status = IF successful = row.accepted THEN "completed"
                          ELSE IF successful = 0 THEN "failed" ELSE "partially_completed"
          /\ new.processed = new.accepted /\ new.completed_at = now
      BY <1>1, <1>2, <1>4, <2>2 DEF DerivedStatus
    <3>2. /\ new.successful = successful /\ successful \in 0..row.accepted
          /\ new.accepted = row.accepted
      BY <1>1, <1>2, <1>4
    <3> HIDE DEF new, successful
    <3> QED  BY <1>1, <3>1, <3>2 DEF Judged, Running, Terminal, NoTime
  <2> QED  BY <1>1, <1>4, <2>1, <2>2
<1>9. Leased(new, newIts)
  BY <1>1, <1>2, <1>3, <1>4 DEF Good, Leased, DerivedStatus, NoTime
<1>10. Kempt(new, newIts)
  <2>1. /\ p \in 0..row.accepted - 1
        /\ \A q \in 0..row.accepted - 1 : q # p => newIts[q] = its[q]
        /\ newIts[p] = [its[p] EXCEPT !.status = r, !.outcome = (r = "completed"),
                                      !.error = (r = "failed")]
    BY <1>1 DEF Open, Recorded
  <2>2. newIts[p].status = r /\ newIts[p].text = its[p].text
        /\ newIts[p].outcome = (r = "completed") /\ newIts[p].error = (r = "failed")
    BY <1>1, <2>1 DEF ItemRow
  <2>3. r = "completed" \/ r = "failed"
    BY DEF ItemFinal
  <2>4. /\ newIts[p].text = its[p].text
        /\ newIts[p].outcome <=> newIts[p].status = "completed"
        /\ newIts[p].error <=> newIts[p].status = "failed"
    BY <2>2, <2>3
  <2>5. ~new.purged /\ new.payload = row.payload
    BY <1>2, <1>3
  <2> HIDE DEF new, newIts
  <2>6. /\ row.payload
        /\ \A q \in 0..row.accepted - 1 :
              /\ its[q].text
              /\ its[q].outcome <=> its[q].status = "completed"
              /\ its[q].error <=> its[q].status = "failed"
    BY <1>1, <1>3 DEF Good, Kempt
  <2>7. \A q \in 0..row.accepted - 1 :
           /\ newIts[q].text
           /\ newIts[q].outcome <=> newIts[q].status = "completed"
           /\ newIts[q].error <=> newIts[q].status = "failed"
    BY <2>1, <2>4, <2>6
  <2>8. new.payload /\ DOMAIN newIts = 0..row.accepted - 1
    BY <1>6, <2>5, <2>6
  <2> QED  BY <2>5, <2>7, <2>8 DEF Kempt
<1>11. new.accepted = row.accepted
  BY <1>2
<1> QED  BY <1>5, <1>6, <1>7, <1>8, <1>9, <1>10, <1>11 DEF Good

\* fail_task charges the remaining items to the failed count.
LEMMA FailGood ==
    ASSUME NEW row, NEW its, Good(row, its), NEW now \in Nat, row.lease_owner # NoWorker
    PROVE  Good(GivenUp(row, now), AllFailed(its))
<1> DEFINE new  == GivenUp(row, now)
           newIts == AllFailed(its)
<1>1. /\ row \in TaskRow /\ its \in [0..row.accepted - 1 -> ItemRow]
      /\ row.accepted \in Nat /\ row.accepted > 0
  BY SettingsAssumption DEF Good, TaskRow
<1>2. row.status = "processing" /\ ~row.purged
  BY DEF Good, Leased
<1>3. /\ row.processed \in Nat /\ row.successful \in Nat /\ row.failed \in Nat
      /\ row.processed = row.successful + row.failed /\ row.processed < row.accepted
  BY <1>1, <1>2 DEF Good, Counted, Judged, TaskRow, Running
<1>4. new \in TaskRow
  <2> DEFINE failed == row.failed + (row.accepted - row.processed)
  <2>1. failed \in Nat
    BY <1>1, <1>3
  <2>2. new = [row EXCEPT !.status = "failed", !.processed = row.accepted, !.failed = failed,
                          !.task_error = TRUE, !.updated_at = now, !.completed_at = now,
                          !.lease_owner = NoWorker, !.lease_expires_at = NoTime]
    BY <1>1 DEF GivenUp, TaskRow
  <2> HIDE DEF failed, new
  <2> QED  BY <1>1, <2>1, <2>2 DEF TaskRow, Terminal
<1>5. /\ new.status = "failed" /\ new.processed = row.accepted
      /\ new.failed = row.failed + (row.accepted - row.processed)
      /\ new.task_error /\ new.completed_at = now
      /\ new.lease_owner = NoWorker /\ new.lease_expires_at = NoTime
      /\ \A c \in {"accepted", "successful", "purged", "payload"} : new[c] = row[c]
  BY <1>1 DEF GivenUp, TaskRow
<1>6. /\ newIts \in [0..row.accepted - 1 -> ItemRow]
      /\ Having(newIts, "completed") = Having(its, "completed")
      /\ Cardinality(Having(newIts, "failed"))
           = row.accepted - Cardinality(Having(its, "completed"))
  BY <1>1, FailCounts
<1>7. \A q \in 0..row.accepted - 1 :
        /\ its[q].status \in Running =>
              newIts[q] = [its[q] EXCEPT !.status = "failed", !.error = TRUE]
        /\ its[q].status \notin Running => newIts[q] = its[q]
  BY <1>1 DEF AllFailed, Open
<1> HIDE DEF new, newIts
<1>8. Counted(new, newIts)
  <2>1. /\ new.successful = row.successful
        /\ row.successful = Cardinality(Having(its, "completed"))
    BY <1>5 DEF Good, Counted
  <2>2. new.failed = row.accepted - row.successful
    BY <1>1, <1>3, <1>5
  <2>3. new.processed = new.successful + new.failed
    BY <1>1, <1>3, <1>5, <2>1, <2>2
  <2> QED  BY <1>6, <2>1, <2>2, <2>3 DEF Counted
<1>9. Judged(new)
  BY <1>1, <1>3, <1>5 DEF Judged, Running, Terminal, NoTime
<1>10. Leased(new, newIts)
  BY <1>5 DEF Leased
<1>11. Kempt(new, newIts)
  <2>1. /\ row.payload
        /\ \A q \in 0..row.accepted - 1 :
              /\ its[q].text
              /\ its[q].outcome <=> its[q].status = "completed"
              /\ its[q].error <=> its[q].status = "failed"
    BY <1>1, <1>2 DEF Good, Kempt
  <2>2. ASSUME NEW q \in 0..row.accepted - 1
        PROVE  /\ newIts[q].text
               /\ newIts[q].outcome <=> newIts[q].status = "completed"
               /\ newIts[q].error <=> newIts[q].status = "failed"
    <3>1. CASE its[q].status \in Running
      <4>1. /\ newIts[q].status = "failed" /\ newIts[q].text = its[q].text
            /\ newIts[q].outcome = its[q].outcome /\ newIts[q].error = TRUE
        <5>1. its[q] \in ItemRow
          BY <1>1
        <5>2. newIts[q] = [its[q] EXCEPT !.status = "failed", !.error = TRUE]
          BY <1>7, <3>1
        <5> QED  BY <5>1, <5>2 DEF ItemRow
      <4>2. ~its[q].outcome /\ its[q].text
        BY <2>1, <3>1 DEF Running
      <4> QED  BY <4>1, <4>2
    <3>2. CASE its[q].status \notin Running
      BY <1>7, <2>1, <3>2
    <3> QED  BY <3>1, <3>2
  <2>3. ~new.purged /\ new.payload
    BY <1>2, <1>5, <2>1
  <2>4. DOMAIN newIts = 0..row.accepted - 1
    BY <1>6
  <2> QED  BY <2>2, <2>3, <2>4 DEF Kempt
<1>12. new.accepted = row.accepted
  BY <1>5
<1> QED  BY <1>4, <1>6, <1>8, <1>9, <1>10, <1>11, <1>12 DEF Good, new, newIts

\* maintain_retention, one row: content goes, status and counts stay.
LEMMA PurgeGood ==
    ASSUME NEW row, NEW its, Good(row, its), NEW now \in Nat
    PROVE  Good(Purged(row, now), [p \in DOMAIN its |-> Erased(its[p])])
<1> DEFINE new  == Purged(row, now)
           newIts == [p \in DOMAIN its |-> Erased(its[p])]
<1>1. row \in TaskRow /\ its \in [0..row.accepted - 1 -> ItemRow]
  BY DEF Good
<1>2. new \in TaskRow
  BY <1>1 DEF Purged, TaskRow
<1>3. /\ ~new.payload /\ ~new.task_error /\ new.purged
      /\ new.lease_owner = NoWorker /\ new.lease_expires_at = NoTime
      /\ \A c \in {"status", "accepted", "processed", "successful", "failed",
                    "completed_at"} : new[c] = row[c]
  BY <1>1 DEF Purged, TaskRow
<1>4. newIts \in [0..row.accepted - 1 -> ItemRow]
  BY <1>1 DEF Erased, ItemRow
<1>5. \A q \in 0..row.accepted - 1 : /\ newIts[q].status = its[q].status
                                     /\ newIts[q] = Erased(newIts[q])
  BY <1>1 DEF Erased, ItemRow
<1> HIDE DEF new, newIts
<1>6. Having(newIts, "completed") = Having(its, "completed")
      /\ Having(newIts, "failed") = Having(its, "failed")
  BY <1>1, <1>4, <1>5 DEF Having
<1>7. Counted(new, newIts)
  BY <1>3, <1>6 DEF Good, Counted
<1>8. Judged(new)
  BY <1>3 DEF Good, Judged
<1>9. Leased(new, newIts)
  BY <1>1, <1>3, <1>4, <1>5 DEF Good, Leased
<1>10. Kempt(new, newIts)
  BY <1>3, <1>4, <1>5 DEF Kempt
<1>11. new.accepted = row.accepted
  BY <1>3
<1> QED  BY <1>2, <1>4, <1>7, <1>8, <1>9, <1>10, <1>11 DEF Good, new, newIts

----------------------------------------------------------------------------
(* The inductive invariant: every task in the table is good.                  *)

IInv ==
    /\ issued \subseteq TaskId
    /\ DOMAIN tasks \subseteq issued
    /\ tasks = [t \in DOMAIN tasks |-> tasks[t]]
    /\ items = [t \in DOMAIN tasks |-> items[t]]
    /\ clock \in Nat
    /\ \A t \in DOMAIN tasks : Good(tasks[t], items[t])

\* The empty tables satisfy the invariant.
LEMMA InitGood == Init => IInv
BY DEF Init, IInv

\* A transaction that rewrites one task, and leaves it good, keeps the invariant.
LEMMA Rewrite ==
    ASSUME IInv, NEW t \in DOMAIN tasks, NEW row, NEW its, Good(row, its),
           tasks' = [tasks EXCEPT ![t] = row], items' = [items EXCEPT ![t] = its],
           UNCHANGED <<issued, clock>>
    PROVE  IInv'
<1>1. DOMAIN tasks' = DOMAIN tasks
  BY DEF IInv
<1>2. tasks' = [u \in DOMAIN tasks' |-> tasks'[u]] /\ items' = [u \in DOMAIN tasks' |-> items'[u]]
  BY <1>1 DEF IInv
<1>3. tasks'[t] = row /\ items'[t] = its
  BY DEF IInv
<1>4. \A u \in DOMAIN tasks' : u # t => tasks'[u] = tasks[u] /\ items'[u] = items[u]
  BY <1>1 DEF IInv
<1>5. \A u \in DOMAIN tasks' : Good(tasks'[u], items'[u])
  BY <1>1, <1>3, <1>4 DEF IInv
<1> QED  BY <1>1, <1>2, <1>5 DEF IInv

\* A submission adds one good task and touches no other.
LEMMA CreateKeeps ==
    ASSUME IInv, NEW now \in Nat, NEW t \in TaskId, NEW o \in OwnerId, NEW n \in 1..MaxItems,
           CreateTask(t, o, n, now)
    PROVE  IInv'
<1>1. t \notin DOMAIN tasks /\ DOMAIN items = DOMAIN tasks
  BY DEF IInv, CreateTask
<1>2. /\ tasks' = [u \in DOMAIN tasks \cup {t} |->
                      IF u = t THEN NewTask(o, n, now) ELSE tasks[u]]
      /\ items' = [u \in DOMAIN tasks \cup {t} |->
                      IF u = t THEN [p \in 0..n - 1 |-> NewItem] ELSE items[u]]
      /\ issued' = issued \cup {t} /\ clock' = clock
  BY <1>1 DEF CreateTask
<1>3. Good(NewTask(o, n, now), [p \in 0..n - 1 |-> NewItem])
  BY NewGood
<1>4. \A u \in DOMAIN tasks' : Good(tasks'[u], items'[u])
  BY <1>1, <1>2, <1>3 DEF IInv
<1>5. /\ DOMAIN tasks' \subseteq issued'
      /\ tasks' = [u \in DOMAIN tasks' |-> tasks'[u]]
      /\ items' = [u \in DOMAIN tasks' |-> items'[u]]
  BY <1>2 DEF IInv
<1> QED  BY <1>2, <1>4, <1>5 DEF IInv

\* A claim keeps the invariant.
LEMMA ClaimKeeps ==
    ASSUME IInv, NEW now \in Nat, NEW t \in DOMAIN tasks, NEW w \in WorkerId,
           ClaimTask(t, w, now)
    PROVE  IInv'
<1>1. Good(tasks[t], items[t]) /\ tasks[t].status \in Running /\ ~tasks[t].purged
  BY DEF IInv, ClaimTask, Oldest, Claimable
<1>2. Good(Claimed(tasks[t], w, now), items[t])
  BY <1>1, ClaimGood
<1>3. /\ tasks' = [tasks EXCEPT ![t] = Claimed(tasks[t], w, now)]
      /\ items' = [items EXCEPT ![t] = items[t]] /\ UNCHANGED <<issued, clock>>
  BY DEF IInv, ClaimTask
<1> QED  BY <1>2, <1>3, Rewrite

\* A renewal keeps the invariant.
LEMMA RenewKeeps ==
    ASSUME IInv, NEW now \in Nat, NEW t \in DOMAIN tasks, NEW w \in WorkerId,
           RenewLease(t, w, now)
    PROVE  IInv'
<1>1. Good(tasks[t], items[t]) /\ tasks[t].lease_owner # NoWorker
  BY SettingsAssumption DEF IInv, RenewLease, Renewable, HoldsLease
<1> DEFINE row == [tasks[t] EXCEPT !.lease_expires_at = now + LeaseSeconds, !.updated_at = now]
<1>2. Good(row, items[t])
  BY <1>1, RenewGood
<1>3. /\ tasks' = [tasks EXCEPT ![t] = row]
      /\ items' = [items EXCEPT ![t] = items[t]] /\ UNCHANGED <<issued, clock>>
  BY DEF IInv, RenewLease
<1> QED  BY <1>2, <1>3, Rewrite

\* Claiming an item keeps the invariant.
LEMMA ClaimItemKeeps ==
    ASSUME IInv, NEW now \in Nat, NEW t \in DOMAIN tasks, NEW w \in WorkerId,
           NEW p \in DOMAIN items[t], ClaimNextItem(t, w, p, now)
    PROVE  IInv'
<1>1. Good(tasks[t], items[t]) /\ tasks[t].status = "processing" /\ p \in Open(items[t])
  BY DEF IInv, ClaimNextItem, LeaseActive, IsNextItem, Undecided, Open
<1> DEFINE its == [items[t] EXCEPT ![p].status = "processing"]
<1>2. Good(tasks[t], its)
  BY <1>1, ItemClaimGood
<1>3. /\ tasks' = [tasks EXCEPT ![t] = tasks[t]]
      /\ items' = [items EXCEPT ![t] = its] /\ UNCHANGED <<issued, clock>>
  BY DEF IInv, ClaimNextItem
<1> QED  BY <1>2, <1>3, Rewrite

\* Recording an item keeps the invariant: its holder has a lease, so the task
\* is processing, and the item is still open.
LEMMA FinalizeKeeps ==
    ASSUME IInv, NEW now \in Nat, NEW t \in DOMAIN tasks, NEW w \in WorkerId,
           NEW p \in DOMAIN items[t], NEW r \in ItemFinal, FinalizeItem(t, w, p, r, now)
    PROVE  IInv'
<1>1. Good(tasks[t], items[t]) /\ tasks[t].lease_owner # NoWorker
  BY SettingsAssumption DEF IInv, FinalizeItem, Mutable, HoldsLease
<1>2. p \in Open(items[t])
  <2>1. items[t][p].status \in Running \cup ItemFinal
    BY <1>1 DEF Good, ItemRow
  <2> QED  BY <2>1 DEF FinalizeItem, Open
<1>3. Good(Advanced(tasks[t], r, now), Recorded(items[t], p, r))
  BY <1>1, <1>2, RecordGood
<1>4. /\ tasks' = [tasks EXCEPT ![t] = Advanced(tasks[t], r, now)]
      /\ items' = [items EXCEPT ![t] = Recorded(items[t], p, r)]
      /\ UNCHANGED <<issued, clock>>
  BY DEF IInv, FinalizeItem, Recorded
<1> QED  BY <1>3, <1>4, Rewrite

\* Giving a task up keeps the invariant.
LEMMA FailKeeps ==
    ASSUME IInv, NEW now \in Nat, NEW t \in DOMAIN tasks, NEW w \in WorkerId,
           FailTask(t, w, now)
    PROVE  IInv'
<1>1. Good(tasks[t], items[t]) /\ tasks[t].lease_owner # NoWorker
  BY SettingsAssumption DEF IInv, FailTask, Mutable, HoldsLease
<1>2. Good(GivenUp(tasks[t], now), AllFailed(items[t]))
  BY <1>1, FailGood
<1>3. /\ tasks' = [tasks EXCEPT ![t] = GivenUp(tasks[t], now)]
      /\ items' = [items EXCEPT ![t] = AllFailed(items[t])]
      /\ UNCHANGED <<issued, clock>>
  BY DEF IInv, FailTask, AllFailed, Open, Undecided
<1> QED  BY <1>2, <1>3, Rewrite

\* Retention rewrites or drops every task on its own, in both tables alike.
LEMMA RetentionKeeps ==
    ASSUME IInv, NEW now \in Nat, MaintainRetention(now)
    PROVE  IInv'
<1> DEFINE kept == DOMAIN tasks \ ToDelete(now)
<1>1. /\ tasks' = [t \in kept |-> IF t \in ToPurge(now) THEN Purged(tasks[t], now)
                                                        ELSE tasks[t]]
      /\ items' = [t \in kept |-> IF t \in ToPurge(now)
                                  THEN [p \in DOMAIN items[t] |-> Erased(items[t][p])]
                                  ELSE items[t]]
      /\ issued' = issued /\ clock' = clock
  BY DEF MaintainRetention
<1>2. ASSUME NEW t \in kept
      PROVE  Good(tasks'[t], items'[t])
  <2>1. Good(tasks[t], items[t])
    BY DEF IInv
  <2>2. Good(Purged(tasks[t], now), [p \in DOMAIN items[t] |-> Erased(items[t][p])])
    BY <2>1, PurgeGood
  <2> QED  BY <1>1, <2>1, <2>2
<1>3. kept \subseteq DOMAIN tasks
  OBVIOUS
<1> HIDE DEF kept
<1>4. /\ DOMAIN tasks' = kept
      /\ tasks' = [t \in DOMAIN tasks' |-> tasks'[t]]
      /\ items' = [t \in DOMAIN tasks' |-> items'[t]]
  BY <1>1
<1> QED  BY <1>1, <1>2, <1>3, <1>4 DEF IInv

\* Every transaction, and the passing of time, keeps the invariant.
LEMMA StepGood == IInv /\ [Next]_vars => IInv'
<1> SUFFICES ASSUME IInv, [Next]_vars PROVE IInv'
  OBVIOUS
<1>1. ASSUME NEW now \in 0..clock, Submission(now)
      PROVE  IInv'
  BY <1>1, CreateKeeps DEF Submission, IInv
<1>2. ASSUME NEW now \in 0..clock, NEW w \in WorkerId, NEW t \in DOMAIN tasks, Work(w, t, now)
      PROVE  IInv'
  <2>1. now \in Nat
    BY DEF IInv
  <2>2. CASE ClaimTask(t, w, now)
    BY <2>1, <2>2, ClaimKeeps
  <2>3. CASE RenewLease(t, w, now)
    BY <2>1, <2>3, RenewKeeps
  <2>4. CASE \E p \in DOMAIN items[t] : ClaimNextItem(t, w, p, now)
    BY <2>1, <2>4, ClaimItemKeeps
  <2>5. CASE \E p \in DOMAIN items[t], r \in ItemFinal : FinalizeItem(t, w, p, r, now)
    BY <2>1, <2>5, FinalizeKeeps
  <2>6. CASE FailTask(t, w, now)
    BY <2>1, <2>6, FailKeeps
  <2> QED  BY <1>2, <2>2, <2>3, <2>4, <2>5, <2>6 DEF Work
<1>3. ASSUME NEW now \in 0..clock, MaintainRetention(now)
      PROVE  IInv'
  BY <1>3, RetentionKeeps DEF IInv
<1>4. CASE Tick
  BY <1>4 DEF Tick, IInv
<1>5. CASE UNCHANGED vars
  BY <1>5 DEF vars, IInv
<1> QED  BY <1>1, <1>2, <1>3, <1>4, <1>5 DEF Next

\* Whatever workers, timestamps and interleavings, every task in the store of
\* src/src/task_repository.py is good.
THEOREM Invariance == Spec => []IInv
BY InitGood, StepGood, PTL DEF Spec

----------------------------------------------------------------------------
(* What the invariant implies: the state properties the runs check.           *)

\* The invariant, of one task.
LEMMA GoodTasks == ASSUME IInv, NEW t \in DOMAIN tasks PROVE Good(tasks[t], items[t])
BY DEF IInv

\* The counts of a task tell whether its items are all, or none, of a kind.
LEMMA CountsDecide ==
    ASSUME NEW n \in Nat, NEW its \in [0..n - 1 -> ItemRow]
    PROVE  LET done   == Cardinality(Having(its, "completed"))
               failed == Cardinality(Having(its, "failed"))
           IN  /\ Open(its) = {} <=> done + failed = n
               /\ Having(its, "completed") = DOMAIN its <=> done = n
               /\ Having(its, "completed") = {} <=> done = 0
<1> DEFINE C == Having(its, "completed")
           F == Having(its, "failed")
           O == Open(its)
<1>1. /\ IsFiniteSet(C) /\ IsFiniteSet(F) /\ IsFiniteSet(O)
      /\ Cardinality(C) \in Nat /\ Cardinality(F) \in Nat /\ Cardinality(O) \in Nat
      /\ Cardinality(C) + Cardinality(F) + Cardinality(O) = n
  BY Partition
<1>2. C \subseteq 0..n - 1 /\ DOMAIN its = 0..n - 1
  BY DEF Having
<1>3. IsFiniteSet(0..n - 1) /\ Cardinality(0..n - 1) = n
  BY FS_Interval
<1> HIDE DEF C, F, O
<1>4. O = {} <=> Cardinality(O) = 0
  BY <1>1, FS_EmptySet
<1>5. C = {} <=> Cardinality(C) = 0
  BY <1>1, FS_EmptySet
<1>6. C = 0..n - 1 <=> Cardinality(C) = n
  BY <1>2, <1>3, FS_Subset
<1> QED  BY <1>1, <1>2, <1>4, <1>5, <1>6 DEF C, F, O

\* The state properties, each from the invariant: types.
LEMMA ImpliesTypeOK == IInv => TypeOK
<1> SUFFICES ASSUME IInv PROVE TypeOK
  OBVIOUS
<1>1. \A t \in DOMAIN tasks : /\ tasks[t] \in TaskRow
                              /\ items[t] \in [0..tasks[t].accepted - 1 -> ItemRow]
  BY GoodTasks DEF Good
<1>2. tasks \in [DOMAIN tasks -> TaskRow]
  BY <1>1 DEF IInv
<1> QED  BY <1>1, <1>2 DEF IInv, TypeOK

\* The counters of finalize_item and fail_task.
LEMMA ImpliesCounters == IInv => CountersMatchItems
BY GoodTasks DEF CountersMatchItems, Good, Counted, Having, WithStatus

\* The verdict of a task, from its counters to its items.
LEMMA ImpliesTruthful == IInv => StatusIsTruthful
<1> SUFFICES ASSUME IInv, NEW t \in DOMAIN tasks
             PROVE  LET done == WithStatus(t, "completed")
                        all  == DOMAIN items[t]
                    IN  CASE tasks[t].status \in Running -> Undecided(t) # {}
                          [] tasks[t].status = "completed" -> done = all
                          [] tasks[t].status = "partially_completed" ->
                                Undecided(t) = {} /\ done # {} /\ done # all
                          [] tasks[t].status = "failed" ->
                                /\ Undecided(t) = {}
                                /\ done # all
                                /\ done # {} => tasks[t].task_error \/ tasks[t].purged
  BY DEF StatusIsTruthful
<1> DEFINE row  == tasks[t]
           done == WithStatus(t, "completed")
           all  == DOMAIN items[t]
<1>1. /\ row \in TaskRow /\ items[t] \in [0..row.accepted - 1 -> ItemRow]
      /\ Counted(row, items[t]) /\ Judged(row)
  BY GoodTasks DEF Good
<1>2. row.accepted \in Nat /\ row.accepted > 0
  BY <1>1, SettingsAssumption DEF TaskRow
<1>3. done = Having(items[t], "completed") /\ Undecided(t) = Open(items[t])
  BY DEF WithStatus, Having, Undecided, Open
<1> HIDE DEF row, done
<1>4. /\ Undecided(t) = {} <=> row.processed = row.accepted
      /\ done = all <=> row.successful = row.accepted
      /\ done = {} <=> row.successful = 0
  BY <1>1, <1>2, <1>3, CountsDecide DEF Counted
<1>5. /\ row.processed \in Nat /\ row.successful \in Nat
      /\ row.status \in Running \cup Terminal
  BY <1>1 DEF TaskRow
<1>6. row.status \in Running => Undecided(t) # {}
  BY <1>1, <1>2, <1>4, <1>5 DEF Judged
<1>7. row.status = "completed" => done = all
  BY <1>1, <1>4 DEF Judged
<1>8. row.status \in Terminal => Undecided(t) = {}
  <2>1. row.status \in Terminal => ~(row.processed < row.accepted)
    BY <1>1 DEF Judged, Running, Terminal
  <2>2. row.processed <= row.accepted
    BY <1>1, <1>2, <1>3, Partition DEF Counted
  <2> QED  BY <1>2, <1>4, <1>5, <2>1, <2>2
<1>9. row.status = "partially_completed" => done # {} /\ done # all
  BY <1>1, <1>2, <1>4, <1>5 DEF Judged
<1>10. row.status = "failed" => /\ done # all
                                /\ done # {} => row.task_error \/ row.purged
  BY <1>1, <1>2, <1>4, <1>5 DEF Judged
<1> QED  BY <1>5, <1>6, <1>7, <1>8, <1>9, <1>10 DEF Running, Terminal, row, done

\* Leases and statuses.
LEMMA ImpliesLease == IInv => LeaseMatchesStatus
BY GoodTasks DEF LeaseMatchesStatus, Good, Leased

\* Retention's erasure.
LEMMA ImpliesErasure == IInv => ErasureIsComplete
BY GoodTasks DEF ErasureIsComplete, Good, Kempt

\* The check of ExtractionTaskRecord.__post_init__.
LEMMA ImpliesLoad == IInv => RecordsLoad
<1> SUFFICES ASSUME IInv, NEW t \in DOMAIN tasks PROVE Loadable(tasks[t])
  BY DEF RecordsLoad
<1> DEFINE row == tasks[t]
<1>1. /\ row \in TaskRow /\ items[t] \in [0..row.accepted - 1 -> ItemRow]
      /\ Counted(row, items[t]) /\ Judged(row)
  BY GoodTasks DEF Good
<1>2. row.accepted \in Nat /\ row.accepted >= 1
  BY <1>1, SettingsAssumption DEF TaskRow
<1>3. row.processed \in 0..row.accepted
  BY <1>1, <1>2, Partition DEF Counted
<1>4. row.status \in Terminal => row.processed = row.accepted /\ row.completed_at # NoTime
  BY <1>1, <1>2, <1>3 DEF Judged, Running, Terminal
<1> QED  BY <1>1, <1>2, <1>3, <1>4 DEF Loadable, Counted

\* The columns of both tables have their types, and every task exactly the
\* items it accepted, whatever the interleaving of the transactions.
THEOREM TypeCorrect == Spec => []TypeOK
BY Invariance, ImpliesTypeOK, PTL

\* The incremented counters of a task always equal its items' states.
THEOREM CountersCorrect == Spec => []CountersMatchItems
BY Invariance, ImpliesCounters, PTL

\* A terminal status is the truth about the items.
THEOREM StatusCorrect == Spec => []StatusIsTruthful
BY Invariance, ImpliesTruthful, PTL

\* A task is leased exactly while it is processing and not purged.
THEOREM LeaseCorrect == Spec => []LeaseMatchesStatus
BY Invariance, ImpliesLease, PTL

\* Retention erases all of a task's content or none of it.
THEOREM ErasureCorrect == Spec => []ErasureIsComplete
BY Invariance, ImpliesErasure, PTL

\* No sequence of transactions writes a row the record type refuses to load.
THEOREM LoadCorrect == Spec => []RecordsLoad
BY Invariance, ImpliesLoad, PTL

----------------------------------------------------------------------------
(* The steps: what no transaction may do to a task, whoever runs it and       *)
(* however old its timestamp.  A worker's transaction changes one task in     *)
(* place (Touches), retention only purges and deletes; each property is shown *)
(* for the task that changes and holds of the others trivially.               *)

\* Only task t changes; whether it is purged, and its deadline, do not.
Touches(t) ==
    /\ DOMAIN tasks' = DOMAIN tasks
    /\ \A u \in DOMAIN tasks \ {t} : tasks'[u] = tasks[u] /\ items'[u] = items[u]
    /\ tasks'[t].purged = tasks[t].purged
    /\ tasks'[t].expires_at = tasks[t].expires_at
    /\ clock' = clock

\* Deadlines are fixed, no task is accepted as a tombstone, time goes forward.
Timely ==
    /\ \A t \in Kept : tasks'[t].expires_at = tasks[t].expires_at
    /\ \A t \in DOMAIN tasks' \ DOMAIN tasks : ~tasks'[t].purged
    /\ clock' \in Nat /\ clock' >= clock

\* All that a step owes to the tasks.
Rightful ==
    /\ \A t \in Kept : StaysDecided(t) /\ PassedOnExpiry(t)
    /\ \A t \in DOMAIN tasks : LostInTime(t)
    /\ \A t, u \in Kept : BegunInTurn(t, u)
    /\ Timely

\* Only tasks whose time is over have been purged.
Elapsed == \A t \in DOMAIN tasks : tasks[t].purged => tasks[t].expires_at <= clock

----------------------------------------------------------------------------
(* The transactions of workers and submissions.                               *)

\* A transaction that touches one task is rightful if it treats that task so.
LEMMA OneTask ==
    ASSUME IInv, NEW t \in DOMAIN tasks, Touches(t), StaysDecided(t), PassedOnExpiry(t),
           \A u \in DOMAIN tasks : BegunInTurn(t, u)
    PROVE  Rightful
<1>1. Kept = DOMAIN tasks
  BY DEF Kept, Touches
<1>2. ASSUME NEW u \in DOMAIN tasks, u # t
      PROVE  /\ StaysDecided(u) /\ PassedOnExpiry(u)
             /\ \A v \in DOMAIN tasks : BegunInTurn(u, v)
  <2>1. tasks'[u] = tasks[u] /\ items'[u] = items[u]
    BY <1>2 DEF Touches
  <2>2. StaysDecided(u)
    BY <2>1 DEF StaysDecided
  <2>3. PassedOnExpiry(u)
    BY <2>1 DEF PassedOnExpiry
  <2>4. \A v \in DOMAIN tasks : BegunInTurn(u, v)
    BY <2>1 DEF BegunInTurn
  <2> QED  BY <2>2, <2>3, <2>4
<1>3. ASSUME NEW u \in DOMAIN tasks
      PROVE  LostInTime(u)
  BY <1>1, <1>3 DEF Touches, LostInTime
<1>4. Timely
  BY DEF Timely, Touches, Kept, IInv
<1> QED  BY <1>1, <1>2, <1>3, <1>4 DEF Rightful

\* A step that leaves every row as it is, whatever it adds, is rightful.
LEMMA NoRowChanges ==
    ASSUME DOMAIN tasks \subseteq DOMAIN tasks',
           \A t \in DOMAIN tasks : tasks'[t] = tasks[t] /\ items'[t] = items[t],
           \A t \in DOMAIN tasks' \ DOMAIN tasks : ~tasks'[t].purged,
           clock' \in Nat, clock' >= clock
    PROVE  Rightful
<1>1. Kept = DOMAIN tasks
  BY DEF Kept
<1>2. \A t \in DOMAIN tasks : StaysDecided(t)
  BY DEF StaysDecided
<1>3. \A t \in DOMAIN tasks : PassedOnExpiry(t)
  BY DEF PassedOnExpiry
<1>4. \A t \in DOMAIN tasks : LostInTime(t)
  BY DEF LostInTime
<1>5. \A t, u \in DOMAIN tasks : BegunInTurn(t, u)
  BY DEF BegunInTurn
<1>6. Timely
  BY DEF Timely, Kept
<1> QED  BY <1>1, <1>2, <1>3, <1>4, <1>5, <1>6 DEF Rightful

\* claim_task: the lease it takes had expired, the task it begins is the oldest.
LEMMA ClaimRightful ==
    ASSUME IInv, Elapsed, NEW now \in 0..clock, NEW t \in DOMAIN tasks, NEW w \in WorkerId,
           ClaimTask(t, w, now)
    PROVE  Rightful
<1>1. /\ Good(tasks[t], items[t]) /\ Claimable(t, now)
      /\ \A u \in DOMAIN tasks : Claimable(u, now) => tasks[t].created_at <= tasks[u].created_at
      /\ tasks' = [tasks EXCEPT ![t] = Claimed(tasks[t], w, now)]
      /\ items' = items /\ clock' = clock /\ clock \in Nat
  BY DEF IInv, ClaimTask, Oldest
<1>2. tasks'[t] = Claimed(tasks[t], w, now)
  BY <1>1
<1>3. tasks'[t].purged = tasks[t].purged /\ tasks'[t].expires_at = tasks[t].expires_at
  BY <1>1, <1>2 DEF Claimed, Good, TaskRow
<1>4. Touches(t)
  BY <1>1, <1>3 DEF Touches
<1>5. StaysDecided(t)
  BY <1>1 DEF StaysDecided, Claimable, Running, Terminal
<1>6. PassedOnExpiry(t)
  <2>1. tasks[t].lease_owner # NoWorker => /\ tasks[t].lease_expires_at <= now
                                           /\ tasks[t].lease_expires_at \in Nat
    BY <1>1 DEF Claimable, Good, Leased, TaskRow
  <2> QED  BY <1>1, <2>1 DEF PassedOnExpiry
<1>7. ASSUME NEW u \in DOMAIN tasks
      PROVE  BegunInTurn(t, u)
  <2> SUFFICES ASSUME tasks[u].status = "queued", clock < tasks[u].expires_at
               PROVE  tasks[t].created_at <= tasks[u].created_at
    BY DEF BegunInTurn
  <2>1. Good(tasks[u], items[u]) /\ tasks[u].expires_at \in Nat
    BY DEF IInv, Good, TaskRow
  <2>2. tasks[u].lease_owner = NoWorker
    BY <2>1 DEF Good, Leased
  <2>3. tasks[u].expires_at > now
    BY <1>1, <2>1
  <2>4. ~tasks[u].purged
    BY <1>1, <2>1 DEF Elapsed
  <2> QED  BY <1>1, <2>2, <2>3, <2>4 DEF Claimable, Running
<1> QED  BY <1>4, <1>5, <1>6, <1>7, OneTask

\* renew_lease: the task is running and keeps its holder.
LEMMA RenewRightful ==
    ASSUME IInv, NEW now \in 0..clock, NEW t \in DOMAIN tasks, NEW w \in WorkerId,
           RenewLease(t, w, now)
    PROVE  Rightful
<1> DEFINE row == [tasks[t] EXCEPT !.lease_expires_at = now + LeaseSeconds, !.updated_at = now]
<1>1. /\ Good(tasks[t], items[t]) /\ tasks[t].status \in Running
      /\ tasks[t].lease_owner # NoWorker
      /\ tasks' = [tasks EXCEPT ![t] = row] /\ items' = items /\ clock' = clock
  BY SettingsAssumption DEF IInv, RenewLease, Renewable, HoldsLease
<1>2. \A c \in {"purged", "expires_at", "lease_owner", "status"} : tasks'[t][c] = tasks[t][c]
  BY <1>1 DEF Good, TaskRow
<1>3. Touches(t)
  BY <1>1, <1>2 DEF Touches
<1>4. StaysDecided(t)
  BY <1>1 DEF StaysDecided, Running, Terminal
<1>5. PassedOnExpiry(t)
  BY <1>2 DEF PassedOnExpiry
<1>6. \A u \in DOMAIN tasks : BegunInTurn(t, u)
  BY <1>2 DEF BegunInTurn
<1> QED  BY <1>3, <1>4, <1>5, <1>6, OneTask

\* claim_next_item: the item is open, the task row stays as it is.
LEMMA ClaimItemRightful ==
    ASSUME IInv, NEW now \in 0..clock, NEW t \in DOMAIN tasks, NEW w \in WorkerId,
           NEW p \in DOMAIN items[t], ClaimNextItem(t, w, p, now)
    PROVE  Rightful
<1>1. /\ Good(tasks[t], items[t]) /\ p \in Undecided(t)
      /\ tasks' = tasks /\ clock' = clock
      /\ items' = [items EXCEPT ![t] = [items[t] EXCEPT ![p].status = "processing"]]
  BY DEF IInv, ClaimNextItem, LeaseActive, IsNextItem
<1>2. \A q \in DOMAIN items[t] : q # p => items'[t][q] = items[t][q]
  BY <1>1 DEF IInv
<1>3. Touches(t)
  BY <1>1 DEF Touches, IInv
<1>4. StaysDecided(t)
  BY <1>1, <1>2 DEF StaysDecided, Decided
<1>5. PassedOnExpiry(t)
  BY <1>1 DEF PassedOnExpiry
<1>6. \A u \in DOMAIN tasks : BegunInTurn(t, u)
  BY <1>1 DEF BegunInTurn
<1> QED  BY <1>3, <1>4, <1>5, <1>6, OneTask

\* finalize_item: the item it records is open and the task not terminal.
LEMMA FinalizeRightful ==
    ASSUME IInv, NEW now \in 0..clock, NEW t \in DOMAIN tasks, NEW w \in WorkerId,
           NEW p \in DOMAIN items[t], NEW r \in ItemFinal, FinalizeItem(t, w, p, r, now)
    PROVE  Rightful
<1>1. /\ Good(tasks[t], items[t]) /\ tasks[t].lease_owner # NoWorker
      /\ tasks[t].status \notin Terminal /\ items[t][p].status \notin ItemFinal
      /\ tasks' = [tasks EXCEPT ![t] = Advanced(tasks[t], r, now)] /\ clock' = clock
      /\ items' = [items EXCEPT ![t] = Recorded(items[t], p, r)]
  BY SettingsAssumption DEF IInv, FinalizeItem, Mutable, HoldsLease, Recorded
<1>2. /\ \A c \in {"purged", "expires_at"} : tasks'[t][c] = tasks[t][c]
      /\ tasks'[t].lease_owner \in {tasks[t].lease_owner, NoWorker}
  BY <1>1 DEF Good, TaskRow, Advanced
<1>3. p \in Undecided(t)
  BY <1>1 DEF Good, ItemRow, Undecided
<1>4. \A q \in DOMAIN items[t] : q # p => items'[t][q] = items[t][q]
  BY <1>1 DEF IInv, Recorded
<1>5. Touches(t)
  BY <1>1, <1>2 DEF Touches, IInv
<1>6. StaysDecided(t)
  BY <1>1, <1>3, <1>4 DEF StaysDecided, Decided
<1>7. PassedOnExpiry(t)
  BY <1>2 DEF PassedOnExpiry
<1>8. \A u \in DOMAIN tasks : BegunInTurn(t, u)
  BY <1>1 DEF BegunInTurn, Good, Leased
<1> QED  BY <1>5, <1>6, <1>7, <1>8, OneTask

\* fail_task: decided items keep their outcome, the task was not terminal.
LEMMA FailRightful ==
    ASSUME IInv, NEW now \in 0..clock, NEW t \in DOMAIN tasks, NEW w \in WorkerId,
           FailTask(t, w, now)
    PROVE  Rightful
<1>1. /\ Good(tasks[t], items[t]) /\ tasks[t].lease_owner # NoWorker
      /\ tasks[t].status \notin Terminal
      /\ tasks' = [tasks EXCEPT ![t] = GivenUp(tasks[t], now)] /\ clock' = clock
      /\ items' = [items EXCEPT ![t] = AllFailed(items[t])]
  BY SettingsAssumption DEF IInv, FailTask, Mutable, HoldsLease, AllFailed, Open, Undecided
<1>2. /\ \A c \in {"purged", "expires_at"} : tasks'[t][c] = tasks[t][c]
      /\ tasks'[t].lease_owner = NoWorker
  BY <1>1 DEF Good, TaskRow, GivenUp
<1>3. \A q \in Decided(t) : items'[t][q] = items[t][q]
  BY <1>1 DEF IInv, AllFailed, Open, Decided, Undecided
<1>4. Touches(t)
  BY <1>1, <1>2 DEF Touches, IInv
<1>5. StaysDecided(t)
  BY <1>1, <1>3 DEF StaysDecided
<1>6. PassedOnExpiry(t)
  BY <1>2 DEF PassedOnExpiry
<1>7. \A u \in DOMAIN tasks : BegunInTurn(t, u)
  BY <1>1 DEF BegunInTurn, Good, Leased
<1> QED  BY <1>4, <1>5, <1>6, <1>7, OneTask

\* create_task adds a task and leaves the others alone.
LEMMA CreateRightful ==
    ASSUME IInv, NEW now \in 0..clock, NEW t \in TaskId, NEW o \in OwnerId,
           NEW n \in 1..MaxItems, CreateTask(t, o, n, now)
    PROVE  Rightful
<1>1. t \notin DOMAIN tasks /\ DOMAIN items = DOMAIN tasks /\ clock \in Nat
  BY DEF IInv, CreateTask
<1>2. /\ tasks' = [u \in DOMAIN tasks \cup {t} |->
                      IF u = t THEN NewTask(o, n, now) ELSE tasks[u]]
      /\ items' = [u \in DOMAIN tasks \cup {t} |->
                      IF u = t THEN [p \in 0..n - 1 |-> NewItem] ELSE items[u]]
      /\ clock' = clock
  BY <1>1 DEF CreateTask
<1>3. ~NewTask(o, n, now).purged
  BY DEF NewTask
<1> QED  BY <1>1, <1>2, <1>3, NoRowChanges

----------------------------------------------------------------------------
(* Retention.                                                                 *)

\* maintain_retention, with a timestamp not of the future, takes content and
\* rows only when their time has come, and touches no status.
LEMMA RetentionRightful ==
    ASSUME IInv, NEW now \in 0..clock, MaintainRetention(now)
    PROVE  Rightful
<1> DEFINE kept == DOMAIN tasks \ ToDelete(now)
<1>1. /\ DOMAIN tasks' = kept /\ clock' = clock /\ clock \in Nat
      /\ \A t \in kept :
            /\ tasks'[t] = IF t \in ToPurge(now) THEN Purged(tasks[t], now) ELSE tasks[t]
            /\ items'[t] = IF t \in ToPurge(now)
                           THEN [p \in DOMAIN items[t] |-> Erased(items[t][p])]
                           ELSE items[t]
  BY DEF MaintainRetention, IInv
<1>2. Kept = kept
  BY <1>1 DEF Kept
<1>3. \A t \in DOMAIN tasks : Good(tasks[t], items[t]) /\ tasks[t].expires_at \in Nat
  BY DEF IInv, Good, TaskRow
<1> HIDE DEF kept
<1>4. ASSUME NEW t \in kept, t \in ToPurge(now)
      PROVE  /\ tasks'[t].purged /\ tasks'[t].lease_owner = NoWorker
             /\ \A c \in {"status", "processed", "successful", "failed", "completed_at",
                           "expires_at"} : tasks'[t][c] = tasks[t][c]
             /\ \A p \in DOMAIN items[t] : items'[t][p].status = items[t][p].status
  <2>1. tasks[t] \in TaskRow /\ items[t] \in [0..tasks[t].accepted - 1 -> ItemRow]
    BY <1>3, <1>4 DEF ToPurge, Good
  <2>2. tasks'[t] = Purged(tasks[t], now)
        /\ items'[t] = [p \in DOMAIN items[t] |-> Erased(items[t][p])]
    BY <1>1, <1>4
  <2>3. \A p \in DOMAIN items[t] : items'[t][p].status = items[t][p].status
    BY <2>1, <2>2 DEF Erased, ItemRow
  <2> QED  BY <2>1, <2>2, <2>3 DEF Purged, TaskRow
<1>5. ASSUME NEW t \in kept, t \notin ToPurge(now)
      PROVE  tasks'[t] = tasks[t] /\ items'[t] = items[t]
  BY <1>1, <1>5
<1>6. ASSUME NEW t \in kept
      PROVE  /\ StaysDecided(t) /\ PassedOnExpiry(t)
             /\ \A u \in kept : BegunInTurn(t, u)
             /\ tasks'[t].expires_at = tasks[t].expires_at
  <2>1. CASE t \in ToPurge(now)
    BY <1>4, <2>1 DEF StaysDecided, PassedOnExpiry, BegunInTurn, Decided
  <2>2. CASE t \notin ToPurge(now)
    BY <1>5, <2>2 DEF StaysDecided, PassedOnExpiry, BegunInTurn
  <2> QED  BY <2>1, <2>2
<1>7. ASSUME NEW t \in DOMAIN tasks
      PROVE  LostInTime(t)
  <2>1. t \in ToPurge(now) => clock >= tasks[t].expires_at
    BY <1>1, <1>3 DEF ToPurge
  <2>2. t \in ToDelete(now) => clock >= tasks[t].expires_at + TombstoneSeconds
    BY <1>1, <1>3, SettingsAssumption DEF ToDelete
  <2>3. t \in Kept /\ t \notin ToPurge(now) => tasks'[t] = tasks[t]
    BY <1>2, <1>5
  <2>4. t \notin DOMAIN tasks' => t \in ToDelete(now)
    BY <1>1 DEF kept
  <2> QED  BY <2>1, <2>2, <2>3, <2>4 DEF LostInTime
<1>8. Timely
  BY <1>1, <1>2, <1>6 DEF Timely, kept
<1> QED  BY <1>2, <1>6, <1>7, <1>8 DEF Rightful

----------------------------------------------------------------------------

\* Every step of the repository is rightful.
LEMMA StepRightful == IInv /\ Elapsed /\ [Next]_vars => Rightful
<1> SUFFICES ASSUME IInv, Elapsed, [Next]_vars PROVE Rightful
  OBVIOUS
<1>1. ASSUME NEW now \in 0..clock, Submission(now)
      PROVE  Rightful
  BY <1>1, CreateRightful DEF Submission
<1>2. ASSUME NEW now \in 0..clock, NEW w \in WorkerId, NEW t \in DOMAIN tasks, Work(w, t, now)
      PROVE  Rightful
  BY <1>2, ClaimRightful, RenewRightful, ClaimItemRightful, FinalizeRightful, FailRightful
     DEF Work
<1>3. ASSUME NEW now \in 0..clock, MaintainRetention(now)
      PROVE  Rightful
  BY <1>3, RetentionRightful
<1>4. CASE Tick
  BY <1>4, NoRowChanges DEF Tick, IInv
<1>5. CASE UNCHANGED vars
  BY <1>5, NoRowChanges DEF vars, IInv
<1> QED  BY <1>1, <1>2, <1>3, <1>4, <1>5 DEF Next

\* Purges keep Elapsed, since deadlines are fixed and time goes forward.
LEMMA ElapsedKept == IInv /\ IInv' /\ Elapsed /\ [Next]_vars => Elapsed'
<1> SUFFICES ASSUME IInv, IInv', Elapsed, [Next]_vars, NEW t \in DOMAIN tasks', tasks'[t].purged
             PROVE  tasks'[t].expires_at <= clock'
  BY DEF Elapsed
<1>1. Rightful
  BY StepRightful
<1>2. t \in Kept /\ tasks'[t].expires_at = tasks[t].expires_at
  BY <1>1 DEF Rightful, Timely, Kept
<1>3. tasks[t].expires_at \in Nat /\ clock \in Nat
  BY <1>2 DEF Kept, IInv, Good, TaskRow
<1>4. tasks[t].expires_at <= clock
  BY <1>1, <1>2, <1>3 DEF Rightful, LostInTime, Elapsed, Kept
<1> QED  BY <1>1, <1>2, <1>3, <1>4 DEF Rightful, Timely

\* No task of src/src/task_repository.py is purged before its expires_at.
THEOREM PurgedHaveExpired == Spec => []Elapsed
<1>1. Init => Elapsed
  BY DEF Init, Elapsed
<1> QED  BY <1>1, ElapsedKept, Invariance, PTL DEF Spec

\* Every step of every behaviour is rightful.
LEMMA AlwaysRightful == Spec => [][Rightful]_vars
BY StepRightful, Invariance, PurgedHaveExpired, PTL DEF Spec

\* No transaction changes a decided item's status, or the verdict, counters or
\* completion time of a terminal task.
THEOREM DecidedStays == Spec => TerminalIsFinal
<1>1. Rightful => \A t \in Kept : StaysDecided(t)
  BY DEF Rightful
<1> QED  BY <1>1, AlwaysRightful, PTL DEF TerminalIsFinal

\* No transaction erases a payload before expires_at, or a row before the end of
\* its tombstone period, though its timestamp may be of the past.
THEOREM RetentionInTime == Spec => NothingLostEarly
<1>1. Rightful => \A t \in DOMAIN tasks : LostInTime(t)
  BY DEF Rightful
<1> QED  BY <1>1, AlwaysRightful, PTL DEF NothingLostEarly

\* No transaction gives a task's unexpired lease to another worker.
THEOREM LeasesRespected == Spec => LeaseTakenOnlyExpired
<1>1. Rightful => \A t \in Kept : PassedOnExpiry(t)
  BY DEF Rightful
<1> QED  BY <1>1, AlwaysRightful, PTL DEF LeaseTakenOnlyExpired

\* No transaction begins a task before an older one that is still waiting.
THEOREM ClaimedInOrder == Spec => ClaimsInOrder
<1>1. Rightful => \A t, u \in Kept : BegunInTurn(t, u)
  BY DEF Rightful
<1> QED  BY <1>1, AlwaysRightful, PTL DEF ClaimsInOrder
=============================================================================
