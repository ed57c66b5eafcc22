-------------------------- MODULE ModelStoreProofs --------------------------
(* Proofs about ModelStore, for any number of processes, names and contents,  *)
(* and whatever fails or crashes: the invariants of the catalog and of the    *)
(* artifact files, and that the store implements ModelCatalog.                *)
(* The argument: a frame between BEGIN IMMEDIATE and the commit belongs to    *)
(* the one process that has the write lock (Framed), so what it read then is  *)
(* still true when it inserts (Unused); rows are never removed, so what it    *)
(* knows of earlier ones stays true for ever (Recognised, AnswersOwnVersion). *)
(* Of what the store does not keep to in general (ArtifactsPresent,           *)
(* NoOrphans): when it does, with one process (Solo), with versions the store *)
(* chooses (Numbered), or without crashes.                                    *)
EXTENDS ModelStore, FiniteSetTheorems, TLAPS

\* A frame has what its step needs; transactions under way hold the lock.
FramedAt(p) ==
    /\ frame[p].step # "idle" => frame[p].name \in Name /\ frame[p].digest \in Digest
    /\ frame[p].step \in {"place", "insert", "commit"} => lock = p /\ frame[p].assigned # 0
    /\ frame[p].step \in {"commit", "answer"} => frame[p].assigned \in 1..MaxInt

\* A version the store has chosen is not there yet, nor is one about to be committed.
UnusedAt(p) ==
    /\ frame[p].step \in {"place", "insert"} /\ frame[p].version = NextVersion
          => Key(p) \notin DOMAIN versions
    /\ frame[p].step = "commit" => Key(p) \notin DOMAIN versions

\* The artifact of a registration that may yet commit is there or was undercut.
KeptAt(p) == frame[p].step \in {"insert", "commit"} => frame[p].digest \in files \cup undercut

\* A content that was known then is known now.
RecognisedAt(p) == frame[p].known => frame[p].digest \in artifacts

AnsweredAt(p) ==
    frame[p].step = "answer" => /\ Key(p) \in DOMAIN versions
                                /\ versions[Key(p)].digest = frame[p].digest

\* All that holds of one process ...
Sound(p) == FramedAt(p) /\ UnusedAt(p) /\ KeptAt(p) /\ RecognisedAt(p) /\ AnsweredAt(p)

\* ... and the inductive invariant.
StoreInv ==
    /\ StoreTypeOK
    /\ \A p \in Process : Sound(p)
    /\ CatalogIsWhole
    /\ ActiveIsLastActivated
    /\ LostOnlyToCleanup
    /\ OrphansAreStray
    /\ UploadsAccountedFor

----------------------------------------------------------------------------

\* Where nothing is registered, nothing is wrong.
LEMMA InitSound == StoreInit => StoreInv
<1> SUFFICES ASSUME StoreInit PROVE StoreInv
  OBVIOUS
<1> USE StoreAssumption DEF StoreInit
<1>1. StoreTypeOK
  BY DEF StoreTypeOK, Frame, Idle, Step, NextVersion, Row
<1>2. ASSUME NEW p \in Process
      PROVE  Sound(p)
  BY <1>2 DEF Sound, FramedAt, UnusedAt, KeptAt, RecognisedAt, AnsweredAt, Idle
<1>3. CatalogIsWhole
  BY DEF CatalogIsWhole
<1>4. ActiveIsLastActivated
  BY DEF ActiveIsLastActivated, ActiveVersions, VersionsOf, IsLastActivated
<1>5. LostOnlyToCleanup /\ OrphansAreStray
  BY DEF LostOnlyToCleanup, OrphansAreStray
<1>6. UploadsAccountedFor
  <2> DEFINE H == {p \in Process : HasUpload(p)}
  <2>1. H = {}
    BY DEF HasUpload, Idle
  <2>2. Cardinality(H) = 0
    BY <2>1, FS_EmptySet
  <2>3. uploads = Cardinality(H) + forgotten
    BY <2>2
  <2> QED  BY <2>3 DEF UploadsAccountedFor
<1> QED  BY <1>1, <1>2, <1>3, <1>4, <1>5, <1>6 DEF StoreInv

----------------------------------------------------------------------------
(* Frames: a step of p moves p's frame and no other.                          *)

Steps(p) ==
    \/ Registration(p)
    \/ \E m \in Name, v \in 1..MaxInt : Activate(p, m, v)
    \/ Answer(p)
    \/ Crash(p)

Moved(p) ==
    /\ frame'[p] \in Frame
    /\ frame' = [frame EXCEPT ![p] = frame'[p]]

\* A step of p changes the frame of p alone.
LEMMA FrameMoves ==
    ASSUME StoreInv, NEW p \in Process, Steps(p)
    PROVE  Moved(p)
<1>0. frame[p] \in Frame /\ frame \in [Process -> Frame] /\ Idle \in Frame
  BY StoreAssumption DEF StoreInv, StoreTypeOK, Frame, Idle, Step, NextVersion
<1>1. CASE StageRefused(p) \/ BeginTimesOut(p) \/ Uncaught(p) \/ Undo(p)
           \/ Answer(p) \/ Crash(p)
  BY <1>0, <1>1
     DEF Moved, StageRefused, BeginTimesOut, Uncaught, Undo, Answer, Crash, Over
<1>2. CASE Staged(p) \/ Insert(p) \/ InsertDuplicate(p) \/ Commit(p) \/ CommitFails(p)
  BY <1>0, <1>2
     DEF Moved, Staged, Insert, InsertDuplicate, Commit, CommitFails, Goto, Frame, Step
<1>3. CASE Stage(p)
  <2>1. PICK m \in Name, v \in Requested \cup {NextVersion}, d \in Digest :
           frame' = [frame EXCEPT ![p] = [Idle EXCEPT !.step = "stage", !.name = m,
                                                      !.version = v, !.digest = d]]
    BY <1>3 DEF Stage
  <2>2. [Idle EXCEPT !.step = "stage", !.name = m, !.version = v, !.digest = d] \in Frame
    <3>1. v \in Nat /\ m \in Name \cup {NoName} /\ d \in Digest \cup {NoDigest}
      BY StoreAssumption DEF NextVersion
    <3>2. \A f \in Frame : [f EXCEPT !.step = "stage", !.name = m] \in Frame
      BY <3>1 DEF Frame, Step
    <3>3. \A f \in Frame : [f EXCEPT !.version = v, !.digest = d] \in Frame
      BY <3>1 DEF Frame, Step
    <3> QED  BY <1>0, <3>2, <3>3
  <2> QED  BY <1>0, <2>1, <2>2 DEF Moved
<1>4. CASE Begin(p)
  <2>1. PICK n \in (1..MaxInt + 1) \cup Requested :
           frame' = [frame EXCEPT ![p] = [@ EXCEPT !.step = "place", !.assigned = n,
                                                !.known = frame[p].digest \in artifacts]]
    BY <1>4 DEF Begin
  <2>2. n \in Nat
    BY StoreAssumption
  <2> DEFINE b == frame[p].digest \in artifacts
  <2>3. [frame[p] EXCEPT !.step = "place", !.assigned = n, !.known = b] \in Frame
    <3>1. b \in BOOLEAN
      OBVIOUS
    <3> HIDE DEF b
    <3> QED  BY <1>0, <2>2, <3>1 DEF Frame, Step
  <2> QED  BY <1>0, <2>1, <2>3 DEF Moved
<1>5. CASE Place(p)
  BY <1>0, <1>5 DEF Moved, Place, Frame, Step
<1>6. ASSUME NEW m \in Name, NEW v \in 1..MaxInt, Activate(p, m, v)
      PROVE  Moved(p)
  <2>1. versions[<<m, v>>].digest \in Digest
    BY <1>6 DEF StoreInv, StoreTypeOK, Row, Activate
  <2>2. [Idle EXCEPT !.step = "answer", !.name = m, !.assigned = v,
                     !.digest = versions[<<m, v>>].digest] \in Frame
    <3>1. v \in Nat /\ m \in Name \cup {NoName}
      BY StoreAssumption
    <3>2. \A f \in Frame : [f EXCEPT !.step = "answer", !.name = m] \in Frame
      BY <3>1 DEF Frame, Step
    <3>3. \A f \in Frame :
             [f EXCEPT !.assigned = v, !.digest = versions[<<m, v>>].digest] \in Frame
      BY <2>1, <3>1 DEF Frame, Step
    <3> QED  BY <1>0, <3>2, <3>3
  <2> QED  BY <1>0, <1>6, <2>2 DEF Moved, Activate
<1> QED  BY <1>1, <1>2, <1>3, <1>4, <1>5, <1>6 DEF Steps, Registration

----------------------------------------------------------------------------
(* Upload files.                                                              *)

\* Every upload file is still accounted for when p's request gets or gives up one.
LEMMA UploadsStay ==
    ASSUME StoreInv, NEW p \in Process, Moved(p),
           \/ /\ HasUpload(p)' <=> HasUpload(p)
              /\ uploads' = uploads /\ forgotten' = forgotten
           \/ /\ ~HasUpload(p) /\ HasUpload(p)'
              /\ uploads' = uploads + 1 /\ forgotten' = forgotten
           \/ /\ HasUpload(p) /\ ~HasUpload(p)'
              /\ uploads' = uploads - 1 /\ forgotten' = forgotten
           \/ /\ HasUpload(p) /\ ~HasUpload(p)'
              /\ uploads' = uploads /\ forgotten' = forgotten + 1
    PROVE  UploadsAccountedFor' /\ uploads' \in Nat /\ forgotten' \in Nat
<1> DEFINE H == {q \in Process : HasUpload(q)}
<1>1. /\ uploads = Cardinality(H) + forgotten /\ uploads \in Nat /\ forgotten \in Nat
      /\ frame \in [Process -> Frame]
  BY DEF StoreInv, StoreTypeOK, UploadsAccountedFor
<1>2. IsFiniteSet(H) /\ Cardinality(H) \in Nat
  BY StoreAssumption, FS_Subset, FS_CardinalityType
<1>3. \A q \in Process \ {p} : HasUpload(q)' <=> HasUpload(q)
  BY <1>1 DEF Moved, HasUpload
<1>4. CASE HasUpload(p)' <=> HasUpload(p)
  <2>1. H' = H
    BY <1>3, <1>4
  <2> QED  BY <1>1, <1>2, <1>4, <2>1 DEF UploadsAccountedFor
<1>5. CASE ~HasUpload(p) /\ HasUpload(p)'
  <2>1. H' = H \cup {p} /\ p \notin H
    BY <1>3, <1>5
  <2>2. Cardinality(H') = Cardinality(H) + 1
    BY <1>2, <2>1, FS_AddElement
  <2> QED  BY <1>1, <1>2, <1>5, <2>2 DEF UploadsAccountedFor
<1>6. CASE HasUpload(p) /\ ~HasUpload(p)'
  <2>1. H' = H \ {p} /\ p \in H
    BY <1>3, <1>6
  <2>2. Cardinality(H') = Cardinality(H) - 1 /\ Cardinality(H') \in Nat
    BY <1>2, <2>1, FS_RemoveElement, FS_CardinalityType
  <2> QED  BY <1>1, <1>2, <1>6, <2>2 DEF UploadsAccountedFor
<1> QED  BY <1>4, <1>5, <1>6

\* Every step keeps the count of upload files.
LEMMA UploadsCounted ==
    ASSUME StoreInv, NEW p \in Process, Steps(p)
    PROVE  UploadsAccountedFor' /\ uploads' \in Nat /\ forgotten' \in Nat
<1>0. Moved(p) /\ frame \in [Process -> Frame] /\ frame[p] \in Frame
  BY FrameMoves DEF StoreInv, StoreTypeOK
<1> USE DEF HasUpload
<1>1. CASE Stage(p)
  BY <1>0, <1>1, UploadsStay DEF Stage, Idle, ghosts
<1>2. CASE StageRefused(p) \/ BeginTimesOut(p)
  BY <1>0, <1>2, UploadsStay DEF StageRefused, BeginTimesOut, Over, Idle, ghosts
<1>7. CASE Place(p)
  BY <1>0, <1>7, UploadsStay DEF Place, ghosts
<1>3. CASE Crash(p)
  BY <1>0, <1>3, UploadsStay DEF Crash, Over, Idle
<1>4. CASE Staged(p) \/ Insert(p) \/ InsertDuplicate(p) \/ Commit(p) \/ CommitFails(p)
  <2>1. HasUpload(p)' <=> HasUpload(p)
    <3>1. CASE Staged(p)
      BY <1>0, <3>1 DEF Staged, Goto
    <3>2. CASE Insert(p) \/ InsertDuplicate(p)
      BY <1>0, <3>2 DEF Insert, InsertDuplicate, Goto, Frame
    <3>3. CASE Commit(p) \/ CommitFails(p)
      BY <1>0, <3>3 DEF Commit, CommitFails, Goto, Frame
    <3> QED  BY <1>4, <3>1, <3>2, <3>3
  <2> QED  BY <1>0, <1>4, <2>1, UploadsStay
              DEF Staged, Insert, InsertDuplicate, Commit, CommitFails, ghosts
<1>8. CASE Begin(p)
  <2>1. HasUpload(p)' <=> HasUpload(p)
    BY <1>0, <1>8 DEF Begin
  <2> QED  BY <1>0, <1>8, <2>1, UploadsStay DEF Begin, ghosts
<1>5. CASE Uncaught(p) \/ Undo(p) \/ Answer(p)
  BY <1>0, <1>5, UploadsStay DEF Uncaught, Undo, Answer, Over, Idle, ghosts
<1>6. ASSUME NEW m \in Name, NEW v \in 1..MaxInt, Activate(p, m, v)
      PROVE  UploadsAccountedFor' /\ uploads' \in Nat /\ forgotten' \in Nat
  BY <1>0, <1>6, UploadsStay DEF Activate, Idle, ghosts
<1> QED  BY <1>1, <1>2, <1>3, <1>4, <1>5, <1>6, <1>7, <1>8 DEF Steps, Registration

----------------------------------------------------------------------------
(* Types, and the frame of the process that moves.                            *)

\* Every step keeps the types.
LEMMA KeepsTypes ==
    ASSUME StoreInv, NEW p \in Process, Steps(p)
    PROVE  StoreTypeOK'
<1>0. /\ StoreTypeOK /\ FramedAt(p) /\ frame[p] \in Frame
      /\ frame' \in [Process -> Frame] /\ uploads' \in Nat /\ forgotten' \in Nat
  BY FrameMoves, UploadsCounted DEF StoreInv, Sound, Moved, StoreTypeOK
<1> USE <1>0, StoreAssumption DEF StoreTypeOK, FramedAt, catalog, ghosts
<1>1. CASE Staged(p) \/ StageRefused(p) \/ Begin(p) \/ BeginTimesOut(p) \/ Answer(p)
  BY <1>1 DEF Staged, StageRefused, Begin, BeginTimesOut, Answer
<1>6. CASE Stage(p)
  BY <1>6 DEF Stage
<1>2. CASE Place(p) \/ Insert(p) \/ InsertDuplicate(p) \/ Uncaught(p) \/ CommitFails(p)
           \/ Undo(p)
  BY <1>2 DEF Place, Insert, InsertDuplicate, Uncaught, CommitFails, Undo, Goto, Over
<1>3. CASE Crash(p)
  BY <1>3 DEF Crash, Over, HasPlaced
<1>4. CASE Commit(p)
  <2>1. /\ Key(p) \in Name \X (1..MaxInt) /\ frame[p].digest \in Digest
        /\ versions' = Committed(frame[p].name, frame[p].assigned, frame[p].digest)
    BY <1>4 DEF Commit, Key
  <2>2. /\ DOMAIN versions' = DOMAIN versions \cup {Key(p)}
        /\ \A k \in DOMAIN versions' : versions'[k] \in Row
    BY <2>1 DEF Committed, Key, Row
  <2>3. versions' \in [DOMAIN versions' -> Row]
    BY <2>1, <2>2 DEF Committed
  <2> QED  BY <1>4, <2>1, <2>2, <2>3 DEF Commit
<1>5. ASSUME NEW m \in Name, NEW v \in 1..MaxInt, Activate(p, m, v)
      PROVE  StoreTypeOK'
  <2>1. versions' = Activated(m, v) /\ history' = Append(history, <<m, v>>)
    BY <1>5 DEF Activate
  <2>2. DOMAIN versions' = DOMAIN versions /\ \A k \in DOMAIN versions' : versions'[k] \in Row
    BY <2>1 DEF Activated, Row
  <2>3. versions' \in [DOMAIN versions' -> Row]
    BY <2>1, <2>2 DEF Activated
  <2>4. history' \in Seq(Name \X (1..MaxInt))
    BY <2>1
  <2> QED  BY <1>5, <2>2, <2>3, <2>4 DEF Activate
<1> QED  BY <1>1, <1>2, <1>3, <1>4, <1>5, <1>6 DEF Steps, Registration

\* What a step does to the rows: they stay, with their content, and the key that
\* a commit adds is new.
Grown(p) ==
    /\ \A k \in DOMAIN versions : k \in DOMAIN versions' /\ versions'[k].digest = versions[k].digest
    /\ artifacts \subseteq artifacts'
    /\ DOMAIN versions' # DOMAIN versions => lock = p
    /\ lock' = lock \/ lock = NoProcess \/ lock = p

\* Rows are added, and their contents never change.
LEMMA RowsGrow ==
    ASSUME StoreInv, NEW p \in Process, Steps(p)
    PROVE  Grown(p)
<1>0. StoreTypeOK /\ FramedAt(p) /\ UnusedAt(p)
  BY DEF StoreInv, Sound
<1> USE DEF Grown, catalog
<1>1. CASE Stage(p) \/ Staged(p) \/ StageRefused(p) \/ Begin(p) \/ BeginTimesOut(p) \/ Answer(p)
           \/ Place(p) \/ Insert(p) \/ Undo(p) \/ Crash(p)
  BY <1>1 DEF Stage, Staged, StageRefused, Begin, BeginTimesOut, Answer, Place, Insert, Undo, Crash
<1>2. CASE InsertDuplicate(p) \/ Uncaught(p) \/ CommitFails(p)
  BY <1>0, <1>2 DEF InsertDuplicate, Uncaught, CommitFails, FramedAt
<1>3. CASE Commit(p)
  BY <1>0, <1>3 DEF Commit, Committed, FramedAt, UnusedAt, Key
<1>4. ASSUME NEW m \in Name, NEW v \in 1..MaxInt, Activate(p, m, v)
      PROVE  Grown(p)
  BY <1>0, <1>4 DEF Activate, Activated, StoreTypeOK, Row
<1> QED  BY <1>1, <1>2, <1>3, <1>4 DEF Steps, Registration

\* The process that moves stays sound.
LEMMA MoverSound ==
    ASSUME StoreInv, NEW p \in Process, Steps(p)
    PROVE  Sound(p)'
<1>0. /\ Sound(p) /\ frame[p] \in Frame /\ frame \in [Process -> Frame]
      /\ StoreTypeOK
  BY DEF StoreInv, StoreTypeOK
<1> USE <1>0, StoreAssumption
        DEF Sound, FramedAt, UnusedAt, KeptAt, RecognisedAt, AnsweredAt, Key
<1>1. CASE StageRefused(p) \/ BeginTimesOut(p) \/ Uncaught(p) \/ Undo(p)
           \/ Answer(p) \/ Crash(p)
  BY <1>1 DEF StageRefused, BeginTimesOut, Uncaught, Undo, Answer, Crash, Over, Idle
<1>2. CASE Stage(p)
  BY <1>2 DEF Stage, Idle
<1>3. CASE Staged(p) \/ InsertDuplicate(p) \/ CommitFails(p)
  BY <1>3 DEF Staged, InsertDuplicate, CommitFails, Goto, Frame, catalog
<1>4. CASE Begin(p)
  <2>1. PICK n \in (1..MaxInt + 1) \cup Requested :
           /\ Assigned(frame[p].name, frame[p].version, n)
           /\ frame' = [frame EXCEPT ![p] = [@ EXCEPT !.step = "place", !.assigned = n,
                                                !.known = frame[p].digest \in artifacts]]
    BY <1>4 DEF Begin
  <2>2. frame[p].version = NextVersion => <<frame[p].name, n>> \notin DOMAIN versions
    BY <2>1 DEF Assigned, VersionsOf, StoreTypeOK
  <2>3. n # 0
    BY <2>1
  <2>4. /\ frame'[p] = [frame[p] EXCEPT !.step = "place", !.assigned = n,
                                        !.known = frame[p].digest \in artifacts]
        /\ lock' = p /\ artifacts' = artifacts /\ versions' = versions
    BY <1>4, <2>1 DEF Begin, catalog
  <2>5. /\ frame'[p].step = "place" /\ frame'[p].assigned = n
        /\ frame'[p].known = (frame[p].digest \in artifacts)
        /\ frame'[p].name = frame[p].name /\ frame'[p].digest = frame[p].digest
        /\ frame'[p].version = frame[p].version
    BY <2>4 DEF Frame
  <2>6. FramedAt(p)' /\ UnusedAt(p)' /\ RecognisedAt(p)'
    BY <1>4, <2>2, <2>3, <2>4, <2>5 DEF Begin
  <2> QED  BY <2>5, <2>6
<1>5. CASE Place(p)
  BY <1>5 DEF Place, Frame, catalog
<1>6. CASE Insert(p)
  BY <1>6 DEF Insert, Goto, Frame, catalog, ghosts
<1>7. CASE Commit(p)
  BY <1>7 DEF Commit, Committed, Goto, Frame
<1>8. ASSUME NEW m \in Name, NEW v \in 1..MaxInt, Activate(p, m, v)
      PROVE  Sound(p)'
  BY <1>8 DEF Activate, Activated, Idle, StoreTypeOK, Row
<1> QED  BY <1>1, <1>2, <1>3, <1>4, <1>5, <1>6, <1>7, <1>8 DEF Steps, Registration

\* So do the others: the rows they know stay, the lock they hold keeps the keys
\* as they are, and a file taken from under them is recorded.
LEMMA OthersSound ==
    ASSUME StoreInv, NEW p \in Process, NEW q \in Process \ {p}, Steps(p)
    PROVE  Sound(q)'
<1>1. Sound(q) /\ frame'[q] = frame[q] /\ Grown(p)
  BY FrameMoves, RowsGrow DEF StoreInv, StoreTypeOK, Moved
<1>2. FramedAt(q)' /\ UnusedAt(q)' /\ RecognisedAt(q)' /\ AnsweredAt(q)'
  BY <1>1, StoreAssumption
     DEF Sound, Grown, FramedAt, UnusedAt, RecognisedAt, AnsweredAt, Key
<1>3. KeptAt(q)'
  <2>1. CASE files \subseteq files' /\ undercut \subseteq undercut'
    BY <1>1, <2>1 DEF Sound, KeptAt
  <2>2. CASE Undo(p)
    BY <1>1, <2>2 DEF Sound, KeptAt, Undo, Removes, Shared
  <2>3. Undo(p) \/ (files \subseteq files' /\ undercut \subseteq undercut')
    <3>1. Registration(p) => Undo(p) \/ (files \subseteq files' /\ undercut' = undercut)
      <4>1. Stage(p) \/ Staged(p) \/ StageRefused(p) \/ Begin(p) \/ BeginTimesOut(p)
               => files' = files /\ undercut' = undercut
        BY DEF Stage, Staged, StageRefused, Begin, BeginTimesOut, ghosts
      <4>2. Place(p) => files \subseteq files' /\ undercut' = undercut
        BY DEF Place, ghosts
      <4>3. Insert(p) \/ InsertDuplicate(p) \/ Uncaught(p) \/ Commit(p) \/ CommitFails(p)
               => files' = files /\ undercut' = undercut
        BY DEF Insert, InsertDuplicate, Uncaught, Commit, CommitFails, ghosts
      <4> QED  BY <4>1, <4>2, <4>3 DEF Registration
    <3>2. \A m \in Name, v \in 1..MaxInt :
             Activate(p, m, v) => files' = files /\ undercut' = undercut
      BY DEF Activate, ghosts
    <3>3. Answer(p) \/ Crash(p) => files' = files /\ undercut' = undercut
      BY DEF Answer, Crash, ghosts
    <3> QED  BY <3>1, <3>2, <3>3 DEF Steps
  <2> QED  BY <2>1, <2>2, <2>3
<1> QED  BY <1>2, <1>3 DEF Sound

----------------------------------------------------------------------------
(* The catalog.                                                               *)

\* A commit adds its version as a registered one with the content it uploaded.
CommitEffect(p) ==
    /\ Key(p) \in (Name \X (1..MaxInt)) \ DOMAIN versions
    /\ frame[p].digest \in Digest
    /\ DOMAIN versions' = DOMAIN versions \cup {Key(p)}
    /\ \A k \in DOMAIN versions : versions'[k] = versions[k]
    /\ versions'[Key(p)] = [status |-> "registered", digest |-> frame[p].digest]

\* What a commit does to the rows.
LEMMA CommitAdds ==
    ASSUME StoreInv, NEW p \in Process, Commit(p)
    PROVE  CommitEffect(p)
<1>1. FramedAt(p) /\ UnusedAt(p) /\ StoreTypeOK
  BY DEF StoreInv, Sound
<1>2. /\ Key(p) \in (Name \X (1..MaxInt)) \ DOMAIN versions
      /\ frame[p].digest \in Digest
  BY <1>1 DEF Commit, FramedAt, UnusedAt, Key
<1> QED  BY <1>2 DEF CommitEffect, Commit, Committed, Key

\* An activation changes only what is active.
ActivateEffect(m, v) ==
    /\ DOMAIN versions' = DOMAIN versions
    /\ \A k \in DOMAIN versions :
          /\ versions'[k].digest = versions[k].digest
          /\ versions'[k].status =
                IF k = <<m, v>> THEN "active"
                ELSE IF k[1] = m THEN "registered" ELSE versions[k].status

\* What an activation does to the rows.
LEMMA ActivateSets ==
    ASSUME StoreInv, NEW p \in Process, NEW m \in Name, NEW v \in 1..MaxInt, Activate(p, m, v)
    PROVE  ActivateEffect(m, v)
BY DEF StoreInv, StoreTypeOK, Row, Activate, Activated, ActivateEffect

\* Every other step leaves the rows and the history alone.
LEMMA OthersLeaveRows ==
    ASSUME NEW p \in Process, Steps(p), ~Commit(p),
           \A m \in Name, v \in 1..MaxInt : ~Activate(p, m, v)
    PROVE  UNCHANGED catalog
<1>1. CASE Stage(p) \/ Staged(p) \/ StageRefused(p) \/ Begin(p) \/ BeginTimesOut(p) \/ Place(p)
  BY <1>1 DEF Stage, Staged, StageRefused, Begin, BeginTimesOut, Place, catalog
<1>2. CASE Insert(p) \/ InsertDuplicate(p) \/ Uncaught(p) \/ CommitFails(p) \/ Undo(p)
  BY <1>2 DEF Insert, InsertDuplicate, Uncaught, CommitFails, Undo, catalog
<1>3. CASE Answer(p) \/ Crash(p)
  BY <1>3 DEF Answer, Crash, catalog
<1> QED  BY <1>1, <1>2, <1>3 DEF Steps, Registration

\* A version, its model and its artifact get their rows together.
LEMMA KeepsWhole ==
    ASSUME StoreInv, NEW p \in Process, Steps(p)
    PROVE  CatalogIsWhole'
<1>0. CatalogIsWhole
  BY DEF StoreInv
<1>1. CASE Commit(p)
  <2>1. CommitEffect(p) /\ models' = models \cup {frame[p].name}
        /\ artifacts' = artifacts \cup {frame[p].digest}
    BY <1>1, CommitAdds DEF Commit
  <2>2. models' = {k[1] : k \in DOMAIN versions'}
    BY <1>0, <2>1 DEF CatalogIsWhole, CommitEffect, Key
  <2>3. artifacts' = {versions'[k].digest : k \in DOMAIN versions'}
    BY <1>0, <2>1 DEF CatalogIsWhole, CommitEffect
  <2> QED  BY <2>2, <2>3 DEF CatalogIsWhole
<1>2. ASSUME NEW m \in Name, NEW v \in 1..MaxInt, Activate(p, m, v)
      PROVE  CatalogIsWhole'
  <2>1. ActivateEffect(m, v) /\ models' = models /\ artifacts' = artifacts
    BY <1>2, ActivateSets DEF Activate
  <2> QED  BY <1>0, <2>1 DEF CatalogIsWhole, ActivateEffect
<1>3. CASE UNCHANGED catalog
  BY <1>0, <1>3 DEF CatalogIsWhole, catalog
<1> QED  BY <1>1, <1>2, <1>3, OthersLeaveRows

\* A new version is not active, and an activation replaces the active one.
LEMMA KeepsLastActivated ==
    ASSUME StoreInv, NEW p \in Process, Steps(p)
    PROVE  ActiveIsLastActivated'
<1>0. ActiveIsLastActivated /\ StoreTypeOK
  BY DEF StoreInv
<1> SUFFICES ASSUME NEW n \in Name, NEW w \in 1..MaxInt
             PROVE  (w \in ActiveVersions(n))' <=> IsLastActivated(n, w)'
  BY DEF ActiveIsLastActivated
<1>1. w \in ActiveVersions(n) <=> /\ <<n, w>> \in DOMAIN versions
                                  /\ versions[<<n, w>>].status = "active"
  BY DEF ActiveVersions, VersionsOf
<1>2. (w \in ActiveVersions(n))' <=> /\ <<n, w>> \in DOMAIN versions'
                                     /\ versions'[<<n, w>>].status = "active"
  BY DEF ActiveVersions, VersionsOf
<1>3. w \in ActiveVersions(n) <=> IsLastActivated(n, w)
  BY <1>0 DEF ActiveIsLastActivated
<1>4. CASE Commit(p)
  <2>1. CommitEffect(p) /\ history' = history
    BY <1>4, CommitAdds DEF Commit
  <2>2. IsLastActivated(n, w)' <=> IsLastActivated(n, w)
    BY <2>1 DEF IsLastActivated
  <2> QED  BY <1>1, <1>2, <1>3, <2>1, <2>2 DEF CommitEffect
<1>5. ASSUME NEW m \in Name, NEW v \in 1..MaxInt, Activate(p, m, v)
      PROVE  (w \in ActiveVersions(n))' <=> IsLastActivated(n, w)'
  <2>1. /\ ActivateEffect(m, v) /\ history' = Append(history, <<m, v>>)
        /\ <<m, v>> \in DOMAIN versions
    BY <1>5, ActivateSets DEF Activate
  <2>2. /\ Len(history) \in Nat /\ DOMAIN history = 1..Len(history)
        /\ DOMAIN history' = 1..(Len(history) + 1)
        /\ \A i \in DOMAIN history : history'[i] = history[i]
        /\ history'[Len(history) + 1] = <<m, v>>
    BY <1>0, <2>1 DEF StoreTypeOK
  <2>3. CASE n = m /\ w = v
    <3>1. IsLastActivated(n, w)'
      BY <2>2, <2>3 DEF IsLastActivated
    <3> QED  BY <1>2, <2>1, <2>3, <3>1 DEF ActivateEffect
  <2>4. CASE n = m /\ w # v
    <3>1. ~IsLastActivated(n, w)'
      BY <2>2, <2>4 DEF IsLastActivated
    <3> QED  BY <1>2, <2>1, <2>4, <3>1 DEF ActivateEffect
  <2>5. CASE n # m
    <3>1. IsLastActivated(n, w)' <=> IsLastActivated(n, w)
      BY <2>2, <2>5 DEF IsLastActivated
    <3> QED  BY <1>1, <1>2, <1>3, <2>1, <2>5, <3>1 DEF ActivateEffect
  <2> QED  BY <2>3, <2>4, <2>5
<1>6. CASE UNCHANGED catalog
  BY <1>3, <1>6 DEF catalog, ActiveVersions, VersionsOf, IsLastActivated
<1> QED  BY <1>4, <1>5, <1>6, OthersLeaveRows

----------------------------------------------------------------------------
(* The files.                                                                 *)

\* A committed artifact is there, or was undercut.
LEMMA KeepsFiles ==
    ASSUME StoreInv, NEW p \in Process, Steps(p)
    PROVE  LostOnlyToCleanup'
<1>0. LostOnlyToCleanup /\ CatalogIsWhole /\ KeptAt(p)
  BY DEF StoreInv, Sound
<1>1. CASE Commit(p)
  <2>1. CommitEffect(p) /\ files' = files /\ undercut' = undercut
    BY <1>1, CommitAdds DEF Commit, ghosts
  <2>2. frame[p].digest \in files \cup undercut
    BY <1>0, <1>1 DEF Commit, KeptAt
  <2> QED  BY <1>0, <2>1, <2>2 DEF LostOnlyToCleanup, CommitEffect
<1>2. ASSUME NEW m \in Name, NEW v \in 1..MaxInt, Activate(p, m, v)
      PROVE  LostOnlyToCleanup'
  <2>1. ActivateEffect(m, v) /\ files' = files /\ undercut' = undercut
    BY <1>2, ActivateSets DEF Activate, ghosts
  <2> QED  BY <1>0, <2>1 DEF LostOnlyToCleanup, ActivateEffect
<1>3. CASE Undo(p)
  BY <1>0, <1>3 DEF Undo, Removes, Shared, LostOnlyToCleanup, CatalogIsWhole, catalog
<1>4. CASE UNCHANGED catalog /\ ~Undo(p)
  <2>1. files \subseteq files' /\ undercut' = undercut
    <3>1. CASE Stage(p) \/ Staged(p) \/ StageRefused(p) \/ Begin(p) \/ BeginTimesOut(p) \/ Place(p)
      BY <3>1 DEF Stage, Staged, StageRefused, Begin, BeginTimesOut, Place, ghosts
    <3>2. CASE Insert(p) \/ InsertDuplicate(p) \/ Uncaught(p) \/ Commit(p) \/ CommitFails(p)
      BY <3>2 DEF Insert, InsertDuplicate, Uncaught, Commit, CommitFails, ghosts
    <3>3. CASE Answer(p) \/ Crash(p)
      BY <3>3 DEF Answer, Crash, ghosts
    <3>4. ASSUME NEW m \in Name, NEW v \in 1..MaxInt, Activate(p, m, v)
          PROVE  files' = files /\ undercut' = undercut
      BY <3>4 DEF Activate, ghosts
    <3> QED  BY <1>4, <3>1, <3>2, <3>3, <3>4 DEF Steps, Registration
  <2> QED  BY <1>0, <1>4, <2>1 DEF LostOnlyToCleanup, catalog
<1> QED  BY <1>1, <1>2, <1>3, <1>4, OthersLeaveRows

\* Whoever places a file, or gives one up, is known for it.
LEMMA KeepsOrphans ==
    ASSUME StoreInv, NEW p \in Process, Steps(p)
    PROVE  OrphansAreStray'
<1>0. /\ OrphansAreStray /\ RecognisedAt(p) /\ Moved(p)
      /\ frame \in [Process -> Frame] /\ frame[p] \in Frame
      /\ artifacts \subseteq artifacts'
  BY FrameMoves, RowsGrow DEF StoreInv, Sound, StoreTypeOK, Grown
<1>1. \A q \in Process \ {p} : HasPlaced(q)' <=> HasPlaced(q)
  BY <1>0 DEF Moved, HasPlaced
<1>2. \A q \in Process \ {p} : frame'[q] = frame[q]
  BY <1>0 DEF Moved
<1> SUFFICES ASSUME NEW d \in files', d \notin artifacts'
             PROVE  d \in stray' \/ \E q \in Process : HasPlaced(q)' /\ frame'[q].digest = d
  BY DEF OrphansAreStray
\* It is enough that d was there and p, if it had placed d, still has or strayed.
<1>3. ASSUME d \in files, stray \subseteq stray',
             HasPlaced(p) /\ frame[p].digest = d
                => d \in stray' \/ (HasPlaced(p)' /\ frame'[p].digest = d)
      PROVE  d \in stray' \/ \E q \in Process : HasPlaced(q)' /\ frame'[q].digest = d
  BY <1>0, <1>1, <1>2, <1>3 DEF OrphansAreStray
<1>4. CASE Place(p)
  <2>1. d \in files \/ d = frame[p].digest
    BY <1>4 DEF Place
  <2>2. CASE d \in files
    BY <1>3, <1>4, <2>2 DEF Place, HasPlaced, ghosts
  <2>3. CASE d \notin files
    <3>1. /\ frame'[p].placed /\ frame'[p].step = "insert"
          /\ frame'[p].digest = d
      BY <1>0, <1>4, <2>1, <2>3 DEF Place, Frame
    <3> QED  BY <3>1 DEF HasPlaced
  <2> QED  BY <2>2, <2>3
<1>5. CASE Undo(p)
  <2>1. d \in files /\ stray' = stray
    BY <1>5 DEF Undo
  <2>2. HasPlaced(p) /\ frame[p].digest = d => FALSE
    BY <1>0, <1>5 DEF Undo, Removes, HasPlaced, RecognisedAt, catalog
  <2> QED  BY <1>3, <2>1, <2>2
<1>6. CASE Stage(p) \/ Staged(p) \/ StageRefused(p) \/ Begin(p) \/ BeginTimesOut(p) \/ Answer(p)
  BY <1>3, <1>6
     DEF Stage, Staged, StageRefused, Begin, BeginTimesOut, Answer, HasPlaced, ghosts
<1>7. CASE Insert(p) \/ InsertDuplicate(p) \/ CommitFails(p)
  <2>1. /\ d \in files /\ stray' = stray
        /\ frame'[p].placed = frame[p].placed /\ frame'[p].digest = frame[p].digest
        /\ frame'[p].step \in {"commit", "undo"}
    BY <1>0, <1>7 DEF Insert, InsertDuplicate, CommitFails, Goto, Frame, ghosts
  <2> QED  BY <1>3, <2>1 DEF HasPlaced
<1>8. CASE Commit(p)
  <2>1. d \in files /\ stray' = stray /\ d # frame[p].digest
    BY <1>8 DEF Commit, ghosts
  <2> QED  BY <1>3, <2>1
<1>9. CASE Uncaught(p)
  BY <1>3, <1>9 DEF Uncaught, HasPlaced
<1>10. CASE Crash(p)
  BY <1>3, <1>10 DEF Crash
<1>11. ASSUME NEW m \in Name, NEW v \in 1..MaxInt, Activate(p, m, v)
       PROVE  d \in stray' \/ \E q \in Process : HasPlaced(q)' /\ frame'[q].digest = d
  BY <1>3, <1>11 DEF Activate, HasPlaced, ghosts
<1> QED  BY <1>4, <1>5, <1>6, <1>7, <1>8, <1>9, <1>10, <1>11 DEF Steps, Registration

----------------------------------------------------------------------------
(* The theorems.                                                              *)

\* Every step of the store keeps the invariant.
LEMMA StepSound == StoreInv /\ [StoreNext]_vars => StoreInv'
<1> SUFFICES ASSUME StoreInv, [StoreNext]_vars PROVE StoreInv'
  OBVIOUS
<1>1. ASSUME NEW p \in Process, Steps(p)
      PROVE  StoreInv'
  <2>1. \A q \in Process : Sound(q)'
    BY <1>1, MoverSound, OthersSound
  <2> QED  BY <1>1, <2>1, KeepsTypes, KeepsWhole, KeepsLastActivated, KeepsFiles,
              KeepsOrphans, UploadsCounted DEF StoreInv
<1>2. CASE UNCHANGED vars
  BY <1>2 DEF vars, catalog, ghosts, StoreInv, StoreTypeOK, Sound, FramedAt, UnusedAt, KeptAt,
              RecognisedAt, AnsweredAt, Key, CatalogIsWhole, ActiveIsLastActivated,
              ActiveVersions, VersionsOf, IsLastActivated, LostOnlyToCleanup, OrphansAreStray,
              HasPlaced, UploadsAccountedFor, HasUpload
<1> QED  BY <1>1, <1>2 DEF StoreNext, Steps, Done

\* The rows, files and frames stay what the schema and the code make of them,
\* and everything below holds of them together.
THEOREM StoreInvariance == StoreSpec => []StoreInv
BY InitSound, StepSound, PTL DEF StoreSpec

\* Every process finds what it reads back.
LEMMA ImpliesAnswers == StoreInv => AnswersOwnVersion
BY DEF StoreInv, Sound, AnsweredAt, AnswersOwnVersion

\* The rows, the directory and the registrations of src/src/model_store.py are typed.
THEOREM StoreTypeCorrect == StoreSpec => []StoreTypeOK
BY StoreInvariance, PTL DEF StoreInv

\* A registration leaves all of its three rows or none, whatever fails.
THEOREM CatalogWhole == StoreSpec => []CatalogIsWhole
BY StoreInvariance, PTL DEF StoreInv

\* The active version is the one activated last, however many processes activate.
THEOREM LastActivationWins == StoreSpec => []ActiveIsLastActivated
BY StoreInvariance, PTL DEF StoreInv

\* The read that answers a registration or an activation finds the version with
\* the content the client sent.
THEOREM AnswersCorrect == StoreSpec => []AnswersOwnVersion
BY StoreInvariance, ImpliesAnswers, PTL

\* Nothing but the cleanup of a refused registration takes an artifact away.
THEOREM ArtifactsKept == StoreSpec => []LostOnlyToCleanup
BY StoreInvariance, PTL DEF StoreInv

\* A file without a row is left by a crash, or an exception nothing catches, once it
\* is placed, and by nothing else: each duplicate and failing commit takes its own away.
THEOREM OrphansExplained == StoreSpec => []OrphansAreStray
BY StoreInvariance, PTL DEF StoreInv

\* No request that ended, however it did, leaves its temporary file; only crashes do.
THEOREM UploadsCleaned == StoreSpec => []UploadsAccountedFor
BY StoreInvariance, PTL DEF StoreInv

\* A registration that lets the store choose its version is never refused as a
\* duplicate: MAX(version) was read under the lock it still holds.
THEOREM AutoAccepted == StoreSpec => AutoNeverRefused
<1>1. StoreInv /\ [StoreNext]_vars
         => \A p \in Process : frame[p].step = "insert" /\ frame'[p].step = "undo"
                                  => frame[p].version # NextVersion
  <2> SUFFICES ASSUME StoreInv, [StoreNext]_vars, NEW p \in Process,
                      frame[p].step = "insert", frame'[p].step = "undo"
               PROVE  frame[p].version # NextVersion
    OBVIOUS
  <2>1. frame \in [Process -> Frame] /\ UnusedAt(p) /\ FramedAt(p)
    BY DEF StoreInv, StoreTypeOK, Sound
  <2>2. PICK q \in Process : Steps(q)
    BY DEF StoreNext, Steps, Done, vars
  <2>3. q = p
    BY <2>1, <2>2, FrameMoves DEF Moved
  <2>4. InsertDuplicate(p)
    <3>1. ~Insert(p)
      BY <2>1 DEF Insert, Goto, Frame
    <3>2. ~Uncaught(p) /\ ~Crash(p)
      BY <2>1 DEF Uncaught, Crash, Over, Idle
    <3> QED  BY <2>2, <2>3, <3>1, <3>2
             DEF Steps, Registration, Stage, Staged, StageRefused, Begin, BeginTimesOut, Place,
                 Commit, CommitFails, Undo, Activate, Answer
  <2> QED  BY <2>1, <2>4 DEF InsertDuplicate, UnusedAt
<1> QED  BY <1>1, StoreInvariance, PTL DEF StoreSpec, AutoNeverRefused

----------------------------------------------------------------------------
(* What it takes to lose an artifact, or to leave one behind: under the       *)
(* conditions below the store does keep what its documentation promises.      *)

\* A step of p that does not undercut an artifact leaves undercut as it is.
LEMMA UndercutGrows ==
    ASSUME NEW p \in Process, Steps(p)
    PROVE  \/ undercut' = undercut
           \/ Undo(p) /\ frame[p].placed /\ ~frame[p].known /\ Shared(p)
<1>1. CASE Stage(p) \/ Staged(p) \/ StageRefused(p) \/ Begin(p) \/ BeginTimesOut(p) \/ Place(p)
  BY <1>1 DEF Stage, Staged, StageRefused, Begin, BeginTimesOut, Place, ghosts
<1>2. CASE Insert(p) \/ InsertDuplicate(p) \/ Uncaught(p) \/ Commit(p) \/ CommitFails(p)
  BY <1>2 DEF Insert, InsertDuplicate, Uncaught, Commit, CommitFails, ghosts
<1>3. CASE Answer(p) \/ Crash(p)
  BY <1>3 DEF Answer, Crash, ghosts
<1>4. CASE Undo(p)
  BY <1>4 DEF Undo
<1>5. ASSUME NEW m \in Name, NEW v \in 1..MaxInt, Activate(p, m, v)
      PROVE  undercut' = undercut
  BY <1>5 DEF Activate, ghosts
<1> QED  BY <1>1, <1>2, <1>3, <1>4, <1>5 DEF Steps, Registration

\* With one process, what it found unknown stays unknown until it commits.
Solo ==
    /\ undercut = {}
    /\ \A p \in Process :
          frame[p].step \in {"place", "insert", "commit", "undo"} /\ ~frame[p].known
             => frame[p].digest \notin artifacts

\* The one process of a store keeps the artifact of every version, whatever it is
\* asked to register, whichever commit fails and whenever it crashes.
THEOREM OneProcessKeepsArtifacts ==
    (\A p, q \in Process : p = q) /\ StoreSpec => []ArtifactsPresent
<1> SUFFICES ASSUME \A p, q \in Process : p = q
             PROVE  StoreSpec => []ArtifactsPresent
  OBVIOUS
<1>1. StoreInit => Solo
  BY DEF StoreInit, Solo, Idle
<1>2. StoreInv /\ Solo /\ [StoreNext]_vars => Solo'
  <2> SUFFICES ASSUME StoreInv, Solo, [StoreNext]_vars PROVE Solo'
    OBVIOUS
  <2>1. CASE UNCHANGED vars
    BY <2>1 DEF vars, catalog, ghosts, Solo
  <2>2. ASSUME NEW p \in Process, Steps(p)
        PROVE  Solo'
    <3>0. frame[p] \in Frame /\ frame \in [Process -> Frame] /\ \A q \in Process : q = p
      BY DEF StoreInv, StoreTypeOK
    <3>1. undercut' = {}
      BY <2>2, <3>0, UndercutGrows DEF Solo, Undo, Shared
    <3> SUFFICES ASSUME frame'[p].step \in {"place", "insert", "commit", "undo"},
                        ~frame'[p].known
                 PROVE  frame'[p].digest \notin artifacts'
      BY <3>0, <3>1 DEF Solo
    <3>2. CASE StageRefused(p) \/ BeginTimesOut(p) \/ Uncaught(p) \/ Undo(p)
               \/ Answer(p) \/ Crash(p)
      BY <3>0, <3>2
         DEF StageRefused, BeginTimesOut, Uncaught, Undo, Answer, Crash, Over, Idle
    <3>3. CASE Stage(p) \/ Staged(p) \/ Commit(p)
      <4>1. Stage(p) => frame'[p].step = "stage"
        BY <3>0 DEF Stage, Idle
      <4>2. Staged(p) => frame'[p].step = "begin"
        BY <3>0 DEF Staged, Goto, Frame
      <4>3. Commit(p) => frame'[p].step = "answer"
        BY <3>0 DEF Commit, Goto, Frame
      <4> QED  BY <3>3, <4>1, <4>2, <4>3
    <3>4. CASE Begin(p)
      <4>1. PICK n : frame'[p] = [frame[p] EXCEPT !.step = "place", !.assigned = n,
                                                  !.known = frame[p].digest \in artifacts]
        BY <3>0, <3>4 DEF Begin
      <4>2. frame'[p].known = (frame[p].digest \in artifacts)
            /\ frame'[p].digest = frame[p].digest
        BY <3>0, <4>1 DEF Frame
      <4> QED  BY <3>4, <4>2 DEF Begin, catalog
    <3>5. CASE Place(p) \/ Insert(p) \/ InsertDuplicate(p) \/ CommitFails(p)
      <4>1. frame[p].step \in {"place", "insert", "commit"} /\ artifacts' = artifacts
        BY <3>5 DEF Place, Insert, InsertDuplicate, CommitFails, catalog
      <4>2. frame'[p].known = frame[p].known /\ frame'[p].digest = frame[p].digest
        <5>1. CASE Place(p)
          BY <3>0, <5>1 DEF Place, Frame
        <5>2. CASE Insert(p) \/ InsertDuplicate(p) \/ CommitFails(p)
          BY <3>0, <5>2 DEF Insert, InsertDuplicate, CommitFails, Goto, Frame
        <5> QED  BY <3>5, <5>1, <5>2
      <4> QED  BY <4>1, <4>2 DEF Solo
    <3>6. ASSUME NEW m \in Name, NEW v \in 1..MaxInt, Activate(p, m, v)
          PROVE  frame'[p].digest \notin artifacts'
      BY <3>0, <3>6 DEF Activate, Idle
    <3> QED  BY <2>2, <3>2, <3>3, <3>4, <3>5, <3>6 DEF Steps, Registration
  <2> QED  BY <2>1, <2>2 DEF StoreNext, Steps, Done
<1>3. StoreInv /\ Solo => ArtifactsPresent
  BY DEF StoreInv, Solo, LostOnlyToCleanup, ArtifactsPresent
<1> QED  BY <1>1, <1>2, <1>3, StoreInvariance, PTL DEF StoreSpec

\* With every version chosen by the store nothing placed is ever taken back.
Numbered ==
    /\ undercut = {}
    /\ \A p \in Process : /\ frame[p].step # "undo"
                          /\ frame[p].step \in {"stage", "begin", "place", "insert"}
                                => frame[p].version = NextVersion

\* Nor is an artifact lost, with any number of processes, where clients leave the
\* version to the store and no commit fails: registrations are then never refused
\* after they have placed the file.
THEOREM NumberedKeepsArtifacts ==
    Requested = {} /\ ~MayFail /\ StoreSpec => []ArtifactsPresent
<1> SUFFICES ASSUME Requested = {}, ~MayFail
             PROVE  StoreSpec => []ArtifactsPresent
  OBVIOUS
<1>1. StoreInit => Numbered
  BY DEF StoreInit, Numbered, Idle
<1>2. StoreInv /\ Numbered /\ [StoreNext]_vars => Numbered'
  <2> SUFFICES ASSUME StoreInv, Numbered, [StoreNext]_vars PROVE Numbered'
    OBVIOUS
  <2>1. CASE UNCHANGED vars
    BY <2>1 DEF vars, ghosts, Numbered
  <2>2. ASSUME NEW p \in Process, Steps(p)
        PROVE  Numbered'
    <3>0. /\ frame[p] \in Frame /\ frame \in [Process -> Frame] /\ UnusedAt(p)
          /\ \A q \in Process \ {p} : frame'[q] = frame[q]
      BY <2>2, FrameMoves DEF StoreInv, StoreTypeOK, Sound, Moved
    <3>1. undercut' = {}
      BY <2>2, UndercutGrows DEF Numbered, Undo
    <3> DEFINE f == frame'[p]
    <3> SUFFICES /\ f.step # "undo"
                 /\ f.step \in {"stage", "begin", "place", "insert"} => f.version = NextVersion
      BY <3>0, <3>1 DEF Numbered
    <3>2. CASE StageRefused(p) \/ BeginTimesOut(p) \/ Uncaught(p) \/ Undo(p)
               \/ Answer(p) \/ Crash(p)
      BY <3>0, <3>2
         DEF StageRefused, BeginTimesOut, Uncaught, Undo, Answer, Crash, Over, Idle
    <3>3. CASE Stage(p)
      BY <3>0, <3>3 DEF Stage, Idle
    <3>4. CASE Staged(p) \/ Begin(p) \/ Place(p) \/ Insert(p) \/ Commit(p)
      <4>1. CASE Begin(p)
        <5>1. PICK n : f = [frame[p] EXCEPT !.step = "place", !.assigned = n,
                                            !.known = frame[p].digest \in artifacts]
          BY <3>0, <4>1 DEF Begin
        <5>2. f.step = "place" /\ f.version = frame[p].version
          BY <3>0, <5>1 DEF Frame
        <5> QED  BY <4>1, <5>2 DEF Begin, Numbered
      <4>2. CASE Staged(p)
        BY <3>0, <4>2 DEF Staged, Goto, Frame, Numbered
      <4>3. CASE Place(p)
        BY <3>0, <4>3 DEF Place, Frame, Numbered
      <4>4. CASE Insert(p) \/ Commit(p)
        BY <3>0, <4>4 DEF Insert, Commit, Goto, Frame
      <4> QED  BY <3>4, <4>1, <4>2, <4>3, <4>4
    <3>5. ~InsertDuplicate(p) /\ ~CommitFails(p)
      BY <3>0 DEF InsertDuplicate, CommitFails, UnusedAt, Numbered
    <3>6. ASSUME NEW m \in Name, NEW v \in 1..MaxInt, Activate(p, m, v)
          PROVE  f.step = "answer"
      BY <3>0, <3>6 DEF Activate, Idle
    <3> QED  BY <2>2, <3>2, <3>3, <3>4, <3>5, <3>6 DEF Steps, Registration
  <2> QED  BY <2>1, <2>2 DEF StoreNext, Steps, Done
<1>3. StoreInv /\ Numbered => ArtifactsPresent
  BY DEF StoreInv, Numbered, LostOnlyToCleanup, ArtifactsPresent
<1> QED  BY <1>1, <1>2, <1>3, StoreInvariance, PTL DEF StoreSpec

\* No version beyond SQLite's integers is ever assigned.
Storable == \A p \in Process : frame[p].assigned <= MaxInt

\* While no process crashes, no version outgrows SQLite's integers and nothing of a
\* transaction but its commit raises, a registration that fails leaves no file.
THEOREM NothingOrphaned ==
    ~MayCrash /\ ~MayRaise /\ StoreSpec /\ []Storable => []NoOrphans
<1> SUFFICES ASSUME ~MayCrash, ~MayRaise
             PROVE  StoreSpec /\ []Storable => []NoOrphans
  OBVIOUS
<1>1. StoreInit => stray = {}
  BY DEF StoreInit
<1>2. StoreInv /\ Storable /\ stray = {} /\ [StoreNext]_vars => (stray = {})'
  <2> SUFFICES ASSUME StoreInv, Storable, stray = {}, [StoreNext]_vars PROVE stray' = {}
    OBVIOUS
  <2>1. CASE UNCHANGED vars
    BY <2>1 DEF vars, ghosts
  <2>2. ASSUME NEW p \in Process, Steps(p)
        PROVE  stray' = {}
    <3>1. CASE Stage(p) \/ Staged(p) \/ StageRefused(p) \/ Begin(p) \/ BeginTimesOut(p)
               \/ Place(p)
      BY <3>1 DEF Stage, Staged, StageRefused, Begin, BeginTimesOut, Place, ghosts
    <3>2. CASE Insert(p) \/ InsertDuplicate(p) \/ Commit(p) \/ CommitFails(p) \/ Undo(p)
               \/ Answer(p)
      BY <3>2 DEF Insert, InsertDuplicate, Commit, CommitFails, Undo, Answer, ghosts
    <3>3. ~Crash(p)
      BY DEF Crash
    <3>4. CASE Uncaught(p)
      BY <3>4, StoreAssumption DEF Uncaught, Storable, StoreInv, StoreTypeOK, Frame
    <3>5. ASSUME NEW m \in Name, NEW v \in 1..MaxInt, Activate(p, m, v)
          PROVE  stray' = {}
      BY <3>5 DEF Activate, ghosts
    <3> QED  BY <2>2, <3>1, <3>2, <3>3, <3>4, <3>5 DEF Steps, Registration
  <2> QED  BY <2>1, <2>2 DEF StoreNext, Steps, Done
<1>3. StoreInv /\ stray = {} => NoOrphans
  BY DEF StoreInv, OrphansAreStray, NoOrphans
<1> QED  BY <1>1, <1>2, <1>3, StoreInvariance, PTL DEF StoreSpec

----------------------------------------------------------------------------
(* The store implements ModelCatalog.                                         *)

\* What the catalog promises to have, as the rows show it.
Content == [m \in Name |-> [v \in VersionsOf(m) |-> versions[<<m, v>>].digest]]

Active == [m \in Name |-> ActiveVersions(m)]

CatalogStep == [Catalog!Next]_(Catalog!vars)

\* A commit registers one version.
LEMMA CommitRegisters ==
    ASSUME StoreInv, NEW p \in Process, Commit(p),
           NEW m, NEW v, NEW d,
           m = frame[p].name, v = frame[p].assigned, d = frame[p].digest
    PROVE  Catalog!Register(m, v, d)
<1>1. CommitEffect(p) /\ StoreTypeOK
  BY CommitAdds DEF StoreInv
<1>2. m \in Name /\ v \in 1..MaxInt /\ <<m, v>> \notin DOMAIN versions
  BY <1>1 DEF CommitEffect, Key
<1>3. v \notin VersionsOf(m)
  BY <1>2 DEF VersionsOf
<1>4. /\ VersionsOf(m)' = VersionsOf(m) \cup {v}
      /\ \A n \in Name : n # m => VersionsOf(n)' = VersionsOf(n)
  <2>1. \A n \in Name, w \in 1..MaxInt :
           <<n, w>> \in DOMAIN versions' <=> <<n, w>> \in DOMAIN versions \/ (n = m /\ w = v)
    BY <1>1, <1>2 DEF CommitEffect, Key
  <2> QED  BY <1>2, <2>1 DEF VersionsOf
<1>5. Content' = [Content EXCEPT ![m] = [w \in DOMAIN @ \cup {v} |-> IF w = v THEN d ELSE @[w]]]
  <2>1. ASSUME NEW n \in Name, n # m
        PROVE  Content'[n] = Content[n]
    <3>1. \A w \in VersionsOf(n) : <<n, w>> \in DOMAIN versions
      BY DEF VersionsOf
    <3> QED  BY <1>1, <1>4, <2>1, <3>1 DEF Content, CommitEffect
  <2>2. Content'[m] = [w \in VersionsOf(m) \cup {v} |->
                          IF w = v THEN d ELSE versions[<<m, w>>].digest]
    <3>1. \A w \in VersionsOf(m) : <<m, w>> \in DOMAIN versions
      BY DEF VersionsOf
    <3>2. \A w \in VersionsOf(m) : versions'[<<m, w>>].digest = versions[<<m, w>>].digest
      BY <1>1, <3>1 DEF CommitEffect
    <3>3. versions'[<<m, v>>].digest = d
      BY <1>1 DEF CommitEffect, Key
    <3>4. Content'[m] = [w \in VersionsOf(m)' |-> versions'[<<m, w>>].digest]
      BY <1>2 DEF Content
    <3> QED  BY <1>3, <1>4, <3>2, <3>3, <3>4
  <2> DEFINE C == [w \in DOMAIN Content[m] \cup {v} |-> IF w = v THEN d ELSE Content[m][w]]
  <2>3. Content'[m] = C
    <3>1. /\ DOMAIN Content[m] = VersionsOf(m)
          /\ \A w \in VersionsOf(m) : Content[m][w] = versions[<<m, w>>].digest
      BY <1>2 DEF Content
    <3> HIDE DEF Content
    <3> QED  BY <1>3, <2>2, <3>1
  <2>4. /\ Content = [n \in Name |-> Content[n]]
        /\ Content' = [n \in Name |-> Content'[n]]
    BY DEF Content
  <2> HIDE DEF C, Content
  <2>5. Content' = [Content EXCEPT ![m] = C]
    BY <1>2, <2>1, <2>3, <2>4
  <2> QED  BY <2>5 DEF C
<1>6. Active' = Active
  <2>1. ASSUME NEW n \in Name
        PROVE  ActiveVersions(n)' = ActiveVersions(n)
    BY <1>1, <1>2, <1>4 DEF ActiveVersions, VersionsOf, CommitEffect, Key
  <2> QED  BY <2>1 DEF Active
<1> QED  BY <1>2, <1>3, <1>5, <1>6 DEF Catalog!Register, Content, Active

\* An activation activates one version.
LEMMA ActivateActivates ==
    ASSUME StoreInv, NEW p \in Process, NEW m \in Name, NEW v \in 1..MaxInt, Activate(p, m, v)
    PROVE  Catalog!Activate(m, v)
<1>1. ActivateEffect(m, v) /\ <<m, v>> \in DOMAIN versions
  BY ActivateSets DEF Activate
<1>2. \A n \in Name : VersionsOf(n)' = VersionsOf(n)
  BY <1>1 DEF VersionsOf, ActivateEffect
<1>3. Content' = Content
  <2>1. \A n \in Name : \A w \in VersionsOf(n) : <<n, w>> \in DOMAIN versions
    BY DEF VersionsOf
  <2> QED  BY <1>1, <1>2, <2>1 DEF Content, ActivateEffect
<1>4. Active' = [Active EXCEPT ![m] = {v}]
  <2>1. ActiveVersions(m)' = {v}
    BY <1>1, <1>2 DEF ActiveVersions, ActivateEffect, VersionsOf
  <2>2. \A n \in Name : n # m => ActiveVersions(n)' = ActiveVersions(n)
    BY <1>1, <1>2 DEF ActiveVersions, ActivateEffect, VersionsOf
  <2> QED  BY <2>1, <2>2 DEF Active
<1>5. v \in VersionsOf(m)
  BY <1>1 DEF VersionsOf
<1> QED  BY <1>3, <1>4, <1>5 DEF Catalog!Activate, Content, Active

\* The versioned store keeps the promise ModelCatalog makes: a version, once
\* registered, keeps its content, and one version of a model is active at most.
THEOREM KeepsCatalog == StoreSpec => ImplementsCatalog
<1>1. StoreInit => Catalog!Init
  BY DEF StoreInit, Catalog!Init, VersionsOf, ActiveVersions
<1>2. StoreInv /\ [StoreNext]_vars => CatalogStep
  <2> SUFFICES ASSUME StoreInv, [StoreNext]_vars PROVE CatalogStep
    OBVIOUS
  <2>1. ASSUME NEW p \in Process, Commit(p)
        PROVE  CatalogStep
    <3>1. PICK m \in Name, v \in 1..MaxInt, d \in Digest :
             m = frame[p].name /\ v = frame[p].assigned /\ d = frame[p].digest
      BY <2>1, CommitAdds DEF CommitEffect, Key
    <3>2. Catalog!Register(m, v, d)
      BY <2>1, <3>1, CommitRegisters
    <3>3. Catalog!Next
      BY <3>1, <3>2 DEF Catalog!Next
    <3> QED  BY <3>3 DEF CatalogStep
  <2>2. ASSUME NEW p \in Process, NEW m \in Name, NEW v \in 1..MaxInt, Activate(p, m, v)
        PROVE  CatalogStep
    BY <2>2, ActivateActivates DEF CatalogStep, Catalog!Next
  <2>3. CASE UNCHANGED catalog
    BY <2>3 DEF catalog, CatalogStep, Catalog!vars, VersionsOf, ActiveVersions
  <2> QED  BY <2>1, <2>2, <2>3, OthersLeaveRows DEF StoreNext, Steps, Done, vars
<1> QED  BY <1>1, <1>2, StoreInvariance, PTL
         DEF StoreSpec, ImplementsCatalog, Catalog!Spec, CatalogStep
=============================================================================
