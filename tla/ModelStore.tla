----------------------------- MODULE ModelStore -----------------------------
(* The versioned model store, src/src/model_store.py: a SQLite catalog and a  *)
(* directory of artifact files named by digest, used by several processes.    *)
(*                                                                            *)
(* A registration streams the upload into a temporary file and is then one    *)
(* write transaction (BEGIN IMMEDIATE holds SQLite's write lock) that also    *)
(* places the file, and the file is not part of the transaction: it is placed *)
(* before the commit and, if the transaction fails, removed after the         *)
(* rollback.  So a registration is several steps, between which other         *)
(* processes run.  What a transaction has not committed is known to its own   *)
(* process only, and is kept in the process's frame.                          *)
(* Within a process requests run one at a time: its handlers are `async' with *)
(* synchronous bodies, and ModelStore._lock would serialise threads too.      *)
(* Definitions marked "Fault" are not the code: each is the definition that   *)
(* follows with a plausible mistake, on which a property is seen to fail.     *)
EXTENDS Integers, Sequences, FiniteSets

CONSTANTS Process, Name, Digest,
          NoProcess, NoName, NoDigest,
          Requested,         \* bound: the versions clients ask for explicitly
          MaxInt,            \* 2^63 - 1, the largest SQLite INTEGER
          MaxRegistrations,  \* bound: how many uploads begin
          MaxActivations,    \* bound: how many activations are made
          MayFail,           \* BOOLEAN: whether a commit may fail
          MayRaise,          \* BOOLEAN: whether anything else of a transaction may
          MayCrash           \* BOOLEAN: whether a process may crash

ASSUME StoreAssumption ==
    /\ IsFiniteSet(Process)
    /\ NoProcess \notin Process /\ NoName \notin Name /\ NoDigest \notin Digest
    /\ Requested \subseteq Nat \ {0}
    /\ MaxInt \in Nat \ {0}
    /\ MaxRegistrations \in Nat
    /\ MaxActivations \in Nat
    /\ MayFail \in BOOLEAN /\ MayRaise \in BOOLEAN /\ MayCrash \in BOOLEAN

VARIABLES models,     \* models: the names with a row
          artifacts,  \* artifacts: the digests with a row
          versions,   \* model_versions: <<name, version>> -> row
          history,    \* activation_records, in order of id
          files,      \* the digests with a file in artifact_dir
          uploads,    \* how many upload-* files are in data_dir
          lock,       \* the process in a write transaction
          frame,      \* frame[p]: what p is doing
          attempts    \* how many uploads have begun

\* What happened, for the properties to speak of; no action reads it.
VARIABLES forgotten,  \* how many upload-* files crashes left behind
          stray,      \* artifacts placed by registrations that never cleaned up
          undercut    \* artifacts a cleanup removed under another registration

catalog == <<models, artifacts, versions, history>>
ghosts == <<forgotten, stray, undercut>>
vars == <<catalog, files, uploads, lock, frame, attempts, ghosts>>

----------------------------------------------------------------------------

NextVersion == 0    \* `version is None': the next one is assigned

Row == [status : {"registered", "active"}, digest : Digest]

Step == {"idle", "stage", "begin", "place", "insert", "commit", "undo", "answer"}

\* known: the artifact had a row before; placed: this registration placed the file.
Frame == [step : Step, name : Name \cup {NoName}, version : Nat,
          digest : Digest \cup {NoDigest}, assigned : Nat,
          known : BOOLEAN, placed : BOOLEAN]

Idle == [step |-> "idle", name |-> NoName, version |-> NextVersion, digest |-> NoDigest,
         assigned |-> 0, known |-> FALSE, placed |-> FALSE]

VersionsOf(m) == {v \in 1..MaxInt : <<m, v>> \in DOMAIN versions}

\* SELECT COALESCE(MAX(version), 0) + 1, unless a version was asked for.
Assigned(m, asked, n) ==
    IF asked # NextVersion THEN n = asked
    ELSE /\ n = 1 \/ n - 1 \in VersionsOf(m)
         /\ \A v \in VersionsOf(m) : v < n

StoreInit ==
    /\ models = {} /\ artifacts = {}
    /\ versions = [k \in {} |-> NoDigest]
    /\ history = << >>
    /\ files = {} /\ uploads = 0
    /\ lock = NoProcess
    /\ frame = [p \in Process |-> Idle]
    /\ attempts = 0
    /\ forgotten = 0 /\ stray = {} /\ undercut = {}

\* p's request is over, answered or refused.
Over(p) == frame' = [frame EXCEPT ![p] = Idle]

Goto(p, step) == frame' = [frame EXCEPT ![p].step = step]

----------------------------------------------------------------------------
(* register: the upload.                                                      *)

\* ModelService.register has validated the request; a temporary file is created.
Stage(p) ==
    /\ frame[p].step = "idle"
    /\ attempts < MaxRegistrations
    /\ \E m \in Name, v \in Requested \cup {NextVersion}, d \in Digest :
          frame' = [frame EXCEPT ![p] = [Idle EXCEPT !.step = "stage", !.name = m,
                                                     !.version = v, !.digest = d]]
    /\ attempts' = attempts + 1
    /\ uploads' = uploads + 1
    /\ UNCHANGED <<catalog, files, lock, ghosts>>

\* The content is complete and its digest known.
Staged(p) ==
    /\ frame[p].step = "stage"
    /\ Goto(p, "begin")
    /\ UNCHANGED <<catalog, files, uploads, lock, attempts, ghosts>>

\* It cannot be read, is too large or empty: the file is unlinked, 422 or 413.
StageRefused(p) ==
    /\ frame[p].step = "stage"
    /\ Over(p)
    /\ uploads' = uploads - 1
    /\ UNCHANGED <<catalog, files, lock, attempts, ghosts>>

----------------------------------------------------------------------------
(* register: the transaction.                                                 *)

\* (Fault: a deferred transaction, which reads before it has the write lock.)
Begin_Deferred(p) ==
    /\ frame[p].step = "begin"
    /\ \E n \in (1..MaxInt + 1) \cup Requested :
          /\ Assigned(frame[p].name, frame[p].version, n)
          /\ frame' = [frame EXCEPT ![p] = [@ EXCEPT !.step = "place", !.assigned = n,
                                               !.known = frame[p].digest \in artifacts]]
    /\ UNCHANGED <<catalog, files, uploads, lock, attempts, ghosts>>

\* BEGIN IMMEDIATE; the version is assigned and the artifact looked up inside.
Begin(p) ==
    /\ frame[p].step = "begin"
    /\ lock = NoProcess
    /\ lock' = p
    /\ \E n \in (1..MaxInt + 1) \cup Requested :
          /\ Assigned(frame[p].name, frame[p].version, n)
          /\ frame' = [frame EXCEPT ![p] = [@ EXCEPT !.step = "place", !.assigned = n,
                                               !.known = frame[p].digest \in artifacts]]
    /\ UNCHANGED <<catalog, files, uploads, attempts, ghosts>>

\* (Fault: no `finally' around the transaction.)
BeginTimesOut_Keeps(p) ==
    /\ frame[p].step = "begin"
    /\ Over(p)
    /\ UNCHANGED <<catalog, files, uploads, lock, attempts, ghosts>>

\* The write lock is not had within 30 seconds, or BEGIN raises at once: `finally'
\* unlinks the upload.  Not only `lock' can be in the way: the tables of the task
\* repository are in the same database file.
BeginTimesOut(p) ==
    /\ frame[p].step = "begin"
    /\ Over(p)
    /\ uploads' = uploads - 1
    /\ UNCHANGED <<catalog, files, lock, attempts, ghosts>>

\* A file of that digest is taken as the artifact and the upload unlinked; else
\* the upload becomes the artifact.
Place(p) ==
    /\ frame[p].step = "place"
    /\ files' = files \cup {frame[p].digest}
    /\ uploads' = uploads - 1
    /\ frame' = [frame EXCEPT ![p] = [@ EXCEPT !.step = "insert",
                                               !.placed = frame[p].digest \notin files]]
    /\ UNCHANGED <<catalog, lock, attempts, ghosts>>

Key(p) == <<frame[p].name, frame[p].assigned>>

\* (Faults: INSERT OR REPLACE; no integer is too large.)
Insert_Replaces(p) ==
    /\ frame[p].step = "insert"
    /\ frame[p].assigned <= MaxInt
    /\ Goto(p, "commit")
    /\ UNCHANGED <<catalog, files, uploads, lock, attempts, ghosts>>

Insert_Unbounded(p) ==
    /\ frame[p].step = "insert"
    /\ Key(p) \notin DOMAIN versions
    /\ Goto(p, "commit")
    /\ UNCHANGED <<catalog, files, uploads, lock, attempts, ghosts>>

\* INSERT INTO model_versions, as the transaction sees the table.
Insert(p) ==
    /\ frame[p].step = "insert"
    /\ frame[p].assigned <= MaxInt
    /\ Key(p) \notin DOMAIN versions
    /\ Goto(p, "commit")
    /\ UNCHANGED <<catalog, files, uploads, lock, attempts, ghosts>>

\* IntegrityError: the rollback releases the lock; the file is removed later.
InsertDuplicate(p) ==
    /\ frame[p].step = "insert"
    /\ frame[p].assigned <= MaxInt
    /\ Key(p) \in DOMAIN versions
    /\ lock' = NoProcess
    /\ Goto(p, "undo")
    /\ UNCHANGED <<catalog, files, uploads, attempts, ghosts>>

\* (Fault: a version is inserted as an active one.)
Committed_Active(m, v, d) ==
    [k \in DOMAIN versions \cup {<<m, v>>} |->
        IF k = <<m, v>> THEN [status |-> "active", digest |-> d] ELSE versions[k]]

\* The versions with the row that is inserted.
Committed(m, v, d) ==
    [k \in DOMAIN versions \cup {<<m, v>>} |->
        IF k = <<m, v>> THEN [status |-> "registered", digest |-> d] ELSE versions[k]]

\* _commit_registration: the three rows appear at once.
Commit(p) ==
    /\ frame[p].step = "commit"
    /\ models' = models \cup {frame[p].name}
    /\ artifacts' = artifacts \cup {frame[p].digest}
    /\ versions' = Committed(frame[p].name, frame[p].assigned, frame[p].digest)
    /\ lock' = NoProcess
    /\ Goto(p, "answer")
    /\ UNCHANGED <<history, files, uploads, attempts, ghosts>>

\* (Fault: the model row was inserted in a transaction of its own.)
CommitFails_KeepsModel(p) ==
    /\ MayFail
    /\ frame[p].step = "commit"
    /\ models' = models \cup {frame[p].name}
    /\ lock' = NoProcess
    /\ Goto(p, "undo")
    /\ UNCHANGED <<artifacts, versions, history, files, uploads, attempts, ghosts>>

\* The commit raises: the rollback releases the lock, then the file is removed.
CommitFails(p) ==
    /\ MayFail
    /\ frame[p].step = "commit"
    /\ lock' = NoProcess
    /\ Goto(p, "undo")
    /\ UNCHANGED <<catalog, files, uploads, attempts, ghosts>>

\* Another registration, under way or committed, counts on p's artifact.
Shared(p) ==
    \/ frame[p].digest \in artifacts
    \/ \E q \in Process \ {p} : /\ frame[q].step \in {"insert", "commit"}
                                /\ frame[q].digest = frame[p].digest

\* (Faults: the file is removed whoever placed it; it is never removed.)
Removes_Always(p) == TRUE
Removes_Never(p) == FALSE

\* if placed_new_artifact and artifact_exists is None
Removes(p) == frame[p].placed /\ ~frame[p].known

\* final_path.unlink, once the rollback is done.
Undo(p) ==
    /\ frame[p].step = "undo"
    /\ files' = IF Removes(p) THEN files \ {frame[p].digest} ELSE files
    /\ undercut' = IF frame[p].placed /\ ~frame[p].known /\ Shared(p)
                   THEN undercut \cup {frame[p].digest} ELSE undercut
    /\ Over(p)
    /\ UNCHANGED <<catalog, uploads, lock, attempts, forgotten, stray>>

HasUpload(p) == frame[p].step \in {"stage", "begin", "place"}

\* It has placed the file, which nothing refers to yet as far as it knows.
HasPlaced(p) == frame[p].placed /\ frame[p].step \in {"insert", "commit", "undo"}

\* An exception nothing catches: only the IntegrityError of the version's INSERT
\* and what the commit raises are.  The other statements may raise (the disk is full,
\* an integer overflows), as may placing the file and removing it.  Closing the
\* connection rolls back and `finally' unlinks the upload, but a placed file stays.
Uncaught(p) ==
    /\ \/ MayRaise /\ frame[p].step \in {"place", "insert", "undo"}
       \/ frame[p].step = "insert" /\ frame[p].assigned > MaxInt
    /\ lock' = IF lock = p THEN NoProcess ELSE lock
    /\ Over(p)
    /\ uploads' = IF HasUpload(p) THEN uploads - 1 ELSE uploads
    /\ stray' = IF HasPlaced(p) THEN stray \cup {frame[p].digest} ELSE stray
    /\ UNCHANGED <<catalog, files, attempts, forgotten, undercut>>

----------------------------------------------------------------------------
(* activate, and the answers.                                                 *)

\* (Fault: the previous version keeps its status.)
Activated_Too(m, v) ==
    [k \in DOMAIN versions |-> IF k = <<m, v>> THEN [versions[k] EXCEPT !.status = "active"]
                                               ELSE versions[k]]

\* The two UPDATEs: the active version of m is registered again, then v is active.
Activated(m, v) ==
    [k \in DOMAIN versions |->
        IF k = <<m, v>> THEN [versions[k] EXCEPT !.status = "active"]
        ELSE IF k[1] = m THEN [versions[k] EXCEPT !.status = "registered"]
        ELSE versions[k]]

\* One write transaction, with the record of the change.  An unknown version is
\* refused, as is one for which the lock is not had in time; neither changes anything.
Activate(p, m, v) ==
    /\ frame[p].step = "idle"
    /\ lock = NoProcess
    /\ Len(history) < MaxActivations
    /\ <<m, v>> \in DOMAIN versions
    /\ versions' = Activated(m, v)
    /\ history' = Append(history, <<m, v>>)
    /\ frame' = [frame EXCEPT ![p] = [Idle EXCEPT !.step = "answer", !.name = m, !.assigned = v,
                                                  !.digest = versions[<<m, v>>].digest]]
    /\ UNCHANGED <<models, artifacts, files, uploads, lock, attempts, ghosts>>

\* register and activate end with a read of the version, in a connection of its own.
Answer(p) ==
    /\ frame[p].step = "answer"
    /\ Over(p)
    /\ UNCHANGED <<catalog, files, uploads, lock, attempts, ghosts>>

----------------------------------------------------------------------------

\* A process dies: its transaction is rolled back, its files stay.
Crash(p) ==
    /\ MayCrash
    /\ frame[p].step # "idle"
    /\ lock' = IF lock = p THEN NoProcess ELSE lock
    /\ Over(p)
    /\ forgotten' = IF HasUpload(p) THEN forgotten + 1 ELSE forgotten
    /\ stray' = IF HasPlaced(p) THEN stray \cup {frame[p].digest} ELSE stray
    /\ UNCHANGED <<catalog, files, uploads, attempts, undercut>>

Registration(p) ==
    \/ Stage(p)  \/ Staged(p)          \/ StageRefused(p)
    \/ Begin(p)  \/ BeginTimesOut(p)   \/ Place(p)
    \/ Insert(p) \/ InsertDuplicate(p) \/ Commit(p)
    \/ Undo(p)   \/ CommitFails(p)     \/ Uncaught(p)

\* Every upload the bound allows was made and is over: no deadlock.
Done ==
    /\ attempts = MaxRegistrations
    /\ \A p \in Process : frame[p].step = "idle"
    /\ UNCHANGED vars

StoreNext ==
    \/ \E p \in Process : \/ Registration(p)
                          \/ \E m \in Name, v \in 1..MaxInt : Activate(p, m, v)
                          \/ Answer(p)
                          \/ Crash(p)
    \/ Done

StoreSpec == StoreInit /\ [][StoreNext]_vars

----------------------------------------------------------------------------
(* Properties of the catalog.                                                 *)

\* The rows and the frames are what the schema and the code put there.
StoreTypeOK ==
    /\ models \subseteq Name /\ artifacts \subseteq Digest
    /\ DOMAIN versions \subseteq Name \X (1..MaxInt)
    /\ versions \in [DOMAIN versions -> Row]
    /\ history \in Seq(Name \X (1..MaxInt))
    /\ files \subseteq Digest
    /\ uploads \in Nat
    /\ lock \in Process \cup {NoProcess}
    /\ frame \in [Process -> Frame]
    /\ attempts \in 0..MaxRegistrations
    /\ forgotten \in Nat /\ stray \subseteq Digest /\ undercut \subseteq Digest

\* A model is listed exactly when it has a version (list_model_versions indexes
\* the first), an artifact exactly when a version refers to it: a registration
\* that fails leaves none of its three rows.
CatalogIsWhole ==
    /\ models = {k[1] : k \in DOMAIN versions}
    /\ artifacts = {versions[k].digest : k \in DOMAIN versions}

\* The version of a model that is active is the one activated last, also when
\* two processes activate and register at once.  (So the answer to an activation
\* says "registered" only if the model was activated again before it was read.)
IsLastActivated(m, v) ==
    \E i \in DOMAIN history : /\ history[i] = <<m, v>>
                              /\ \A j \in DOMAIN history : history[j][1] = m => j <= i

ActiveVersions(m) == {v \in VersionsOf(m) : versions[<<m, v>>].status = "active"}

ActiveIsLastActivated ==
    \A m \in Name, v \in 1..MaxInt : v \in ActiveVersions(m) <=> IsLastActivated(m, v)

\* A registration that lets the store choose the version is never refused as a
\* duplicate, though others register at the same time.
AutoNeverRefused ==
    [][\A p \in Process :
          frame[p].step = "insert" /\ frame'[p].step = "undo" => frame[p].version # NextVersion]_vars

\* What register and activate read after their transaction is there, and with
\* the content the client uploaded: the read never raises ModelVersionNotFoundError
\* and never shows another client's version, however late it comes.
AnswersOwnVersion ==
    \A p \in Process :
        frame[p].step = "answer" => /\ Key(p) \in DOMAIN versions
                                    /\ versions[Key(p)].digest = frame[p].digest

----------------------------------------------------------------------------
(* Properties of the files.                                                   *)

\* Every registered version can be resolved to its content: the file of its
\* digest is there, whatever registration of the same content fails or crashes.
ArtifactsPresent == \A k \in DOMAIN versions : versions[k].digest \in files

\* ... and the one way to lose it is a refused registration that cleans up, after
\* its rollback, a file that another one has taken as its artifact: not a crash, not
\* a statement or a commit that fails, not a registration before or after.
LostOnlyToCleanup == \A k \in DOMAIN versions : versions[k].digest \in files \cup undercut

\* A failed registration leaves no file: a file without a row belongs to a
\* registration that is still under way.
NoOrphans ==
    \A d \in files \ artifacts : \E p \in Process : HasPlaced(p) /\ frame[p].digest = d

\* ... and the only ones that leave one are those that a crash, or an exception
\* nothing catches, ended with the file placed: not a duplicate, not a failing
\* commit, not another registration of the same content.
OrphansAreStray ==
    \A d \in files \ artifacts :
        d \in stray \/ \E p \in Process : HasPlaced(p) /\ frame[p].digest = d

\* Every temporary upload file belongs to a request that has not begun to place
\* it or was left by a crash: none outlives a request that ended, however it did.
UploadsAccountedFor ==
    uploads = Cardinality({p \in Process : HasUpload(p)}) + forgotten

----------------------------------------------------------------------------

Catalog == INSTANCE ModelCatalog WITH
    content <- [m \in Name |-> [v \in VersionsOf(m) |-> versions[<<m, v>>].digest]],
    active <- [m \in Name |-> ActiveVersions(m)]

\* The store implements the catalog: every step registers one version with its
\* content, activates one, or is invisible; no version changes or disappears.
ImplementsCatalog == Catalog!Spec
=============================================================================
